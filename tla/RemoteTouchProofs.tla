-------------------------- MODULE RemoteTouchProofs --------------------------
(***************************************************************************)
(* Proofs about RemoteTouch, for any gestures, pages, capacity of the      *)
(* channel and number of faults.                                           *)
(*                                                                         *)
(* What the program believes of the finger and what the browser knows of   *)
(* it change together in the commands, which run one after the other: the  *)
(* argument is about one command, from what holds before it.  Types come   *)
(* with the fact that whatever is under way belongs to a page.             *)
(*                                                                         *)
(* NoFingerLeftDown needs more: as long as a finger is down, somebody is   *)
(* there to lift it.  LiftInv follows that duty from the page's drag to    *)
(* the requests of its end, and from these to the channel.                 *)
(***************************************************************************)
EXTENDS RemoteTouch, TLAPS

Hands == [active : BOOLEAN, finger : BOOLEAN, why : {"none", "rejected", "stale", "fault"},
          click : BOOLEAN]

-----------------------------------------------------------------------------
(* One command. *)

\* A dispatch changes nothing of the belief; it is rejected when the finger
\* is not where the touch needs it.
LEMMA DispatchHand ==
    ASSUME NEW h \in Hands, h.why = "none", NEW type \in {"start", "move", "end", "cancel"},
           NEW k \in Dispatch(h, type)
    PROVE  /\ k \in Hands /\ k.active = h.active /\ k.click = h.click
           /\ \/ k.why = "rejected" /\ k.finger = h.finger /\ (h.finger <=> type = "start")
              \/ k.why = "none" /\ ~(h.finger <=> type = "start")
                 /\ (k.finger <=> type \in {"start", "move"})
              \/ k.why = "fault" /\ faults # MaxFaults
<1> DEFINE down == type \in {"start", "move"}
<1>1. CASE h.finger = (type = "start")
  <2>1. k = [h EXCEPT !.why = "rejected"]
    BY <1>1 DEF Dispatch
  <2> QED
    BY <1>1, <2>1 DEF Hands
<1>2. CASE h.finger # (type = "start")
  <2>1. \/ k = [h EXCEPT !.finger = down]
        \/ faults # MaxFaults /\ k = [h EXCEPT !.finger = down, !.why = "fault"]
        \/ faults # MaxFaults /\ k = [h EXCEPT !.why = "fault"]
    BY <1>2 DEF Dispatch
  <2>2. down \in BOOLEAN
    OBVIOUS
  <2> QED
    BY <1>2, <2>1, <2>2 DEF Hands
<1> QED
  BY <1>1, <1>2

\* A command that cancels a touch first gives the belief up, even when there
\* was no finger any more.
LEMMA CancelHand ==
    ASSUME NEW h \in Hands, h.why = "none", NEW k \in CancelActive(h)
    PROVE  /\ k \in Hands /\ k.click = h.click
           /\ \/ ~h.active /\ k = h
              \/ h.active /\ ~k.active /\ ~h.finger /\ ~k.finger /\ k.why = "stale"
              \/ h.active /\ ~k.active /\ h.finger /\ ~k.finger /\ k.why = "none"
              \/ h.active /\ ~k.active /\ k.why = "fault" /\ faults # MaxFaults
<1>1. CASE ~h.active
  BY <1>1 DEF CancelActive
<1>2. CASE h.active
  <2>1. PICK i \in Dispatch(h, "cancel") :
           k = [i EXCEPT !.active = FALSE, !.why = IF @ = "rejected" THEN "stale" ELSE @]
    BY <1>2 DEF CancelActive
  <2>2. /\ i \in Hands /\ i.click = h.click
        /\ \/ i.why = "rejected" /\ i.finger = h.finger /\ ~h.finger
           \/ i.why = "none" /\ h.finger /\ ~i.finger
           \/ i.why = "fault" /\ faults # MaxFaults
    BY DispatchHand
  <2> QED
    BY <1>2, <2>1, <2>2 DEF Hands
<1> QED
  BY <1>1, <1>2 DEF Hands

\* What a command may make of the belief and the finger.
Sound(k) ==
    /\ k \in Hands
    /\ k.why = "fault" => faults # MaxFaults
    /\ k.why # "fault" =>
          /\ k.finger /\ ~k.active => finger /\ ~touchActive
          /\ k.click /\ k.finger => finger /\ ~touchActive
          /\ (touchActive => finger) => (k.active => k.finger)
    /\ k.why = "stale" => touchActive /\ ~finger /\ ~k.active

LEMMA RunSound ==
    ASSUME touchActive \in BOOLEAN, finger \in BOOLEAN,
           NEW c, c.kind \in Kinds, NEW k \in Run(c, Hand)
    PROVE  Sound(k)
<1>1. /\ Hand \in Hands /\ Hand.why = "none" /\ ~Hand.click
      /\ Hand.active = touchActive /\ Hand.finger = finger
  BY DEF Hand, Hands
<1>2. CASE c.kind = "start"
  <2> PICK i \in CancelActive(Hand) : \E j \in Dispatch(i, "start") : k = Active(j, TRUE)
    BY <1>2 DEF Run, Start
  <2>1. PICK j \in Dispatch(i, "start") : k = Active(j, TRUE)
    OBVIOUS
  <2>2. CASE i.why = "none"
    <3>1. i \in Hands /\ ~i.click /\ ~i.active /\ (i.finger => finger /\ ~touchActive)
      BY <1>1, <2>2, CancelHand
    <3>2. /\ j \in Hands /\ ~j.click /\ ~j.active
          /\ \/ j.why = "rejected" /\ (j.finger => finger /\ ~touchActive)
             \/ j.why = "none" /\ j.finger
             \/ j.why = "fault" /\ faults # MaxFaults
      BY <2>2, <3>1, DispatchHand
    <3>3. k \in Hands /\ k = IF j.why = "none" THEN [j EXCEPT !.active = TRUE] ELSE j
      BY <2>1, <3>2 DEF Active, Hands
    <3> QED
      BY <3>2, <3>3 DEF Sound, Hands
  <2>3. CASE i.why # "none"
    <3>1. k = i
      BY <2>1, <2>3 DEF Dispatch, Active
    <3> QED
      BY <1>1, <2>3, <3>1, CancelHand DEF Sound
  <2> QED
    BY <2>2, <2>3
<1>3. CASE c.kind = "move"
  BY <1>1, <1>3, DispatchHand DEF Run, Move, Sound
<1>4. CASE c.kind \in {"end", "cancel"}
  <2>1. CASE ~Hand.active
    BY <1>1, <1>4, <2>1 DEF Run, Lift, Sound
  <2>2. CASE Hand.active
    <3>1. PICK j \in Dispatch(Hand, c.kind) : k = Active(j, FALSE)
      BY <1>4, <2>2 DEF Run, Lift
    <3>2. /\ j \in Hands /\ ~j.click /\ j.active
          /\ \/ j.why = "rejected" /\ ~j.finger /\ ~finger
             \/ j.why = "none" /\ ~j.finger
             \/ j.why = "fault" /\ faults # MaxFaults
      BY <1>1, <1>4, <2>2, DispatchHand
    <3>3. k \in Hands /\ k = IF j.why = "none" THEN [j EXCEPT !.active = FALSE] ELSE j
      BY <3>1, <3>2 DEF Active, Hands
    <3> QED
      BY <1>1, <2>2, <3>2, <3>3 DEF Sound, Hands
  <2> QED
    BY <2>1, <2>2
<1>5. CASE c.kind \in {"click", "wheel"}
  <2>1. PICK j \in CancelActive(Hand) : k = IF j.why = "none" THEN [j EXCEPT !.click = TRUE] ELSE j
    BY <1>5 DEF Run, Click
  <2> QED
    BY <1>1, <2>1, CancelHand DEF Sound, Hands
<1>6. CASE c.kind = "navigate"
  BY <1>1, <1>6, CancelHand DEF Run, Navigate, Sound
<1> QED
  BY <1>2, <1>3, <1>4, <1>5, <1>6 DEF Kinds, Others

-----------------------------------------------------------------------------
(* Types. *)

Drags == [moved : BOOLEAN, start : {"none", "pending", "ok", "failed"}, tail : Tails]

\* Requests, answers, points to send and drags that ended belong to a page.
Owned ==
    /\ \A c \in net \cup waiting : by[c.of] # Nobody
    /\ \A a \in answers : by[a.cmd.of] # Nobody
    /\ \A g \in Gestures : drag[g].tail # "open" => by[g] # Nobody
    /\ \A v \in Viewers : point[v] # Nobody => by[point[v]] # Nobody

Typed == TypeOK /\ Owned

LEMMA TypedInit == Init => Typed
<1> SUFFICES ASSUME Init PROVE Typed
  OBVIOUS
<1>1. NewDrag \in Drags /\ NewDrag.tail = "open"
  BY DEF NewDrag, Drags, Tails
<1>2. drag \in [Gestures -> Drags] /\ \A g \in Gestures : drag[g].tail = "open"
  BY <1>1 DEF Init
<1>3. queue = <<>> /\ queue \in Seq(Commands) /\ Len(queue) = 0
  BY DEF Init
<1>4. TypeOK
  <2>1. by \in [Gestures -> Viewers \cup {Nobody}] /\ drag \in [Gestures -> Drags]
    BY <1>2 DEF Init
  <2>2. /\ point \in [Viewers -> Gestures \cup {Nobody}] /\ busy \in [Viewers -> BOOLEAN]
        /\ net \subseteq Commands /\ waiting \subseteq Commands
        /\ answers \subseteq [cmd : Commands, ok : BOOLEAN]
    BY DEF Init
  <2>3. /\ touchActive \in BOOLEAN /\ finger \in BOOLEAN
        /\ lost \in BOOLEAN /\ excused \in BOOLEAN /\ stale \in Nat /\ pressed \in BOOLEAN
    BY DEF Init
  <2>4. faults \in 0..MaxFaults /\ Len(queue) <= QueueCap
    <3>1. faults = 0 /\ Len(queue) = 0
      BY <1>3 DEF Init
    <3> QED
      BY <3>1, BoundsAssumption
  <2> QED
    BY <1>3, <2>1, <2>2, <2>3, <2>4 DEF TypeOK, Drags
<1>5. Owned
  BY <1>2 DEF Init, Owned
<1> QED
  BY <1>4, <1>5 DEF Typed

\* A request of a gesture that has a page.
LEMMA CmdTyped ==
    ASSUME NEW g \in Gestures, NEW kind \in Kinds
    PROVE  Cmd(g, kind) \in Commands /\ Cmd(g, kind).of = g
BY DEF Cmd, Commands

\* A drag goes on to its next request.
LEMMA GotoTyped ==
    ASSUME Typed, NEW g \in Gestures, by[g] # Nobody, NEW tail \in Tails, NEW kind \in Kinds,
           Goto(g, tail, kind), UNCHANGED <<by, point, busy, queue, waiting, browser, faults, excused>>,
           answers' \subseteq answers
    PROVE  Typed'
<1>1. /\ drag' \in [Gestures -> Drags]
      /\ \A h \in Gestures : h # g => drag'[h] = drag[h]
  BY DEF Goto, Typed, TypeOK, Drags
<1>2. net' \subseteq Commands /\ \A c \in net' : c \in net \/ c.of = g
  BY CmdTyped DEF Goto, Typed, TypeOK
<1>3. TypeOK'
  BY <1>1, <1>2 DEF Typed, TypeOK, Drags, browser
<1>4. Owned'
  BY <1>1, <1>2 DEF Typed, Owned
<1> QED
  BY <1>3, <1>4 DEF Typed

\* A drag, one that has a page, is changed and nothing is sent.
LEMMA DragTyped ==
    ASSUME Typed, NEW g \in Gestures, by[g] # Nobody, drag' \in [Gestures -> Drags],
           \A h \in Gestures : h # g => drag'[h].tail = drag[h].tail,
           UNCHANGED <<by, net, queue, waiting, browser, faults, excused>>,
           answers' \subseteq answers, busy' \in [Viewers -> BOOLEAN],
           point' \in [Viewers -> Gestures \cup {Nobody}],
           \A v \in Viewers : point'[v] \in {Nobody, g, point[v]}
    PROVE  Typed'
<1>1. TypeOK'
  BY DEF Typed, TypeOK, Drags, browser
<1>2. Owned'
  BY DEF Typed, Owned
<1> QED
  BY <1>1, <1>2 DEF Typed

\* A move is sent, or kept for later.
LEMMA FlushTyped ==
    ASSUME Typed, NEW g \in Gestures, by[g] # Nobody, Flush(by[g], g),
           drag' \in [Gestures -> Drags], \A h \in Gestures : drag'[h].tail = drag[h].tail,
           UNCHANGED <<by, queue, waiting, browser, faults, excused>>, answers' \subseteq answers
    PROVE  Typed'
<1>1. by[g] \in Viewers
  BY DEF Typed, TypeOK
<1>2. CASE busy[by[g]]
  <2>1. /\ point' \in [Viewers -> Gestures \cup {Nobody}] /\ UNCHANGED <<busy, net>>
        /\ \A v \in Viewers : point'[v] \in {g, point[v]}
    BY <1>1, <1>2 DEF Flush, Typed, TypeOK
  <2> QED
    BY <2>1, DragTyped DEF Typed, TypeOK
<1>3. CASE ~busy[by[g]]
  <2>1. /\ busy' \in [Viewers -> BOOLEAN] /\ point' = point
        /\ net' \subseteq Commands /\ \A c \in net' : c \in net \/ c.of = g
    <3>1. Cmd(g, "move") \in Commands /\ Cmd(g, "move").of = g
      BY CmdTyped DEF Kinds
    <3>2. net' = net \cup {Cmd(g, "move")} /\ busy' = [busy EXCEPT ![by[g]] = TRUE] /\ point' = point
      BY <1>3 DEF Flush
    <3> QED
      BY <3>1, <3>2 DEF Typed, TypeOK
  <2>2. TypeOK'
    BY <2>1 DEF Typed, TypeOK, Drags, browser
  <2>3. Owned'
    BY <2>1 DEF Typed, Owned
  <2> QED
    BY <2>2, <2>3 DEF Typed
<1> QED
  BY <1>2, <1>3

LEMMA PressTyped ==
    ASSUME Typed, NEW g \in Gestures, NEW v \in Viewers, Press(g, v)
    PROVE  Typed'
<1> DEFINE open == {h \in Gestures : by[h] = v /\ drag[h].tail = "open"}
<1>1. /\ by' \in [Gestures -> Viewers \cup {Nobody}] /\ by[g] = Nobody
      /\ \A h \in Gestures : by[h] # Nobody => by'[h] = by[h]
  BY DEF Press, Typed, TypeOK
<1>2. drag' = [h \in Gestures |-> IF h \in open THEN [drag[h] EXCEPT !.tail = "over"] ELSE drag[h]]
  BY DEF Press
<1>3. /\ drag' \in [Gestures -> Drags]
      /\ \A h \in Gestures : drag'[h].tail # "open" => h \in open \/ drag[h].tail # "open"
  BY <1>2 DEF Typed, TypeOK, Drags, Tails
<1>4. excused' \in BOOLEAN
  BY DEF Press, Typed, TypeOK
<1>5. UNCHANGED <<point, busy, net, queue, waiting, answers, browser, faults>>
  BY DEF Press
<1>6. TypeOK'
  BY <1>1, <1>3, <1>4, <1>5 DEF Typed, TypeOK, Drags, browser
<1>7. \A h \in open : by[h] # Nobody
  BY NamesAssumption DEF Nobody
<1>8. \A c \in net \cup waiting : c.of \in Gestures
  BY DEF Typed, TypeOK, Commands
<1>9. \A a \in answers : a.cmd.of \in Gestures
  BY DEF Typed, TypeOK, Commands
<1>10. \A u \in Viewers : point[u] \in Gestures \cup {Nobody}
  BY DEF Typed, TypeOK
<1>11. Owned'
  BY <1>1, <1>3, <1>5, <1>7, <1>8, <1>9, <1>10 DEF Typed, Owned
<1> QED
  BY <1>6, <1>11 DEF Typed

LEMMA SendTyped ==
    ASSUME Typed, NEW g \in Gestures, NEW v \in Viewers, NEW kind \in Others, Send(g, v, kind)
    PROVE  Typed'
<1>1. /\ by' \in [Gestures -> Viewers \cup {Nobody}] /\ by'[g] # Nobody
      /\ \A h \in Gestures : by[h] # Nobody => by'[h] = by[h]
  BY NamesAssumption DEF Send, Typed, TypeOK, Nobody
<1>2. /\ drag' \in [Gestures -> Drags]
      /\ \A h \in Gestures : h # g => drag'[h] = drag[h]
  BY DEF Send, Typed, TypeOK, Drags, Tails
<1>3. net' \subseteq Commands /\ \A c \in net' : c \in net \/ c.of = g
  <2>1. Cmd(g, kind) \in Commands /\ Cmd(g, kind).of = g
    BY CmdTyped DEF Kinds
  <2> QED
    BY <2>1 DEF Send, Typed, TypeOK
<1>4. UNCHANGED <<point, busy, queue, waiting, answers, browser, faults, excused>>
  BY DEF Send
<1>5. TypeOK'
  BY <1>1, <1>2, <1>3, <1>4 DEF Typed, TypeOK, Drags, browser
<1>6. \A c \in net \cup waiting : c.of \in Gestures
  BY DEF Typed, TypeOK, Commands
<1>7. \A a \in answers : a.cmd.of \in Gestures
  BY DEF Typed, TypeOK, Commands
<1>8. \A u \in Viewers : point[u] \in Gestures \cup {Nobody}
  BY DEF Typed, TypeOK
<1>9. Owned'
  BY <1>1, <1>2, <1>3, <1>4, <1>6, <1>7, <1>8 DEF Typed, Owned
<1> QED
  BY <1>5, <1>9 DEF Typed

LEMMA GestureTyped ==
    ASSUME Typed, NEW g \in Gestures,
           Drag(g) \/ EndDrag(g) \/ \E tail \in {"cancel", "tap", "drop"} : Release(g, tail)
    PROVE  Typed'
<1>1. CASE Drag(g)
  <2>1. by[g] # Nobody /\ UNCHANGED <<by, queue, waiting, answers, browser, faults, excused>>
    BY <1>1 DEF Drag
  <2>2. CASE drag[g].start = "ok" /\ Flush(by[g], g) /\ UNCHANGED drag
    BY <2>1, <2>2, FlushTyped DEF Typed, TypeOK, Drags
  <2>3. CASE /\ drag' = [drag EXCEPT ![g].moved = TRUE, ![g].start = "pending"]
             /\ net' = net \cup {Cmd(g, "start")} /\ UNCHANGED <<point, busy>>
    <3>1. drag' \in [Gestures -> Drags] /\ \A h \in Gestures : drag'[h].tail = drag[h].tail
      BY <2>3, ZenonT(60) DEF Typed, TypeOK, Drags
    <3>2. net' \subseteq Commands /\ \A c \in net' : c \in net \/ c.of = g
      <4>1. Cmd(g, "start") \in Commands /\ Cmd(g, "start").of = g
        BY CmdTyped DEF Kinds
      <4> QED
        BY <2>3, <4>1 DEF Typed, TypeOK
    <3>3. TypeOK'
      BY <2>1, <2>3, <3>1, <3>2 DEF Typed, TypeOK, Drags, browser
    <3>4. Owned'
      BY <2>1, <2>3, <3>1, <3>2 DEF Typed, Owned
    <3> QED
      BY <3>3, <3>4 DEF Typed
  <2> QED
    BY <1>1, <2>2, <2>3 DEF Drag
<1>2. CASE EndDrag(g)
  <2>1. UNCHANGED <<by, point, busy, queue, waiting, answers, browser, faults, excused>>
    BY <1>2 DEF EndDrag
  <2>2. drag[g].tail \in {"cancel", "tap", "drop"} /\ by[g] # Nobody
    BY <1>2 DEF EndDrag, Typed, Owned
  <2>3. CASE \E tail \in Tails, kind \in Kinds : Goto(g, tail, kind)
    BY <2>1, <2>2, <2>3, GotoTyped
  <2>4. CASE drag' = [drag EXCEPT ![g].tail = "over"] /\ UNCHANGED net
    <3>1. drag' \in [Gestures -> Drags] /\ \A h \in Gestures : h # g => drag'[h].tail = drag[h].tail
      BY <2>4, SMTT(60) DEF Typed, TypeOK, Drags, Tails
    <3> QED
      BY <2>1, <2>2, <2>4, <3>1, DragTyped DEF Typed, TypeOK
  <2> QED
    BY <1>2, <2>3, <2>4 DEF EndDrag, Tails, Kinds
<1>3. ASSUME NEW tail \in {"cancel", "tap", "drop"}, Release(g, tail) PROVE Typed'
  <2>1. by[g] # Nobody /\ UNCHANGED <<by, busy, net, queue, waiting, answers, browser, faults, excused>>
    BY <1>3 DEF Release
  <2>2. drag' \in [Gestures -> Drags] /\ \A h \in Gestures : h # g => drag'[h].tail = drag[h].tail
    BY <1>3, SMTT(60) DEF Release, Typed, TypeOK, Drags, Tails
  <2>3. point' \in [Viewers -> Gestures \cup {Nobody}] /\ \A v \in Viewers : point'[v] \in {Nobody, g, point[v]}
    BY <1>3 DEF Release, Typed, TypeOK
  <2> QED
    BY <2>1, <2>2, <2>3, DragTyped DEF Typed, TypeOK
<1> QED
  BY <1>1, <1>2, <1>3

LEMMA GotTyped ==
    ASSUME Typed, NEW a \in answers, Got(a)
    PROVE  Typed'
<1> DEFINE g == a.cmd.of
<1>1. /\ g \in Gestures /\ by[g] # Nobody /\ by[g] \in Viewers /\ a.cmd.kind \in Kinds /\ a.ok \in BOOLEAN
      /\ answers' \subseteq answers /\ UNCHANGED <<by, queue, waiting, browser, faults, excused>>
  BY DEF Got, Typed, TypeOK, Owned, Commands
<1>2. CASE GotStart(g, a.ok)
  <2>1. drag' \in [Gestures -> Drags] /\ \A h \in Gestures : drag'[h].tail = drag[h].tail
    BY <1>1, <1>2 DEF GotStart, Typed, TypeOK, Drags
  <2>2. CASE Flush(by[g], g)
    BY <1>1, <2>1, <2>2, FlushTyped
  <2>3. CASE UNCHANGED <<point, busy, net>>
    BY <1>1, <2>1, <2>3, DragTyped DEF Typed, TypeOK
  <2> QED
    BY <1>2, <2>2, <2>3 DEF GotStart
<1>3. CASE GotMove(g)
  <2> DEFINE v == by[g]
             h == point[v]
  <2>1. v \in Viewers /\ h \in Gestures \cup {Nobody} /\ (h # Nobody => by[h] # Nobody) /\ UNCHANGED drag
    BY <1>1, <1>3 DEF GotMove, Typed, TypeOK, Owned
  <2>2. /\ busy' \in [Viewers -> BOOLEAN]
        /\ point' \in [Viewers -> Gestures \cup {Nobody}] /\ \A u \in Viewers : point'[u] \in {Nobody, point[u]}
    BY <1>3, <2>1 DEF GotMove, Typed, TypeOK
  <2>3. net' \subseteq Commands /\ \A c \in net' : c \in net \/ by[c.of] # Nobody
    <3>1. CASE h = Nobody
      BY <1>3, <3>1 DEF GotMove, Typed, TypeOK
    <3>2. CASE h # Nobody
      <4>1. Cmd(h, "move") \in Commands /\ Cmd(h, "move").of = h
        BY <2>1, <3>2, CmdTyped DEF Kinds
      <4>2. net' = net \cup {Cmd(h, "move")}
        BY <1>3, <3>2 DEF GotMove
      <4> QED
        BY <2>1, <3>2, <4>1, <4>2 DEF Typed, TypeOK
    <3> QED
      BY <3>1, <3>2
  <2>4. TypeOK'
    BY <1>1, <2>1, <2>2, <2>3 DEF Typed, TypeOK, browser
  <2>5. Owned'
    BY <1>1, <2>1, <2>2, <2>3 DEF Typed, Owned
  <2> QED
    BY <2>4, <2>5 DEF Typed
<1>4. CASE GotLast(g, a.ok)
  <2>1. UNCHANGED <<point, busy>>
    BY <1>4 DEF GotLast
  <2>2. CASE \E tail \in Tails, kind \in Kinds : Goto(g, tail, kind)
    BY <1>1, <2>1, <2>2, GotoTyped
  <2>3. CASE drag' = [drag EXCEPT ![g].tail = "over"] /\ UNCHANGED net
    <3>1. drag' \in [Gestures -> Drags] /\ \A h \in Gestures : h # g => drag'[h].tail = drag[h].tail
      BY <2>3 DEF Typed, TypeOK, Drags, Tails
    <3> QED
      BY <1>1, <2>1, <2>3, <3>1, DragTyped DEF Typed, TypeOK
  <2>4. \/ Goto(g, "clicking", "click") \/ Goto(g, "undoing", "cancel")
        \/ drag' = [drag EXCEPT ![g].tail = "over"] /\ UNCHANGED net
    BY <1>4, Zenon DEF GotLast
  <2> QED
    BY <2>2, <2>3, <2>4 DEF Tails, Kinds
<1>5. GotStart(g, a.ok) \/ GotMove(g) \/ GotLast(g, a.ok)
  BY Zenon DEF Got
<1> QED
  BY <1>2, <1>3, <1>4, <1>5

LEMMA HandlerTyped ==
    ASSUME Typed, NEW c \in net, Enter(c) \/ EnterMove(c) \/ Refuse(c)
    PROVE  Typed'
<1>1. c \in Commands /\ by[c.of] # Nobody /\ UNCHANGED <<page, browser>>
  BY DEF Enter, EnterMove, Refuse, Typed, TypeOK, Owned
<1>2. queue' \in Seq(Commands) /\ Len(queue') <= QueueCap
  <2>1. queue \in Seq(Commands) /\ Len(queue) <= QueueCap
    BY DEF Typed, TypeOK
  <2>2. \/ queue' = queue
        \/ queue' = Append(queue, c) /\ Len(queue) < QueueCap
    BY DEF Enter, EnterMove, Refuse, Put
  <2> QED
    BY <1>1, <2>1, <2>2, BoundsAssumption
<1>3. net' \subseteq net /\ waiting' \subseteq waiting \cup {c}
  BY DEF Enter, EnterMove, Refuse
<1>4. /\ answers' \subseteq [cmd : Commands, ok : BOOLEAN]
      /\ \A a \in answers' : a \in answers \/ a.cmd = c
  <2>1. answers' = answers \/ \E ok \in BOOLEAN : answers' = answers \cup {[cmd |-> c, ok |-> ok]}
    BY DEF Enter, EnterMove, Refuse
  <2> QED
    BY <1>1, <2>1 DEF Typed, TypeOK
<1>5. faults' \in 0..MaxFaults /\ excused' \in BOOLEAN
  <2>1. CASE UNCHANGED <<faults, excused>>
    BY <2>1 DEF Typed, TypeOK
  <2>2. CASE Refuse(c)
    <3>1. excused' \in BOOLEAN
      BY <2>2, Zenon DEF Refuse
    <3> QED
      BY <2>2, <3>1, BoundsAssumption DEF Refuse, Typed, TypeOK
  <2> QED
    BY <2>1, <2>2 DEF Enter, EnterMove
<1>6. TypeOK'
  BY <1>1, <1>2, <1>3, <1>4, <1>5 DEF Typed, TypeOK, page, browser
<1>7. Owned'
  BY <1>1, <1>3, <1>4 DEF Typed, Owned, page
<1> QED
  BY <1>6, <1>7 DEF Typed

LEMMA AbandonTyped ==
    ASSUME Typed, NEW c \in waiting, Abandon(c)
    PROVE  Typed'
<1>1. c \in Commands /\ by[c.of] # Nobody /\ UNCHANGED <<page, net, queue, browser>>
  BY DEF Abandon, Typed, TypeOK, Owned
<1>2. /\ answers' \subseteq [cmd : Commands, ok : BOOLEAN] /\ waiting' \subseteq waiting
      /\ \A a \in answers' : a \in answers \/ a.cmd = c
  <2>1. answers' = answers \cup {[cmd |-> c, ok |-> FALSE]} /\ waiting' = waiting \ {c}
    BY DEF Abandon
  <2>2. [cmd |-> c, ok |-> FALSE] \in [cmd : Commands, ok : BOOLEAN]
    BY <1>1
  <2>3. answers' \subseteq [cmd : Commands, ok : BOOLEAN]
    BY <2>1, <2>2 DEF Typed, TypeOK
  <2> QED
    BY <2>1, <2>3
<1>3. faults' \in 0..MaxFaults /\ excused' \in BOOLEAN
  <2>1. excused' \in BOOLEAN
    BY Zenon DEF Abandon
  <2> QED
    BY <2>1, BoundsAssumption DEF Abandon, Typed, TypeOK
<1>4. TypeOK'
  BY <1>1, <1>2, <1>3 DEF Typed, TypeOK, page, browser
<1>5. Owned'
  BY <1>1, <1>2 DEF Typed, Owned, page
<1> QED
  BY <1>4, <1>5 DEF Typed

LEMMA LeaveTyped ==
    ASSUME Typed, NEW v \in Viewers, Leave(v)
    PROVE  Typed'
<1> DEFINE mine == {g \in Gestures : by[g] = v}
<1>1. /\ net' \subseteq net /\ waiting' \subseteq waiting /\ answers' \subseteq answers
      /\ faults' \in 0..MaxFaults /\ excused' = TRUE /\ UNCHANGED <<by, queue, browser>>
  BY BoundsAssumption DEF Leave, Typed, TypeOK
<1>2. drag' = [g \in Gestures |-> IF g \in mine THEN [drag[g] EXCEPT !.tail = "over"] ELSE drag[g]]
  BY DEF Leave
<1>3. /\ drag' \in [Gestures -> Drags]
      /\ \A g \in Gestures : drag'[g].tail # "open" => g \in mine \/ drag[g].tail # "open"
  BY <1>2 DEF Typed, TypeOK, Drags, Tails
<1>4. /\ busy' \in [Viewers -> BOOLEAN] /\ point' \in [Viewers -> Gestures \cup {Nobody}]
      /\ \A u \in Viewers : point'[u] \in {Nobody, point[u]}
  BY DEF Leave, Typed, TypeOK
<1>5. \A g \in mine : by[g] # Nobody
  BY NamesAssumption DEF Nobody
<1>6. TypeOK'
  BY <1>1, <1>3, <1>4 DEF Typed, TypeOK, Drags, browser
<1>7. Owned'
  BY <1>1, <1>3, <1>4, <1>5 DEF Typed, Owned
<1> QED
  BY <1>6, <1>7 DEF Typed

\* The command that is taken from the channel.
LEMMA HeadTyped ==
    ASSUME Typed, queue # <<>>
    PROVE  /\ Head(queue) \in Commands /\ Head(queue).kind \in Kinds
           /\ Tail(queue) \in Seq(Commands) /\ Len(Tail(queue)) <= QueueCap
<1>1. queue \in Seq(Commands) /\ Len(queue) <= QueueCap
  BY DEF Typed, TypeOK
<1>2. Head(queue) \in Commands /\ Tail(queue) \in Seq(Commands) /\ Len(Tail(queue)) = Len(queue) - 1
  BY <1>1
<1>3. Len(Tail(queue)) <= QueueCap
  BY <1>1, <1>2, BoundsAssumption
<1> QED
  BY <1>2, <1>3 DEF Commands

LEMMA ExecTyped ==
    ASSUME Typed, Exec
    PROVE  Typed'
<1> DEFINE c == Head(queue)
<1>1. c \in Commands /\ c.kind \in Kinds /\ Tail(queue) \in Seq(Commands) /\ Len(Tail(queue)) <= QueueCap
  <2>1. queue # <<>>
    BY DEF Exec
  <2> QED
    BY <2>1, HeadTyped
<1>2. PICK k \in Run(c, Hand) :
        /\ queue' = Tail(queue) /\ touchActive' = k.active /\ finger' = k.finger
        /\ pressed' = (pressed \/ (k.click /\ k.finger /\ ~lost /\ k.why # "fault"))
        /\ lost' = (lost \/ k.why = "fault")
        /\ excused' = (excused \/ k.why = "fault")
        /\ faults' = IF k.why = "fault" THEN faults + 1 ELSE faults
        /\ stale' = IF k.why = "fault" THEN 0
                    ELSE IF Succeeded(c, k) THEN stale ELSE stale + (IF k.why = "stale" THEN 1 ELSE 0)
        /\ IF c \in waiting
           THEN /\ waiting' = waiting \ {c}
                /\ answers' = answers \cup {[cmd |-> c, ok |-> Succeeded(c, k)]}
           ELSE UNCHANGED <<waiting, answers>>
  BY DEF Exec
<1>3. k \in Hands /\ (k.why = "fault" => faults # MaxFaults)
  BY <1>1, RunSound DEF Sound, Typed, TypeOK
<1>4. touchActive' \in BOOLEAN /\ finger' \in BOOLEAN
  BY <1>2, <1>3 DEF Hands
<1>5. pressed' \in BOOLEAN /\ lost' \in BOOLEAN /\ excused' \in BOOLEAN
  BY <1>2, Zenon
<1>6. faults' \in 0..MaxFaults /\ stale' \in Nat
  BY <1>2, <1>3, BoundsAssumption DEF Typed, TypeOK
<1>7. Succeeded(c, k) \in BOOLEAN
  BY Zenon DEF Succeeded
<1>8. /\ answers' \subseteq [cmd : Commands, ok : BOOLEAN] /\ waiting' \subseteq waiting
      /\ \A a \in answers' : a \in answers \/ (a.cmd = c /\ c \in waiting)
  BY <1>1, <1>2, <1>7 DEF Typed, TypeOK
<1>9. UNCHANGED <<page, net>>
  BY DEF Exec
<1>10. TypeOK'
  BY <1>1, <1>2, <1>4, <1>5, <1>6, <1>8, <1>9 DEF Typed, TypeOK, page
<1>11. Owned'
  BY <1>8, <1>9 DEF Typed, Owned, page
<1> QED
  BY <1>10, <1>11 DEF Typed

LEMMA TypedNext == Typed /\ [Next]_vars => Typed'
<1> SUFFICES ASSUME Typed, [Next]_vars PROVE Typed'
  OBVIOUS
<1>1. CASE Restart
  <2>1. TypeOK'
    <3>1. faults' \in 0..MaxFaults
      BY <1>1, BoundsAssumption DEF Restart, Typed, TypeOK
    <3>2. finger' \in BOOLEAN /\ lost' \in BOOLEAN /\ stale' \in Nat
      BY <1>1 DEF Restart
    <3>3. UNCHANGED <<by, drag, point, busy, net, queue, waiting, answers, touchActive, excused, pressed>>
      BY <1>1 DEF Restart, page
    <3> QED
      BY <3>1, <3>2, <3>3 DEF Typed, TypeOK
  <2>2. Owned'
    BY <1>1 DEF Restart, Typed, Owned, page
  <2> QED
    BY <2>1, <2>2 DEF Typed
<1>2. CASE UNCHANGED vars
  BY <1>2 DEF vars, Typed, TypeOK, Owned
<1> QED
  BY <1>1, <1>2, PressTyped, SendTyped, GestureTyped, GotTyped, HandlerTyped, AbandonTyped,
     LeaveTyped, ExecTyped DEF Next

-----------------------------------------------------------------------------
(* The finger. *)

\* A touch the browser does not know of any more comes from before a fault,
\* and the first command that finds out gives it up.
StaleOnce == stale = 0 \/ (stale = 1 /\ (touchActive => finger))

TouchInv == Typed /\ FingerKnown /\ ClickWithoutFinger /\ StaleOnce

LEMMA TouchInvInit == Init => TouchInv
BY TypedInit DEF Init, TouchInv, FingerKnown, ClickWithoutFinger, StaleOnce

LEMMA TouchInvNext == TouchInv /\ [Next]_vars => TouchInv'
<1> SUFFICES ASSUME TouchInv, [Next]_vars PROVE TouchInv'
  OBVIOUS
<1>1. Typed'
  BY TypedNext DEF TouchInv
<1>2. CASE Exec
  <2> DEFINE c == Head(queue)
  <2>1. c.kind \in Kinds
    <3>1. queue # <<>>
      BY <1>2 DEF Exec
    <3> QED
      BY <3>1, HeadTyped DEF TouchInv
  <2>2. PICK k \in Run(c, Hand) :
          /\ touchActive' = k.active /\ finger' = k.finger
          /\ pressed' = (pressed \/ (k.click /\ k.finger /\ ~lost /\ k.why # "fault"))
          /\ lost' = (lost \/ k.why = "fault")
          /\ stale' = IF k.why = "fault" THEN 0
                      ELSE IF Succeeded(c, k) THEN stale ELSE stale + (IF k.why = "stale" THEN 1 ELSE 0)
    BY <1>2 DEF Exec
  <2>3. Sound(k)
    BY <2>1, RunSound DEF TouchInv, Typed, TypeOK
  <2>4. CASE k.why = "fault"
    BY <1>1, <2>2, <2>4 DEF TouchInv, FingerKnown, ClickWithoutFinger, StaleOnce
  <2>5. CASE k.why # "fault"
    <3>1. FingerKnown' /\ ClickWithoutFinger'
      BY <2>2, <2>3, <2>5 DEF TouchInv, FingerKnown, ClickWithoutFinger, Sound
    <3>2. StaleOnce'
      BY <2>2, <2>3, <2>5 DEF TouchInv, StaleOnce, Sound, Typed, TypeOK
    <3> QED
      BY <1>1, <3>1, <3>2 DEF TouchInv
  <2> QED
    BY <2>4, <2>5
<1>3. CASE Restart
  BY <1>1, <1>3 DEF Restart, TouchInv, FingerKnown, ClickWithoutFinger, StaleOnce
<1>4. CASE UNCHANGED browser
  BY <1>1, <1>4 DEF browser, TouchInv, FingerKnown, ClickWithoutFinger, StaleOnce
<1>5. Exec \/ Restart \/ UNCHANGED browser
  BY ZenonT(60) DEF Next, vars, browser, Press, Send, Drag, EndDrag, Release, Got, Enter, EnterMove, Refuse,
         Abandon, Leave
<1> QED
  BY <1>2, <1>3, <1>4, <1>5

THEOREM TouchInvHolds == Spec => []TouchInv
<1> QED
  BY TouchInvInit, TouchInvNext, PTL DEF Spec

\* Every variable has its type, and the channel its capacity, for every
\* number of gestures, pages and faults.
THEOREM TypeCorrect == Spec => []TypeOK
<1>1. TouchInv => TypeOK
  BY DEF TouchInv, Typed
<1> QED
  BY <1>1, TouchInvHolds, PTL

\* The program knows of every finger it has put down.
THEOREM FingerKnownHolds == Spec => []FingerKnown
<1>1. TouchInv => FingerKnown
  BY DEF TouchInv
<1> QED
  BY <1>1, TouchInvHolds, PTL

\* No click and no wheel reaches the page while a finger is down.
THEOREM ClickWithoutFingerHolds == Spec => []ClickWithoutFinger
<1>1. TouchInv => ClickWithoutFinger
  BY DEF TouchInv
<1> QED
  BY <1>1, TouchInvHolds, PTL

\* A touch that outlived its browser costs at most one command.
THEOREM StaleTouchCostsOneHolds == Spec => []StaleTouchCostsOne
<1>1. TouchInv => StaleTouchCostsOne
  BY DEF TouchInv, StaleOnce, StaleTouchCostsOne
<1> QED
  BY <1>1, TouchInvHolds, PTL

-----------------------------------------------------------------------------
(* Who lifts the finger.  For every gesture, what is under way and how far   *)
(* the page's drag has come; for the finger, one who will lift it.           *)

Early == {"open", "cancel", "tap", "drop"}

\* The commands that end a touch, or cancel it first.
Lasts == Kinds \ {"start", "move"}

Ans(c, ok) == [cmd |-> c, ok |-> ok] \in answers

InFlight(c) == c \in net \/ c \in waiting \/ Ans(c, TRUE) \/ Ans(c, FALSE)

\* A command is in one place at a time, and has one answer.
Once(c) ==
    /\ c \in net => c \notin waiting /\ ~Ans(c, TRUE) /\ ~Ans(c, FALSE)
    /\ c \in waiting => ~Ans(c, TRUE) /\ ~Ans(c, FALSE)
    /\ Ans(c, TRUE) => ~Ans(c, FALSE)

GestureInv(g) ==
    /\ by[g] = Nobody => drag[g].start = "none"
    /\ drag[g].start # "none" => drag[g].moved
    /\ drag[g].start = "pending" /\ ~excused => drag[g].tail \in Early
    /\ InFlight(Cmd(g, "start")) => drag[g].start = "pending"
    /\ Once(Cmd(g, "start"))
    /\ \A kind \in Lasts : InFlight(Cmd(g, kind)) =>
          drag[g].tail \notin Early /\ (drag[g].tail = "ending" => kind = "end")
    /\ drag[g].tail = "ending" => Once(Cmd(g, "end"))

\* A start in the channel has a page that waits for it.
QueuedStarts ==
    ~excused => \A i \in 1..Len(queue) : queue[i].kind = "start" =>
                   /\ queue[i] \in waiting
                   /\ \A j \in 1..Len(queue) : queue[j] = queue[i] => j = i

\* The gesture's page will send the command that lifts the finger, or has.
Lifting(g) ==
    \/ Ans(Cmd(g, "start"), TRUE)
    \/ drag[g].start = "ok" /\ drag[g].tail \in Early
    \/ Cmd(g, "cancel") \in net
    \/ drag[g].tail = "ending" /\ (Cmd(g, "end") \in net \/ Ans(Cmd(g, "end"), FALSE))

LiftQueued == \E i \in 1..Len(queue) : queue[i].kind \in Lasts

WillLift == finger /\ ~excused => LiftQueued \/ \E g \in Gestures : Lifting(g)

LiftInv ==
    /\ TouchInv
    /\ lost => excused
    /\ \A g \in Gestures : GestureInv(g)
    /\ QueuedStarts
    /\ WillLift

LEMMA LiftInvInit == Init => LiftInv
<1> SUFFICES ASSUME Init PROVE LiftInv
  OBVIOUS
<1>1. TouchInv
  BY TouchInvInit
<1>2. \A g \in Gestures : drag[g].start = "none" /\ drag[g].tail = "open" /\ by[g] = Nobody
  BY DEF Init, NewDrag
<1>3. net = {} /\ waiting = {} /\ answers = {} /\ queue = <<>> /\ ~finger /\ ~lost
  BY DEF Init
<1>4. \A c : ~InFlight(c) /\ Once(c)
  BY <1>3 DEF InFlight, Once, Ans
<1>5. \A g \in Gestures : GestureInv(g)
  BY <1>2, <1>4 DEF GestureInv
<1>6. QueuedStarts /\ WillLift
  BY <1>3 DEF QueuedStarts, WillLift
<1> QED
  BY <1>1, <1>3, <1>5, <1>6 DEF LiftInv

\* Commands are told apart by their gesture and their kind, answers by their
\* command and its outcome.
LEMMA CmdIs ==
    ASSUME NEW c \in Commands
    PROVE  /\ c.of \in Gestures /\ c.kind \in Kinds /\ c = Cmd(c.of, c.kind)
           /\ \A h, k : Cmd(h, k) = c <=> h = c.of /\ k = c.kind
BY DEF Commands, Cmd

LEMMA AnswerTaken ==
    ASSUME Typed, NEW a \in answers, answers' = answers \ {a}
    PROVE  /\ a.cmd \in Commands /\ a.ok \in BOOLEAN /\ Ans(a.cmd, a.ok)
           /\ \A c, ok : Ans(c, ok)' <=> Ans(c, ok) /\ ~(c = a.cmd /\ ok = a.ok)
<1>1. a \in [cmd : Commands, ok : BOOLEAN]
  BY DEF Typed, TypeOK
<1>2. a = [cmd |-> a.cmd, ok |-> a.ok] /\ a.cmd \in Commands /\ a.ok \in BOOLEAN
  BY <1>1
<1>3. \A c, ok : [cmd |-> c, ok |-> ok] = a <=> c = a.cmd /\ ok = a.ok
  BY <1>2
<1> QED
  BY <1>2, <1>3 DEF Ans

LEMMA AnswerGiven ==
    ASSUME NEW c, NEW b, answers' = answers \cup {[cmd |-> c, ok |-> b]}
    PROVE  \A d, ok : Ans(d, ok)' <=> Ans(d, ok) \/ (d = c /\ ok = b)
BY DEF Ans

\* What a gesture has under way goes on, or goes away.
LEMMA GestureCarried ==
    ASSUME NEW g \in Gestures, GestureInv(g),
           by'[g] = by[g], drag'[g] = drag[g], excused => excused',
           \A kind \in Kinds \ {"move"} : /\ InFlight(Cmd(g, kind))' => InFlight(Cmd(g, kind))
                                          /\ Once(Cmd(g, kind)) => Once(Cmd(g, kind))'
    PROVE  GestureInv(g)'
<1>1. "start" \in Kinds \ {"move"} /\ "end" \in Kinds \ {"move"} /\ Lasts \subseteq Kinds \ {"move"}
  BY DEF Kinds, Lasts
<1> QED
  BY <1>1, Zenon DEF GestureInv

\* A request goes from the page to the channel, or is answered there.
LEMMA AlongTheWay ==
    ASSUME Typed, NEW c \in Commands,
           \/ /\ c \in net /\ net' = net \ {c}
              /\ waiting' = waiting \cup {c} /\ answers' = answers
           \/ \E ok \in BOOLEAN :
                 /\ c \in net /\ net' = net \ {c}
                 /\ waiting' = waiting /\ answers' = answers \cup {[cmd |-> c, ok |-> ok]}
           \/ \E ok \in BOOLEAN :
                 /\ c \in waiting /\ waiting' = waiting \ {c}
                 /\ net' = net /\ answers' = answers \cup {[cmd |-> c, ok |-> ok]}
           \/ UNCHANGED <<net, waiting, answers>>
    PROVE  \A d : (InFlight(d)' => InFlight(d)) /\ (Once(d) => Once(d)')
<1> SUFFICES ASSUME NEW d PROVE (InFlight(d)' => InFlight(d)) /\ (Once(d) => Once(d)')
  OBVIOUS
<1>1. CASE c \in net /\ net' = net \ {c} /\ waiting' = waiting \cup {c} /\ answers' = answers
  BY <1>1 DEF InFlight, Once, Ans
<1>2. ASSUME NEW ok \in BOOLEAN, answers' = answers \cup {[cmd |-> c, ok |-> ok]},
             \/ c \in net /\ net' = net \ {c} /\ waiting' = waiting
             \/ c \in waiting /\ waiting' = waiting \ {c} /\ net' = net
      PROVE  (InFlight(d)' => InFlight(d)) /\ (Once(d) => Once(d)')
  <2>1. /\ Ans(d, TRUE)' <=> Ans(d, TRUE) \/ (d = c /\ ok = TRUE)
        /\ Ans(d, FALSE)' <=> Ans(d, FALSE) \/ (d = c /\ ok = FALSE)
    BY <1>2, AnswerGiven
  <2>2. CASE d = c
    BY <1>2, <2>1, <2>2 DEF InFlight, Once
  <2>3. CASE d # c
    BY <1>2, <2>1, <2>3 DEF InFlight, Once
  <2> QED
    BY <2>2, <2>3
<1>3. CASE UNCHANGED <<net, waiting, answers>>
  BY <1>3 DEF InFlight, Once, Ans
<1> QED
  BY <1>1, <1>2, <1>3

\* What a command makes of the finger.
LEMMA RunFinger ==
    ASSUME touchActive \in BOOLEAN, finger \in BOOLEAN,
           NEW c, c.kind \in Kinds, NEW k \in Run(c, Hand), k.why # "fault"
    PROVE  /\ c.kind = "start" /\ k.finger /\ ~finger => k.why = "none"
           /\ c.kind = "move" => k.finger = finger
           /\ c.kind \in Lasts /\ (finger => touchActive) => ~k.finger
<1>1. /\ Hand \in Hands /\ Hand.why = "none" /\ ~Hand.click
      /\ Hand.active = touchActive /\ Hand.finger = finger
  BY DEF Hand, Hands
<1>2. ASSUME c.kind = "start", k.finger, ~finger
      PROVE  k.why = "none"
  <2>1. PICK i \in CancelActive(Hand) : \E j \in Dispatch(i, "start") : k = Active(j, TRUE)
    BY <1>2 DEF Run, Start
  <2>2. PICK j \in Dispatch(i, "start") : k = Active(j, TRUE)
    BY <2>1
  <2>3. i \in Hands /\ (i.why = "none" \/ i.why = "fault" \/ ~i.finger)
    BY <1>1, CancelHand
  <2>4. CASE i.why # "none"
    <3>1. k = i
      BY <2>2, <2>4 DEF Dispatch, Active
    <3> QED
      BY <1>2, <2>3, <2>4, <3>1
  <2>5. CASE i.why = "none"
    <3>1. ~i.finger
      BY <1>1, <1>2, <2>5, CancelHand
    <3>2. j \in Hands /\ (j.why = "none" \/ j.why = "fault" \/ (j.why = "rejected" /\ i.finger))
      BY <2>3, <2>5, DispatchHand
    <3>3. k.why = j.why
      BY <2>2, <3>2 DEF Active, Hands
    <3> QED
      BY <3>1, <3>2, <3>3
  <2> QED
    BY <2>4, <2>5
<1>3. ASSUME c.kind = "move"
      PROVE  k.finger = finger
  BY <1>1, <1>3, DispatchHand DEF Run, Move, Hands
<1>4. ASSUME c.kind \in Lasts, finger => touchActive
      PROVE  ~k.finger
  <2>1. CASE c.kind \in {"end", "cancel"}
    <3>1. CASE ~Hand.active
      BY <1>1, <1>4, <2>1, <3>1 DEF Run, Lift
    <3>2. CASE Hand.active
      <4>1. PICK j \in Dispatch(Hand, c.kind) : k = Active(j, FALSE)
        BY <2>1, <3>2 DEF Run, Lift
      <4>2. j \in Hands /\ (j.why = "fault" \/ ~j.finger)
        BY <1>1, <2>1, DispatchHand
      <4> QED
        BY <4>1, <4>2 DEF Active, Hands
    <3> QED
      BY <3>1, <3>2
  <2>2. CASE c.kind \in {"click", "wheel"}
    <3>1. PICK j \in CancelActive(Hand) : k = IF j.why = "none" THEN [j EXCEPT !.click = TRUE] ELSE j
      BY <2>2 DEF Run, Click
    <3> QED
      BY <1>1, <1>4, <3>1, CancelHand DEF Hands
  <2>3. CASE c.kind = "navigate"
    BY <1>1, <1>4, <2>3, CancelHand DEF Run, Navigate
  <2> QED
    BY <1>4, <2>1, <2>2, <2>3 DEF Lasts, Kinds, Others
<1> QED
  BY <1>2, <1>3, <1>4

\* What a step has to show beyond TouchInv.
LiftRest ==
    /\ lost => excused
    /\ \A g \in Gestures : GestureInv(g)
    /\ QueuedStarts
    /\ WillLift

LEMMA PutQueue ==
    ASSUME LiftInv, NEW c \in Commands, queue' = Put(c)
    PROVE  /\ LiftQueued => LiftQueued'
           /\ c.kind \in Lasts => LiftQueued'
           /\ /\ waiting \subseteq waiting'
              /\ c.kind = "start" => c \in waiting' /\ c \notin waiting
              /\ excused => excused'
              => QueuedStarts'
<1> DEFINE n == Len(queue)
<1>1. /\ queue \in Seq(Commands) /\ n \in Nat /\ Len(queue') = n + 1
      /\ \A i \in 1..n : queue'[i] = queue[i]
      /\ queue'[n + 1] = c
  BY DEF LiftInv, TouchInv, Typed, TypeOK, Put
<1> HIDE DEF n
<1>2. 1..n = 1..Len(queue) /\ 1..Len(queue') = (1..n) \cup {n + 1} /\ n + 1 \notin 1..n
  BY <1>1 DEF n
<1>3. LiftQueued => LiftQueued'
  BY <1>1, <1>2 DEF LiftQueued
<1>4. c.kind \in Lasts => LiftQueued'
  BY <1>1, <1>2 DEF LiftQueued
<1>5. ASSUME waiting \subseteq waiting', c.kind = "start" => c \in waiting' /\ c \notin waiting,
             excused => excused'
      PROVE  QueuedStarts'
  <2> SUFFICES ASSUME ~excused, NEW i \in 1..Len(queue'), queue'[i].kind = "start"
               PROVE  queue'[i] \in waiting' /\ \A j \in 1..Len(queue') : queue'[j] = queue'[i] => j = i
    BY <1>5 DEF QueuedStarts
  <2>0. \A j \in 1..n : queue[j].kind = "start" =>
           queue[j] \in waiting /\ \A l \in 1..n : queue[l] = queue[j] => l = j
    BY <1>2 DEF LiftInv, QueuedStarts
  <2>1. CASE i \in 1..n
    BY <1>1, <1>2, <1>5, <2>0, <2>1
  <2>2. CASE i = n + 1
    BY <1>1, <1>2, <1>5, <2>0, <2>2
  <2> QED
    BY <1>2, <2>1, <2>2
<1> QED
  BY <1>3, <1>4, <1>5

LEMMA HandlerLift ==
    ASSUME LiftInv, NEW c \in net, Enter(c) \/ EnterMove(c) \/ Refuse(c)
    PROVE  LiftRest'
<1>0. Typed /\ c \in Commands /\ c.of \in Gestures /\ c.kind \in Kinds /\ c = Cmd(c.of, c.kind)
  <2>1. Typed /\ c \in Commands
    BY DEF LiftInv, TouchInv, Typed, TypeOK
  <2>2. /\ c.of \in Gestures /\ c.kind \in Kinds /\ c = Cmd(c.of, c.kind)
    BY <2>1, CmdIs
  <2> QED
    BY <2>1, <2>2
<1>1. UNCHANGED <<by, drag, finger, lost>> /\ (excused => excused')
  <2>1. UNCHANGED <<by, drag, finger, lost>>
    BY DEF Enter, EnterMove, Refuse, page, browser
  <2>2. excused => excused'
    BY Zenon DEF Enter, EnterMove, Refuse
  <2> QED
    BY <2>1, <2>2
<1>2. \A d : (InFlight(d)' => InFlight(d)) /\ (Once(d) => Once(d)')
  BY <1>0, AlongTheWay DEF Enter, EnterMove, Refuse
<1>3. \A g \in Gestures : GestureInv(g)'
  BY <1>1, <1>2, GestureCarried DEF LiftInv
<1>4. c.kind = "start" => c \notin waiting
  BY <1>0 DEF LiftInv, GestureInv, Once
<1>5. CASE Enter(c)
  <2>1. queue' = Put(c) /\ net' = net \ {c} /\ waiting' = waiting \cup {c} /\ answers' = answers
        /\ excused' = excused
    BY <1>5 DEF Enter
  <2>2. QueuedStarts' /\ (LiftQueued => LiftQueued') /\ (c.kind \in Lasts => LiftQueued')
    BY <1>0, <1>4, <2>1, PutQueue
  <2>3. ASSUME NEW g \in Gestures, Lifting(g), c.kind \notin Lasts
        PROVE  Lifting(g)'
    <3>1. Cmd(g, "cancel") # c /\ Cmd(g, "end") # c
      BY <2>3, <1>0 DEF Lasts, Kinds, Cmd
    <3> QED
      BY <1>1, <2>1, <2>3, <3>1 DEF Lifting, Ans
  <2>4. WillLift'
    BY <1>1, <2>1, <2>2, <2>3 DEF LiftInv, WillLift
  <2> QED
    BY <1>1, <1>3, <2>2, <2>4 DEF LiftInv, LiftRest
<1>6. CASE EnterMove(c)
  <2>1. /\ net' = net \ {c} /\ answers' = answers \cup {[cmd |-> c, ok |-> TRUE]}
        /\ UNCHANGED <<waiting, excused>> /\ c.kind = "move"
        /\ queue' = Put(c) \/ queue' = queue
    BY <1>6 DEF EnterMove
  <2>2. QueuedStarts' /\ (LiftQueued => LiftQueued')
    <3>1. CASE queue' = Put(c)
      BY <1>0, <2>1, <3>1, PutQueue
    <3>2. CASE queue' = queue
      BY <2>1, <3>2 DEF LiftInv, QueuedStarts, LiftQueued
    <3> QED
      BY <2>1, <3>1, <3>2
  <2>3. ASSUME NEW g \in Gestures, Lifting(g)
        PROVE  Lifting(g)'
    <3>1. Cmd(g, "cancel") # c /\ Cmd(g, "end") # c
      BY <2>1 DEF Cmd
    <3> QED
      BY <1>1, <2>1, <2>3, <3>1 DEF Lifting, Ans
  <2>4. WillLift'
    BY <1>1, <2>1, <2>2, <2>3 DEF LiftInv, WillLift
  <2> QED
    BY <1>1, <1>3, <2>2, <2>4 DEF LiftInv, LiftRest
<1>7. CASE Refuse(c)
  <2>1. /\ net' = net \ {c} /\ answers' = answers \cup {[cmd |-> c, ok |-> FALSE]}
        /\ UNCHANGED <<waiting, queue>> /\ excused' = (excused \/ c.kind = "cancel")
    BY <1>7 DEF Refuse
  <2>2. QueuedStarts' /\ (LiftQueued => LiftQueued')
    BY <2>1 DEF LiftInv, QueuedStarts, LiftQueued
  <2>3. ASSUME NEW g \in Gestures, Lifting(g), ~excused'
        PROVE  Lifting(g)'
    <3>0. c.kind # "cancel"
      BY <2>1, <2>3, Zenon
    <3>1. Cmd(g, "cancel") # c
      BY <3>0 DEF Cmd
    <3>2. \A d, ok : Ans(d, ok)' <=> Ans(d, ok) \/ (d = c /\ ok = FALSE)
      BY <2>1, AnswerGiven
    <3>3. Cmd(g, "end") \in net => Cmd(g, "end") \in net' \/ Ans(Cmd(g, "end"), FALSE)'
      BY <2>1, <3>2
    <3>4. Cmd(g, "cancel") \in net => Cmd(g, "cancel") \in net'
      BY <2>1, <3>1
    <3> QED
      BY <1>1, <2>3, <3>2, <3>3, <3>4 DEF Lifting
  <2>4. WillLift'
    BY <1>1, <2>1, <2>2, <2>3 DEF LiftInv, WillLift
  <2> QED
    BY <1>1, <1>3, <2>2, <2>4 DEF LiftInv, LiftRest
<1> QED
  BY <1>5, <1>6, <1>7

LEMMA AbandonLift ==
    ASSUME LiftInv, NEW c \in waiting, Abandon(c)
    PROVE  LiftRest'
<1>0. Typed /\ c \in Commands /\ c.of \in Gestures /\ c.kind \in Kinds /\ c = Cmd(c.of, c.kind)
  <2>1. Typed /\ c \in Commands
    BY DEF LiftInv, TouchInv, Typed, TypeOK
  <2>2. /\ c.of \in Gestures /\ c.kind \in Kinds /\ c = Cmd(c.of, c.kind)
    BY <2>1, CmdIs
  <2> QED
    BY <2>1, <2>2, Zenon
<1>1. /\ UNCHANGED <<by, drag, finger, lost, net, queue>> /\ excused' = (excused \/ c.kind = "start")
      /\ waiting' = waiting \ {c} /\ answers' = answers \cup {[cmd |-> c, ok |-> FALSE]}
  BY DEF Abandon, page, browser
<1>2. \A d : (InFlight(d)' => InFlight(d)) /\ (Once(d) => Once(d)')
  BY <1>0, <1>1, AlongTheWay
<1>3. \A g \in Gestures : GestureInv(g)'
  BY <1>1, <1>2, GestureCarried DEF LiftInv
<1>4. QueuedStarts'
  <2> SUFFICES ASSUME ~excused', NEW i \in 1..Len(queue), queue[i].kind = "start"
               PROVE  queue[i] \in waiting' /\ \A j \in 1..Len(queue) : queue[j] = queue[i] => j = i
    BY <1>1 DEF QueuedStarts
  <2>1. c.kind # "start" /\ ~excused
    BY <1>1
  <2> QED
    BY <1>1, <2>1 DEF LiftInv, QueuedStarts
<1>5. ASSUME NEW g \in Gestures, Lifting(g) PROVE Lifting(g)'
  BY <1>1, <1>5 DEF Lifting, Ans
<1>6. WillLift'
  BY <1>1, <1>5 DEF LiftInv, WillLift, LiftQueued
<1> QED
  BY <1>1, <1>3, <1>4, <1>6 DEF LiftInv, LiftRest

LEMMA ExecLift ==
    ASSUME LiftInv, Exec
    PROVE  LiftRest'
<1> DEFINE c == Head(queue)
<1>1. PICK k \in Run(c, Hand) :
        /\ queue' = Tail(queue) /\ finger' = k.finger
        /\ lost' = (lost \/ k.why = "fault")
        /\ excused' = (excused \/ k.why = "fault")
        /\ IF c \in waiting
           THEN /\ waiting' = waiting \ {c}
                /\ answers' = answers \cup {[cmd |-> c, ok |-> Succeeded(c, k)]}
           ELSE UNCHANGED <<waiting, answers>>
  BY DEF Exec
<1>2. UNCHANGED <<by, drag, net>> /\ queue # <<>>
  BY DEF Exec, page
<1>3. /\ Typed /\ c \in Commands /\ c.kind \in Kinds /\ Tail(queue) \in Seq(Commands)
      /\ touchActive \in BOOLEAN /\ finger \in BOOLEAN
  BY <1>2, HeadTyped DEF LiftInv, TouchInv, Typed, TypeOK
<1>4. /\ queue \in Seq(Commands) /\ Len(Tail(queue)) = Len(queue) - 1 /\ Len(queue) \in Nat /\ Len(queue) >= 1
      /\ c = queue[1]
      /\ \A i \in 1..Len(queue) - 1 : Tail(queue)[i] = queue[i + 1]
  <2>1. queue \in Seq(Commands)
    BY <1>3 DEF Typed, TypeOK
  <2> QED
    BY <1>2, <2>1
<1>5. c.of \in Gestures /\ c = Cmd(c.of, c.kind)
  BY <1>3, CmdIs
<1> HIDE DEF c
<1>6. \A d : (InFlight(d)' => InFlight(d)) /\ (Once(d) => Once(d)')
  <2>1. Succeeded(c, k) \in BOOLEAN
    BY Zenon DEF Succeeded
  <2> QED
    BY <1>1, <1>2, <1>3, <2>1, AlongTheWay
<1>7. \A g \in Gestures : GestureInv(g)'
  BY <1>1, <1>2, <1>6, GestureCarried DEF LiftInv
<1>8. QueuedStarts'
  <2> SUFFICES ASSUME ~excused', NEW i \in 1..Len(queue'), queue'[i].kind = "start"
               PROVE  queue'[i] \in waiting' /\ \A j \in 1..Len(queue') : queue'[j] = queue'[i] => j = i
    BY DEF QueuedStarts
  <2>0. ~excused
    BY <1>1, Zenon
  <2>1. /\ ~excused /\ i \in 1..Len(queue) - 1 /\ queue'[i] = queue[i + 1]
        /\ i + 1 \in 1..Len(queue) /\ i + 1 # 1
    BY <1>1, <1>4, <2>0
  <2>2. queue[i + 1] \in waiting /\ \A j \in 1..Len(queue) : queue[j] = queue[i + 1] => j = i + 1
    BY <2>1 DEF LiftInv, QueuedStarts
  <2>3. queue[i + 1] # c
    BY <1>4, <2>1, <2>2
  <2>4. queue'[i] \in waiting'
    BY <1>1, <2>1, <2>2, <2>3
  <2>5. ASSUME NEW j \in 1..Len(queue'), queue'[j] = queue'[i] PROVE j = i
    <3>1. j \in 1..Len(queue) - 1 /\ queue'[j] = queue[j + 1] /\ j + 1 \in 1..Len(queue)
      BY <1>1, <1>4
    <3>2. j + 1 = i + 1
      BY <2>1, <2>2, <2>5, <3>1
    <3> QED
      BY <2>1, <3>1, <3>2
  <2> QED
    BY <2>4, <2>5
<1>9. WillLift'
  <2> SUFFICES ASSUME finger', ~excused' PROVE LiftQueued' \/ \E g \in Gestures : Lifting(g)'
    BY DEF WillLift
  <2>1. k.why # "fault" /\ ~excused /\ ~lost /\ k.finger
    BY <1>1 DEF LiftInv
  <2>2. finger => touchActive
    BY <2>1 DEF LiftInv, TouchInv, FingerKnown
  <2>3. c.kind \notin Lasts
    BY <1>3, <2>1, <2>2, RunFinger
  <2>4. c.kind = "start" \/ c.kind = "move"
    BY <1>3, <2>3 DEF Lasts
  <2>5. CASE finger
    <3>1. ASSUME NEW g \in Gestures, Lifting(g) PROVE Lifting(g)'
      BY <1>1, <1>2, <3>1 DEF Lifting, Ans
    <3>2. ASSUME LiftQueued PROVE LiftQueued'
      <4>1. PICK i \in 1..Len(queue) : queue[i].kind \in Lasts
        BY <3>2 DEF LiftQueued
      <4>2. i # 1
        BY <1>4, <2>3, <4>1
      <4>3. i - 1 \in 1..Len(queue) - 1 /\ (i - 1) + 1 = i
        BY <1>4, <4>2
      <4>4. i - 1 \in 1..Len(queue') /\ queue'[i - 1] = queue[i]
        BY <1>1, <1>4, <4>3
      <4> QED
        BY <4>1, <4>4 DEF LiftQueued
    <3> QED
      BY <2>1, <2>5, <3>1, <3>2 DEF LiftInv, WillLift
  <2>6. CASE ~finger
    <3>1. c.kind = "start" /\ k.why = "none"
      BY <1>3, <2>1, <2>4, <2>6, RunFinger
    <3>2. c \in waiting
      BY <1>4, <2>1, <3>1 DEF LiftInv, QueuedStarts
    <3>3. Succeeded(c, k) = TRUE
      BY <3>1, Zenon DEF Succeeded
    <3>4. [cmd |-> c, ok |-> TRUE] \in answers'
      <4>1. [cmd |-> c, ok |-> Succeeded(c, k)] \in answers'
        BY <1>1, <3>2
      <4> QED
        BY <3>3, <4>1, Zenon
    <3>5. PICK g \in Gestures : Cmd(g, "start") = c
      BY <1>5, <3>1
    <3>6. Ans(Cmd(g, "start"), TRUE)'
      BY <3>4, <3>5 DEF Ans
    <3> QED
      BY <3>6 DEF Lifting
  <2> QED
    BY <1>3, <2>5, <2>6
<1> QED
  BY <1>1, <1>7, <1>8, <1>9 DEF LiftInv, LiftRest

\* A gesture's drag is at its end, or past it.
LEMMA TailGesture ==
    ASSUME NEW g \in Gestures, GestureInv(g), drag[g] \in Drags, NEW tail \in Tails \ Early,
           drag'[g] = [drag[g] EXCEPT !.tail = tail],
           drag[g].start = "pending" => excused', excused => excused',
           by'[g] = Nobody => by[g] = Nobody,
           InFlight(Cmd(g, "start"))' => InFlight(Cmd(g, "start")), Once(Cmd(g, "start"))',
           tail = "ending" => /\ \A kind \in Lasts : InFlight(Cmd(g, kind))' => kind = "end"
                              /\ Once(Cmd(g, "end"))'
    PROVE  GestureInv(g)'
<1>1. /\ drag'[g].tail = tail /\ drag'[g].start = drag[g].start /\ drag'[g].moved = drag[g].moved
      /\ tail \notin Early
  BY DEF Drags
<1> QED
  BY <1>1, Zenon DEF GestureInv

\* A request is sent.
LEMMA Sent ==
    ASSUME NEW c, net' = net \cup {c}, UNCHANGED <<waiting, answers>>
    PROVE  /\ \A d : d # c => (InFlight(d)' => InFlight(d)) /\ (Once(d) => Once(d)')
           /\ ~InFlight(c) => Once(c)'
BY DEF InFlight, Once, Ans

\* An answer is taken, and perhaps another request sent.
LEMMA Taken ==
    ASSUME Typed, NEW a \in answers, answers' = answers \ {a}, waiting' = waiting,
           NEW c, net' = net \/ net' = net \cup {c}
    PROVE  /\ \A d : d # c => (InFlight(d)' => InFlight(d)) /\ (Once(d) => Once(d)')
           /\ a.cmd # c /\ Once(a.cmd) => ~InFlight(a.cmd)'
<1>1. /\ a.ok \in BOOLEAN /\ Ans(a.cmd, a.ok)
      /\ \A d, ok : Ans(d, ok)' <=> Ans(d, ok) /\ ~(d = a.cmd /\ ok = a.ok)
  BY AnswerTaken
<1>2. ASSUME NEW d, d # c
      PROVE  (InFlight(d)' => InFlight(d)) /\ (Once(d) => Once(d)')
  <2>1. /\ Ans(d, TRUE)' => Ans(d, TRUE)
        /\ Ans(d, FALSE)' => Ans(d, FALSE)
        /\ d \in net' => d \in net
    BY <1>1, <1>2
  <2> QED
    BY <2>1 DEF InFlight, Once
<1>3. ASSUME a.cmd # c, Once(a.cmd)
      PROVE  ~InFlight(a.cmd)'
  <2>1. CASE a.ok = TRUE
    <3>1. ~Ans(a.cmd, TRUE)' /\ ~Ans(a.cmd, FALSE)' /\ a.cmd \notin net /\ a.cmd \notin waiting
      BY <1>1, <1>3, <2>1 DEF Once
    <3>2. a.cmd \notin net'
      BY <1>3, <3>1
    <3> QED
      BY <3>1, <3>2 DEF InFlight
  <2>2. CASE a.ok = FALSE
    <3>1. ~Ans(a.cmd, TRUE)' /\ ~Ans(a.cmd, FALSE)' /\ a.cmd \notin net /\ a.cmd \notin waiting
      BY <1>1, <1>3, <2>2 DEF Once
    <3>2. a.cmd \notin net'
      BY <1>3, <3>1
    <3> QED
      BY <3>1, <3>2 DEF InFlight
  <2> QED
    BY <1>1, <2>1, <2>2
<1> QED
  BY <1>2, <1>3

\* A step of the pages does not touch the channel.
LEMMA PageLift ==
    ASSUME LiftInv, UNCHANGED <<queue, waiting, finger, lost>>, excused => excused',
           \A g \in Gestures : GestureInv(g)',
           \A g \in Gestures : Lifting(g) /\ ~excused' => Lifting(g)'
    PROVE  LiftRest'
<1>1. QueuedStarts'
  BY DEF LiftInv, QueuedStarts
<1>2. WillLift'
  BY DEF LiftInv, WillLift, LiftQueued
<1> QED
  BY <1>1, <1>2 DEF LiftInv, LiftRest

\* Moves matter to nobody.
LEMMA MoveSent ==
    ASSUME LiftInv, UNCHANGED <<by, drag, waiting, excused>>, NEW h,
           net' = net \/ net' = net \cup {Cmd(h, "move")},
           \/ answers' = answers
           \/ \E a \in answers : answers' = answers \ {a} /\ a.cmd.kind = "move"
    PROVE  /\ \A g \in Gestures : GestureInv(g)'
           /\ \A g \in Gestures : Lifting(g) => Lifting(g)'
<1>1. \A g, kind : kind # "move" => Cmd(g, kind) # Cmd(h, "move")
  BY DEF Cmd
<1>2. \A d : d # Cmd(h, "move") => (InFlight(d)' => InFlight(d)) /\ (Once(d) => Once(d)')
  <2>1. CASE answers' = answers
    BY <2>1 DEF InFlight, Once, Ans
  <2>2. CASE \E a \in answers : answers' = answers \ {a} /\ a.cmd.kind = "move"
    BY <2>2, Taken DEF LiftInv, TouchInv
  <2> QED
    BY <2>1, <2>2
<1>3. ASSUME NEW g \in Gestures PROVE GestureInv(g)'
  BY <1>1, <1>2, GestureCarried DEF LiftInv
<1>4. \A g \in Gestures, kind \in {"start", "end"}, ok \in BOOLEAN :
         Ans(Cmd(g, kind), ok) => Ans(Cmd(g, kind), ok)'
  <2>1. CASE answers' = answers
    BY <2>1 DEF Ans
  <2>2. ASSUME NEW a \in answers, answers' = answers \ {a}, a.cmd.kind = "move"
        PROVE  \A g \in Gestures, kind \in {"start", "end"}, ok \in BOOLEAN :
                  Ans(Cmd(g, kind), ok) => Ans(Cmd(g, kind), ok)'
    BY <2>2, AnswerTaken DEF LiftInv, TouchInv, Cmd
  <2> QED
    BY <2>1, <2>2
<1>5. ASSUME NEW g \in Gestures, Lifting(g) PROVE Lifting(g)'
  BY <1>4, <1>5 DEF Lifting
<1> QED
  BY <1>3, <1>5

LEMMA LiftTypes ==
    ASSUME LiftInv
    PROVE  /\ Typed /\ Owned /\ by \in [Gestures -> Viewers \cup {Nobody}]
           /\ drag \in [Gestures -> Drags]
           /\ \A v \in Viewers : v # Nobody
BY NamesAssumption DEF LiftInv, TouchInv, Typed, TypeOK, Drags, Nobody

LEMMA PressLift ==
    ASSUME LiftInv, NEW g \in Gestures, NEW v \in Viewers, Press(g, v)
    PROVE  LiftRest'
<1> DEFINE open == {h \in Gestures : by[h] = v /\ drag[h].tail = "open"}
<1>1. /\ UNCHANGED <<net, queue, waiting, answers, finger, lost>>
      /\ by' = [by EXCEPT ![g] = v]
      /\ drag' = [h \in Gestures |-> IF h \in open THEN [drag[h] EXCEPT !.tail = "over"] ELSE drag[h]]
  BY DEF Press, browser
<1>2. (excused => excused') /\ \A h \in open : drag[h].moved => excused'
  BY Zenon DEF Press
<1>3. \A d : (InFlight(d)' <=> InFlight(d)) /\ (Once(d)' <=> Once(d))
  BY <1>1 DEF InFlight, Once, Ans
<1>4. \A h \in Gestures : by'[h] = Nobody => by[h] = Nobody
  BY <1>1, LiftTypes
<1>5. ASSUME NEW h \in Gestures, h \in open
      PROVE  GestureInv(h)' /\ (Lifting(h) /\ ~excused' => Lifting(h)')
  <2>1. /\ GestureInv(h) /\ drag[h] \in Drags /\ "over" \in Tails \ Early
        /\ drag'[h] = [drag[h] EXCEPT !.tail = "over"]
        /\ drag[h].start # "none" => excused'
    BY <1>1, <1>2, <1>5, LiftTypes DEF LiftInv, GestureInv, Tails, Early
  <2>2. GestureInv(h)'
    <3>1. Once(Cmd(h, "start"))' /\ (drag[h].start = "pending" => excused')
          /\ (InFlight(Cmd(h, "start"))' => InFlight(Cmd(h, "start")))
      BY <1>3, <2>1 DEF GestureInv
    <3> QED
      BY <1>2, <1>4, <2>1, <3>1, TailGesture
  <2>3. Lifting(h) /\ ~excused' => Lifting(h)'
    BY <1>1, <1>5, <2>1 DEF Lifting, Ans
  <2> QED
    BY <2>2, <2>3
<1>6. ASSUME NEW h \in Gestures, h \notin open
      PROVE  GestureInv(h)' /\ (Lifting(h) => Lifting(h)')
  <2>1. drag'[h] = drag[h]
    BY <1>1, <1>6
  <2>2. GestureInv(h)'
    <3>1. GestureInv(h)
      BY DEF LiftInv
    <3> QED
      BY <1>2, <1>3, <1>4, <2>1, <3>1, Zenon DEF GestureInv
  <2>3. Lifting(h) => Lifting(h)'
    BY <1>1, <2>1 DEF Lifting, Ans
  <2> QED
    BY <2>2, <2>3
<1> QED
  BY <1>1, <1>2, <1>5, <1>6, PageLift

\* A gesture's page sends the last of its commands, or one of its last.
LEMMA GotoLift ==
    ASSUME LiftInv, NEW g \in Gestures, NEW tail \in Tails \ Early, NEW kind \in Lasts,
           drag' = [drag EXCEPT ![g].tail = tail], net' = net \cup {Cmd(g, kind)},
           UNCHANGED <<queue, waiting, answers, finger, lost, excused>>,
           drag[g].tail \in Early, drag[g].start # "pending", tail = "ending" => kind = "end",
           \A h \in Gestures : h # g => by'[h] = by[h],
           by'[g] = Nobody => by[g] = Nobody,
           drag[g].start = "ok" => kind = "cancel" \/ tail = "ending"
    PROVE  LiftRest'
<1>1. \A h, k : Cmd(h, k) = Cmd(g, kind) <=> h = g /\ k = kind
  BY DEF Cmd
<1>2. /\ \A d : d # Cmd(g, kind) => (InFlight(d)' => InFlight(d)) /\ (Once(d) => Once(d)')
      /\ ~InFlight(Cmd(g, kind)) => Once(Cmd(g, kind))'
  BY Sent
<1>3. GestureInv(g) /\ \A k \in Lasts : ~InFlight(Cmd(g, k))
  BY DEF LiftInv, GestureInv
<1>4. /\ "start" # kind /\ "start" \notin Lasts /\ "move" \notin Lasts
      /\ "end" \in Lasts
  BY DEF Lasts, Kinds
<1>5. GestureInv(g)'
  <2>1. drag[g] \in Drags /\ drag'[g] = [drag[g] EXCEPT !.tail = tail]
    BY LiftTypes
  <2>2. (InFlight(Cmd(g, "start"))' => InFlight(Cmd(g, "start"))) /\ Once(Cmd(g, "start"))'
    BY <1>1, <1>2, <1>3, <1>4 DEF GestureInv
  <2>3. ASSUME tail = "ending"
        PROVE  (\A k \in Lasts : InFlight(Cmd(g, k))' => k = "end") /\ Once(Cmd(g, "end"))'
    BY <1>1, <1>2, <1>3, <2>3
  <2> QED
    BY <1>3, <2>1, <2>2, <2>3, TailGesture
<1>6. ASSUME NEW h \in Gestures, h # g PROVE GestureInv(h)'
  <2>1. drag'[h] = drag[h] /\ by'[h] = by[h] /\ GestureInv(h)
    BY <1>6, LiftTypes DEF LiftInv
  <2>2. \A k \in Kinds \ {"move"} : /\ InFlight(Cmd(h, k))' => InFlight(Cmd(h, k))
                                    /\ Once(Cmd(h, k)) => Once(Cmd(h, k))'
    BY <1>1, <1>2, <1>6
  <2> QED
    BY <2>1, <2>2, GestureCarried
<1>7. ASSUME NEW h \in Gestures, Lifting(h), ~excused' PROVE Lifting(h)'
  <2>1. CASE h # g
    BY <1>7, <2>1, LiftTypes DEF Lifting, Ans
  <2>2. CASE h = g
    <3>1. drag'[g].tail = tail
      BY LiftTypes DEF Drags
    <3>2. drag[g].start = "ok" => Cmd(g, "cancel") \in net' \/ (tail = "ending" /\ Cmd(g, "end") \in net')
      OBVIOUS
    <3>3. drag[g].tail # "ending"
      BY DEF Early
    <3> QED
      BY <1>7, <2>2, <3>1, <3>2, <3>3 DEF Lifting, Ans
  <2> QED
    BY <2>1, <2>2
<1> QED
  BY <1>5, <1>6, <1>7, PageLift

LEMMA SendLift ==
    ASSUME LiftInv, NEW g \in Gestures, NEW v \in Viewers, NEW kind \in Others, Send(g, v, kind)
    PROVE  LiftRest'
<1>1. drag[g].tail = "open" /\ drag[g].start = "none"
  BY LiftTypes DEF Send, Owned, LiftInv, GestureInv
<1>2. kind \in Lasts /\ "clicking" \in Tails \ Early /\ drag[g].tail \in Early
  BY <1>1 DEF Lasts, Kinds, Others, Tails, Early
<1>3. /\ drag' = [drag EXCEPT ![g].tail = "clicking"] /\ net' = net \cup {Cmd(g, kind)}
      /\ UNCHANGED <<queue, waiting, answers, finger, lost, excused>>
      /\ by' = [by EXCEPT ![g] = v]
  BY DEF Send, browser
<1>4. (\A h \in Gestures : h # g => by'[h] = by[h]) /\ by'[g] # Nobody
  BY <1>3, LiftTypes
<1> QED
  BY <1>1, <1>2, <1>3, <1>4, GotoLift

LEMMA EndDragLift ==
    ASSUME LiftInv, NEW g \in Gestures, EndDrag(g)
    PROVE  LiftRest'
<1>1. /\ UNCHANGED <<by, queue, waiting, answers, finger, lost, excused>>
      /\ drag[g].start # "pending" /\ drag[g].tail \in Early
  BY DEF EndDrag, browser, Early
<1>2. /\ {"cancelling", "lifting", "clicking", "ending", "instead", "over"} \subseteq Tails \ Early
      /\ {"cancel", "click", "end"} \subseteq Lasts
  BY DEF Tails, Early, Lasts, Kinds
<1>3. CASE drag' = [drag EXCEPT ![g].tail = "over"] /\ UNCHANGED net /\ drag[g].start # "ok"
  <2>1. \A d : (InFlight(d)' <=> InFlight(d)) /\ (Once(d)' <=> Once(d))
    BY <1>1, <1>3 DEF InFlight, Once, Ans
  <2>2. GestureInv(g) /\ drag[g] \in Drags /\ drag'[g] = [drag[g] EXCEPT !.tail = "over"]
    BY <1>3, LiftTypes DEF LiftInv
  <2>3. GestureInv(g)'
    <3>1. Once(Cmd(g, "start"))'
      BY <2>1, <2>2 DEF GestureInv
    <3> QED
      BY <1>1, <1>2, <2>1, <2>2, <3>1, TailGesture
  <2>4. ASSUME NEW h \in Gestures, h # g PROVE GestureInv(h)'
    <3>1. drag'[h] = drag[h] /\ GestureInv(h)
      BY <1>3, <2>4, LiftTypes DEF LiftInv
    <3> QED
      BY <1>1, <2>1, <3>1, GestureCarried
  <2>5. ASSUME NEW h \in Gestures, Lifting(h) PROVE Lifting(h)'
    <3>1. h = g => drag[h].tail # "ending"
      BY <1>1 DEF Early
    <3>2. h # g => drag'[h] = drag[h]
      BY <1>3, LiftTypes
    <3> QED
      BY <1>1, <1>3, <2>5, <3>1, <3>2 DEF Lifting, Ans
  <2> QED
    BY <1>1, <2>3, <2>4, <2>5, PageLift
<1>4. CASE \/ drag[g].start = "ok" /\ Goto(g, "cancelling", "cancel")
           \/ drag[g].start = "ok" /\ Goto(g, "lifting", "cancel")
           \/ drag[g].start # "ok" /\ Goto(g, "clicking", "click")
           \/ drag[g].start = "ok" /\ Goto(g, "ending", "end")
           \/ drag[g].start # "ok" /\ Goto(g, "instead", "click")
  BY <1>1, <1>2, <1>4, GotoLift DEF Goto
<1> QED
  BY <1>3, <1>4 DEF EndDrag

LEMMA DragLift ==
    ASSUME LiftInv, NEW g \in Gestures, Drag(g)
    PROVE  LiftRest'
<1>1. /\ UNCHANGED <<by, queue, waiting, answers, finger, lost, excused>>
      /\ by[g] # Nobody /\ drag[g].tail = "open"
  BY DEF Drag, browser
<1>2. CASE /\ ~drag[g].moved
           /\ drag' = [drag EXCEPT ![g].moved = TRUE, ![g].start = "pending"]
           /\ net' = net \cup {Cmd(g, "start")}
  <2>1. GestureInv(g) /\ drag[g].start = "none" /\ ~InFlight(Cmd(g, "start"))
    BY <1>2 DEF LiftInv, GestureInv
  <2>2. /\ \A d : d # Cmd(g, "start") => (InFlight(d)' => InFlight(d)) /\ (Once(d) => Once(d)')
        /\ Once(Cmd(g, "start"))'
    BY <1>1, <1>2, <2>1, Sent
  <2>3. \A h, k : Cmd(h, k) = Cmd(g, "start") <=> h = g /\ k = "start"
    BY DEF Cmd
  <2>4. GestureInv(g)'
    <3>1. drag'[g].moved /\ drag'[g].start = "pending" /\ drag'[g].tail = "open"
      BY <1>1, <1>2, LiftTypes DEF Drags
    <3>2. \A k \in Lasts : ~InFlight(Cmd(g, k))'
      <4>1. \A k \in Lasts : ~InFlight(Cmd(g, k)) /\ k # "start"
        BY <1>1, <2>1 DEF GestureInv, Early, Lasts
      <4> QED
        BY <2>2, <2>3, <4>1
    <3>3. by'[g] # Nobody
      BY <1>1
    <3>4. drag'[g].tail \in Early /\ drag'[g].tail # "ending" /\ drag'[g].start # "none"
      BY <3>1 DEF Early
    <3> QED
      BY <2>2, <3>1, <3>2, <3>3, <3>4, Zenon DEF GestureInv
  <2>5. ASSUME NEW h \in Gestures, h # g PROVE GestureInv(h)' /\ (Lifting(h) => Lifting(h)')
    <3>1. drag'[h] = drag[h] /\ by'[h] = by[h] /\ GestureInv(h)
      BY <1>1, <1>2, <2>5, LiftTypes DEF LiftInv
    <3>2. GestureInv(h)'
      BY <1>1, <2>2, <2>3, <2>5, <3>1, GestureCarried
    <3>3. Lifting(h) => Lifting(h)'
      BY <1>1, <1>2, <3>1 DEF Lifting, Ans
    <3> QED
      BY <3>2, <3>3
  <2>6. Lifting(g) => Lifting(g)'
    <3>1. ~Ans(Cmd(g, "start"), TRUE)
      BY <2>1 DEF InFlight
    <3> QED
      BY <1>1, <1>2, <2>1, <3>1 DEF Lifting
  <2> QED
    BY <1>1, <2>4, <2>5, <2>6, PageLift
<1>3. CASE Flush(by[g], g) /\ UNCHANGED drag
  <2>1. net' = net \/ net' = net \cup {Cmd(g, "move")}
    BY <1>3 DEF Flush
  <2> QED
    BY <1>1, <1>3, <2>1, MoveSent, PageLift
<1> QED
  BY <1>2, <1>3 DEF Drag

LEMMA ReleaseLift ==
    ASSUME LiftInv, NEW g \in Gestures, NEW tail \in {"cancel", "tap", "drop"}, Release(g, tail)
    PROVE  LiftRest'
<1>1. /\ UNCHANGED <<by, net, queue, waiting, answers, finger, lost, excused>>
      /\ drag[g].tail = "open" /\ drag' = [drag EXCEPT ![g].tail = tail]
  BY DEF Release, browser
<1>2. \A d : (InFlight(d)' <=> InFlight(d)) /\ (Once(d)' <=> Once(d))
  BY <1>1 DEF InFlight, Once, Ans
<1>3. /\ drag'[g].tail = tail /\ drag'[g].start = drag[g].start /\ drag'[g].moved = drag[g].moved
      /\ \A h \in Gestures : h # g => drag'[h] = drag[h]
  BY <1>1, LiftTypes DEF Drags
<1>4. GestureInv(g)'
  <2>1. GestureInv(g) /\ tail \in Early /\ tail # "ending" /\ drag[g].tail \in Early
    BY <1>1 DEF LiftInv, Early
  <2> QED
    BY <1>1, <1>2, <1>3, <2>1, Zenon DEF GestureInv
<1>5. ASSUME NEW h \in Gestures, h # g PROVE GestureInv(h)'
  <2>1. drag'[h] = drag[h] /\ by'[h] = by[h] /\ GestureInv(h)
    BY <1>1, <1>3, <1>5 DEF LiftInv
  <2> QED
    BY <1>1, <1>2, <2>1, GestureCarried
<1>6. ASSUME NEW h \in Gestures, Lifting(h) PROVE Lifting(h)'
  <2>1. CASE h # g
    BY <1>1, <1>3, <1>6, <2>1 DEF Lifting, Ans
  <2>2. CASE h = g
    <3>1. tail \in Early
      BY DEF Early
    <3> QED
      BY <1>1, <1>3, <1>6, <2>2, <3>1 DEF Lifting, Ans
  <2> QED
    BY <2>1, <2>2
<1> QED
  BY <1>1, <1>4, <1>5, <1>6, PageLift

LEMMA GotLift ==
    ASSUME LiftInv, NEW a \in answers, Got(a)
    PROVE  LiftRest'
<1>1. /\ UNCHANGED <<by, queue, waiting, finger, lost, excused>> /\ answers' = answers \ {a}
      /\ Typed
  BY DEF Got, browser, LiftInv, TouchInv
<1>2. /\ a.cmd \in Commands /\ a.ok \in BOOLEAN /\ Ans(a.cmd, a.ok)
      /\ \A d, ok : Ans(d, ok)' <=> Ans(d, ok) /\ ~(d = a.cmd /\ ok = a.ok)
  BY <1>1, AnswerTaken
<1>3. PICK g \in Gestures, kind \in Kinds : g = a.cmd.of /\ kind = a.cmd.kind /\ a.cmd = Cmd(g, kind)
  BY <1>2, CmdIs
<1>4. /\ GestureInv(g) /\ drag[g] \in Drags /\ InFlight(Cmd(g, kind))
  BY <1>2, <1>3, LiftTypes DEF LiftInv, InFlight
<1>5. CASE kind = "move"
  <2>1. GotMove(g)
    BY <1>3, <1>5 DEF Got
  <2>2. UNCHANGED drag /\ \E h : net' = net \/ net' = net \cup {Cmd(h, "move")}
    BY <2>1 DEF GotMove
  <2> QED
    BY <1>1, <1>3, <1>5, <2>2, MoveSent, PageLift
<1>6. CASE kind = "start"
  <2>1. GotStart(g, a.ok)
    BY <1>3, <1>6 DEF Got
  <2>2. /\ drag' = [drag EXCEPT ![g].start = IF a.ok THEN "ok" ELSE "failed"]
        /\ net' = net \/ net' = net \cup {Cmd(g, "move")}
    BY <2>1 DEF GotStart, Flush
  <2>3. /\ drag[g].start = "pending" /\ drag[g].moved /\ by[g] # Nobody
        /\ (~excused => drag[g].tail \in Early) /\ Once(Cmd(g, "start"))
    BY <1>4, <1>6 DEF GestureInv
  <2>4. /\ drag'[g].tail = drag[g].tail /\ drag'[g].moved = drag[g].moved
        /\ drag'[g].start = IF a.ok THEN "ok" ELSE "failed"
        /\ \A h \in Gestures : h # g => drag'[h] = drag[h]
    BY <2>2, LiftTypes DEF Drags
  <2>5. \A h, k : k # "move" => Cmd(h, k) # Cmd(g, "move")
    BY DEF Cmd
  <2>6. /\ \A d : d # Cmd(g, "move") => (InFlight(d)' => InFlight(d)) /\ (Once(d) => Once(d)')
        /\ ~InFlight(Cmd(g, "start"))'
    BY <1>1, <1>3, <1>6, <2>2, <2>3, <2>5, Taken
  <2>7. GestureInv(g)'
    <3>1. /\ drag'[g].start # "pending" /\ Once(Cmd(g, "start"))' /\ by'[g] # Nobody
      BY <1>1, <2>3, <2>4, <2>5, <2>6
    <3>2. \A k \in Lasts : InFlight(Cmd(g, k))' => InFlight(Cmd(g, k))
      BY <2>5, <2>6 DEF Lasts
    <3>3. drag[g].tail = "ending" => Once(Cmd(g, "end"))'
      BY <1>4, <2>5, <2>6 DEF GestureInv
    <3> QED
      BY <1>4, <2>3, <2>4, <2>6, <3>1, <3>2, <3>3, Zenon DEF GestureInv
  <2>8. ASSUME NEW h \in Gestures, h # g PROVE GestureInv(h)'
    <3>1. drag'[h] = drag[h] /\ by'[h] = by[h] /\ GestureInv(h)
      BY <1>1, <2>4, <2>8 DEF LiftInv
    <3> QED
      BY <1>1, <2>5, <2>6, <3>1, GestureCarried
  <2>9. ASSUME NEW h \in Gestures, Lifting(h), ~excused' PROVE Lifting(h)'
    <3>1. CASE h # g
      <4>1. \A k, ok : Ans(Cmd(h, k), ok) => Ans(Cmd(h, k), ok)'
        BY <1>2, <1>3, <3>1 DEF Cmd
      <4>2. drag'[h] = drag[h] /\ net \subseteq net'
        BY <2>2, <2>4, <3>1
      <4> QED
        BY <2>9, <4>1, <4>2 DEF Lifting
    <3>2. CASE h = g
      <4>1. ~excused /\ drag[g].tail \in Early /\ drag[g].tail # "ending"
        BY <1>1, <2>3, <2>9 DEF Early
      <4>2. CASE Cmd(g, "cancel") \in net
        BY <2>2, <3>2, <4>2 DEF Lifting
      <4>3. CASE Ans(Cmd(g, "start"), TRUE)
        <5>1. a.ok = TRUE
          BY <1>2, <1>3, <1>6, <2>3, <4>3 DEF Once
        <5> QED
          BY <2>4, <3>2, <4>1, <5>1 DEF Lifting
      <4> QED
        BY <2>3, <2>9, <3>2, <4>1, <4>2, <4>3 DEF Lifting
    <3> QED
      BY <3>1, <3>2
  <2> QED
    BY <1>1, <2>7, <2>8, <2>9, PageLift
<1>7. CASE kind \in Lasts
  <2>1. GotLast(g, a.ok)
    BY <1>3, <1>7 DEF Got, Lasts
  <2>2. \/ drag[g].tail = "lifting" /\ Goto(g, "clicking", "click")
        \/ drag[g].tail \in {"ending", "instead"} /\ ~a.ok /\ Goto(g, "undoing", "cancel")
        \/ /\ drag[g].tail = "ending" => a.ok
           /\ drag' = [drag EXCEPT ![g].tail = "over"] /\ UNCHANGED net
    BY <2>1, Zenon DEF GotLast
  <2>3. PICK tail \in {"clicking", "undoing", "over"}, last \in {"click", "cancel"} :
           /\ drag' = [drag EXCEPT ![g].tail = tail]
           /\ net' = net \/ net' = net \cup {Cmd(g, last)}
           /\ drag[g].tail = "ending" /\ ~a.ok => Cmd(g, "cancel") \in net'
    BY <2>2 DEF Goto
  <2>4. /\ drag[g].tail \notin Early /\ (drag[g].tail = "ending" => kind = "end" /\ Once(Cmd(g, "end")))
        /\ (drag[g].start = "pending" => excused) /\ Once(Cmd(g, "start"))
    BY <1>4, <1>7 DEF GestureInv
  <2>5. /\ tail \in Tails \ Early /\ tail # "ending"
        /\ drag'[g] = [drag[g] EXCEPT !.tail = tail]
        /\ \A h \in Gestures : h # g => drag'[h] = drag[h]
    BY <2>3, LiftTypes DEF Tails, Early
  <2>6. \A d : d # Cmd(g, last) => (InFlight(d)' => InFlight(d)) /\ (Once(d) => Once(d)')
    BY <1>1, <2>3, Taken
  <2>7. \A h, k : Cmd(h, k) = Cmd(g, last) <=> h = g /\ k = last
    BY DEF Cmd
  <2>8. GestureInv(g)'
    <3>1. (InFlight(Cmd(g, "start"))' => InFlight(Cmd(g, "start"))) /\ Once(Cmd(g, "start"))'
      BY <2>4, <2>6, <2>7
    <3> QED
      BY <1>1, <1>4, <2>4, <2>5, <3>1, TailGesture
  <2>9. ASSUME NEW h \in Gestures, h # g PROVE GestureInv(h)'
    <3>1. drag'[h] = drag[h] /\ by'[h] = by[h] /\ GestureInv(h)
      BY <1>1, <2>5, <2>9 DEF LiftInv
    <3> QED
      BY <1>1, <2>6, <2>7, <2>9, <3>1, GestureCarried
  <2>10. ASSUME NEW h \in Gestures, Lifting(h) PROVE Lifting(h)'
    <3>1. CASE h # g
      <4>1. \A k, ok : Ans(Cmd(h, k), ok) => Ans(Cmd(h, k), ok)'
        BY <1>2, <1>3, <3>1 DEF Cmd
      <4>2. drag'[h] = drag[h] /\ net \subseteq net'
        BY <2>3, <2>5, <3>1
      <4> QED
        BY <2>10, <4>1, <4>2 DEF Lifting
    <3>2. CASE h = g
      <4>1. CASE Cmd(g, "cancel") \in net
        BY <2>3, <3>2, <4>1 DEF Lifting
      <4>2. CASE Ans(Cmd(g, "start"), TRUE)
        <5>1. Cmd(g, "start") # a.cmd
          BY <1>3, <1>7 DEF Cmd, Lasts
        <5> QED
          BY <1>2, <3>2, <4>2, <5>1 DEF Lifting
      <4>3. CASE drag[g].tail = "ending" /\ (Cmd(g, "end") \in net \/ Ans(Cmd(g, "end"), FALSE))
        <5>1. a.cmd = Cmd(g, "end") /\ Once(Cmd(g, "end"))
          BY <1>3, <2>4, <4>3
        <5>2. a.ok # TRUE
          BY <1>2, <4>3, <5>1 DEF Once
        <5> QED
          BY <1>2, <2>3, <3>2, <4>3, <5>2 DEF Lifting
      <4> QED
        BY <2>4, <2>10, <3>2, <4>1, <4>2, <4>3 DEF Lifting
    <3> QED
      BY <3>1, <3>2
  <2> QED
    BY <1>1, <2>8, <2>9, <2>10, PageLift
<1> QED
  BY <1>5, <1>6, <1>7 DEF Lasts

LEMMA LeaveLift ==
    ASSUME LiftInv, NEW v \in Viewers, Leave(v)
    PROVE  LiftRest'
<1> DEFINE mine == {g \in Gestures : by[g] = v}
<1>1. /\ excused' = TRUE /\ UNCHANGED <<by, queue, finger, lost>>
      /\ net' = {c \in net : c.of \notin mine} /\ waiting' = {c \in waiting : c.of \notin mine}
      /\ answers' = {a \in answers : a.cmd.of \notin mine}
      /\ drag' = [g \in Gestures |-> IF g \in mine THEN [drag[g] EXCEPT !.tail = "over"] ELSE drag[g]]
  BY DEF Leave, browser
<1>2. \A d : (InFlight(d)' => InFlight(d)) /\ (Once(d) => Once(d)')
  BY <1>1 DEF InFlight, Once, Ans
<1>3. ASSUME NEW g \in Gestures PROVE GestureInv(g)'
  <2>1. GestureInv(g) /\ drag[g] \in Drags /\ "over" \in Tails \ Early
    BY LiftTypes DEF LiftInv, Tails, Early
  <2>2. CASE g \in mine
    <3>1. drag'[g] = [drag[g] EXCEPT !.tail = "over"]
      BY <1>1, <2>2
    <3>2. Once(Cmd(g, "start"))'
      BY <1>2, <2>1 DEF GestureInv
    <3> QED
      BY <1>1, <1>2, <2>1, <3>1, <3>2, TailGesture
  <2>3. CASE g \notin mine
    <3>1. drag'[g] = drag[g]
      BY <1>1, <2>3
    <3> QED
      BY <1>1, <1>2, <2>1, <3>1, GestureCarried
  <2> QED
    BY <2>2, <2>3
<1> QED
  BY <1>1, <1>3 DEF LiftRest, QueuedStarts, WillLift

LEMMA LiftInvNext == LiftInv /\ [Next]_vars => LiftInv'
<1> SUFFICES ASSUME LiftInv, [Next]_vars PROVE LiftRest'
  BY TouchInvNext DEF LiftInv, LiftRest
<1>1. CASE Restart
  <2>1. /\ UNCHANGED <<by, drag, net, queue, waiting, answers, excused>> /\ ~finger' /\ ~lost'
    BY <1>1 DEF Restart, page
  <2>2. \A g \in Gestures : GestureInv(g)'
    BY <2>1 DEF LiftInv, GestureInv, InFlight, Once, Ans
  <2> QED
    BY <2>1, <2>2 DEF LiftInv, LiftRest, QueuedStarts, WillLift
<1>2. CASE UNCHANGED vars
  <2>1. \A g \in Gestures : GestureInv(g)' /\ (Lifting(g) => Lifting(g)')
    BY <1>2 DEF vars, LiftInv, GestureInv, InFlight, Once, Ans, Lifting
  <2> QED
    BY <1>2, <2>1, PageLift DEF vars
<1> QED
  BY <1>1, <1>2, PressLift, SendLift, DragLift, EndDragLift, ReleaseLift, GotLift, HandlerLift,
     AbandonLift, LeaveLift, ExecLift DEF Next

\* When no gesture is under way and the channel is empty the finger is up,
\* however many gestures, pages and refused requests there were, outside the
\* causes named at the property.
THEOREM NoFingerLeftDownHolds == Spec => []NoFingerLeftDown
<1>1. LiftInv => NoFingerLeftDown
  <2> SUFFICES ASSUME LiftInv, \A g \in Gestures : ~UnderWay(g), queue = <<>>, finger, ~excused
               PROVE  FALSE
    BY DEF NoFingerLeftDown
  <2>1. ~LiftQueued
    BY DEF LiftQueued
  <2>2. PICK g \in Gestures : Lifting(g)
    BY <2>1 DEF LiftInv, WillLift
  <2>3. \A kind : Cmd(g, kind).of = g
    BY DEF Cmd
  <2>4. \A c : c \in net \/ Ans(c, TRUE) \/ Ans(c, FALSE) => by[c.of] # Nobody
    BY LiftTypes DEF Owned, Ans
  <2>5. CASE \E kind : Cmd(g, kind) \in net
    BY <2>3, <2>4, <2>5 DEF UnderWay
  <2>6. CASE \E kind : Ans(Cmd(g, kind), TRUE) \/ Ans(Cmd(g, kind), FALSE)
    <3>1. PICK a \in answers : a.cmd.of = g
      BY <2>3, <2>6 DEF Ans
    <3> QED
      BY <3>1, LiftTypes DEF Owned, UnderWay
  <2>7. CASE drag[g].start = "ok" /\ drag[g].tail \in Early
    BY <2>7 DEF LiftInv, GestureInv, UnderWay, Early
  <2> QED
    BY <2>2, <2>5, <2>6, <2>7 DEF Lifting
<1>2. Spec => []LiftInv
  BY LiftInvInit, LiftInvNext, PTL DEF Spec
<1> QED
  BY <1>1, <1>2, PTL

=============================================================================
