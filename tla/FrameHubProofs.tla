--------------------------- MODULE FrameHubProofs ---------------------------
(***************************************************************************)
(* Proofs about FrameHub, for any producers and viewers, any capacities of *)
(* the channels and any number of broadcasts.                              *)
(*                                                                         *)
(* The mutex gives one broadcast at a time, so its message is newer than   *)
(* everything the clients it still has to serve hold or have received.     *)
(* Viewers receive without the mutex: between the two attempts of a send a *)
(* channel only gets shorter, so the second one finds the room it made.    *)
(*                                                                         *)
(* And about PageView: its steps are steps of the hub, so that all of this *)
(* holds there, the page has as many streams as it should, the picture it  *)
(* shows is the newest frame (an image that is loading has a URL of its    *)
(* own, of a frame later than all before), and the mode of its field what  *)
(* the loop told last: that is being broadcast, or is the last news in the *)
(* channel, or is what the page does.                                      *)
(***************************************************************************)
EXTENDS PageView, FiniteSetTheorems, TLAPS

Active(p) == job[p].step # "idle"

\* A message m is newer than a channel's buffer q and the last one received.
Newer(m, l, q) == l < m /\ \A i \in 1..Len(q) : q[i] < m

\* The last message received and those in the buffer, in order.
Rising(l, q) ==
    /\ \A i \in 1..Len(q) : l < q[i]
    /\ \A i, j \in 1..Len(q) : i < j => q[i] < q[j]

Apart == clients \cap closed = {}

OneHolder ==
    /\ \A p \in Producers : Active(p) => p \in mu
    /\ \A p, q \in mu : p = q

\* A broadcast is the newest of its kind, and serves clients that are there.
InLoop ==
    \A p \in Producers : Active(p) =>
        /\ job[p].kind \in Kinds /\ job[p].msg = sent[job[p].kind]
        /\ job[p].msg # 0
        /\ job[p].todo \subseteq clients
        /\ job[p].step \in {"evict", "retry"} => job[p].cur \in job[p].todo

RoomMade ==
    \A p \in Producers : job[p].step = "retry" => Room(job[p].kind, job[p].cur)

AllRising == \A k \in Kinds, v \in Viewers : Rising(last[k][v], chan[k][v])

\* Nothing newer than the newest broadcast is anywhere.
BelowSent == \A k \in Kinds, v \in Viewers : Newer(sent[k] + 1, last[k][v], chan[k][v])

\* Nor is anything newer than the newest message for that viewer.
BelowNewest ==
    \A k \in Kinds, v \in Viewers : Newer(newest[k][v] + 1, last[k][v], chan[k][v])

\* What a broadcast has still to deliver is newer than what is there.
ServesNewer ==
    \A p \in Producers : Active(p) =>
        \A v \in job[p].todo :
            Newer(job[p].msg, last[job[p].kind][v], chan[job[p].kind][v])

\* The newest message is kept, but for the moment between the two attempts.
Kept(k, v) ==
    \/ last[k][v] = newest[k][v]
    \/ chan[k][v] # <<>> /\ chan[k][v][Len(chan[k][v])] = newest[k][v]

KeptOrOnItsWay ==
    \A k \in Kinds, v \in Viewers : v \notin closed =>
        \/ Kept(k, v)
        \/ \E p \in Producers : job[p].step = "retry" /\ job[p].kind = k /\ job[p].cur = v

HubInv ==
    /\ TypeOK /\ Apart /\ OneHolder /\ InLoop /\ RoomMade
    /\ AllRising /\ BelowSent /\ BelowNewest /\ ServesNewer /\ KeptOrOnItsWay
    /\ NeverPanics

-----------------------------------------------------------------------------
(* Sequences. *)

\* Appending a newer message keeps a channel in order, and within any bound.
LEMMA RisingAppend ==
    ASSUME NEW q \in Seq(Nat), NEW l \in Nat, NEW m \in Nat, Rising(l, q), Newer(m, l, q)
    PROVE  /\ Rising(l, Append(q, m))
           /\ \A n \in Nat : m < n => Newer(n, l, Append(q, m))
BY DEF Rising, Newer

\* A message newer still is newer than all of it.
LEMMA NewerLater ==
    ASSUME NEW q \in Seq(Nat), NEW l \in Nat, NEW m \in Nat, NEW n \in Nat, m <= n, Newer(m, l, q)
    PROVE  Newer(n, l, q)
<1> SUFFICES ASSUME NEW i \in 1..Len(q) PROVE l < n /\ q[i] < n
  BY DEF Newer
<1>1. q[i] \in Nat /\ q[i] < m /\ l < m
  BY DEF Newer
<1> QED
  BY <1>1

LEMMA TailFacts ==
    ASSUME NEW S, NEW q \in Seq(S), q # <<>>
    PROVE  /\ Len(q) \in Nat /\ Len(q) > 0 /\ Head(q) = q[1] /\ Head(q) \in S
           /\ Tail(q) \in Seq(S) /\ Len(Tail(q)) = Len(q) - 1
           /\ \A i \in 1..Len(Tail(q)) : Tail(q)[i] = q[i + 1]
OBVIOUS

LEMMA AppendLast ==
    ASSUME NEW S, NEW q \in Seq(S), NEW m \in S
    PROVE  Append(q, m) # <<>> /\ Append(q, m)[Len(Append(q, m))] = m
<1>1. Len(Append(q, m)) = Len(q) + 1 /\ Len(q) \in Nat
  OBVIOUS
<1>2. Append(q, m)[Len(q) + 1] = m
  OBVIOUS
<1>3. Append(q, m) # <<>>
  BY <1>1
<1> QED
  BY <1>1, <1>2, <1>3

\* The last message stays the last, unless it was the only one.
LEMMA LastOfTail ==
    ASSUME NEW S, NEW q \in Seq(S), q # <<>>
    PROVE  \/ Tail(q) = <<>> /\ Head(q) = q[Len(q)]
           \/ Tail(q) # <<>> /\ Tail(q)[Len(Tail(q))] = q[Len(q)]
<1> DEFINE n == Len(q)
<1>1. n \in Nat /\ n > 0 /\ Head(q) = q[1] /\ Len(Tail(q)) = n - 1 /\ Tail(q) \in Seq(S)
  BY TailFacts
<1>2. CASE n = 1
  <2>1. \A t \in Seq(S) : Len(t) = 0 => t = <<>>
    OBVIOUS
  <2>2. Len(Tail(q)) = 0
    BY <1>1, <1>2
  <2>3. Tail(q) = <<>>
    BY ONLY <2>1, <2>2, <1>1
  <2>4. Head(q) = q[n]
    BY <1>1, <1>2
  <2> QED
    BY <2>3, <2>4
<1>3. CASE n # 1
  <2>1. n - 1 \in 1..(n - 1) /\ n - 1 + 1 = n
    BY <1>1, <1>3
  <2>2. Tail(q)[n - 1] = q[n]
    BY <2>1, <1>1, TailFacts
  <2> QED
    BY <1>1, <1>3, <2>2, SMTT(60)
<1> QED
  BY <1>2, <1>3

\* Taking the oldest message out keeps it in order; so does receiving it.
LEMMA RisingTail ==
    ASSUME NEW q \in Seq(Nat), NEW l \in Nat, Rising(l, q), q # <<>>
    PROVE  /\ Rising(l, Tail(q)) /\ Rising(Head(q), Tail(q))
           /\ \A n \in Nat : Newer(n, l, q) => Newer(n, l, Tail(q)) /\ Newer(n, Head(q), Tail(q))
<1>1. /\ Len(q) > 0 /\ Head(q) = q[1] /\ Tail(q) \in Seq(Nat) /\ Len(Tail(q)) = Len(q) - 1
      /\ \A i \in 1..Len(Tail(q)) : Tail(q)[i] = q[i + 1] /\ i + 1 \in 1..Len(q)
  OBVIOUS
<1> QED
  BY <1>1 DEF Rising, Newer

\* The channels begin empty, with nobody subscribed.
LEMMA HubInvInit == Init => HubInv
<1> SUFFICES ASSUME Init PROVE HubInv
  OBVIOUS
<1> USE CapAssumption, MaxMsgsAssumption
<1>1. \A p \in Producers : job[p] = NoJob
  BY DEF Init
<1>2. NoJob \in Jobs
  BY DEF NoJob, Jobs
<1>3. \A k \in Kinds, v \in Viewers : chan[k][v] = <<>> /\ last[k][v] = 0 /\ newest[k][v] = 0
  BY DEF Init
<1>4. TypeOK
  <2>1. <<>> \in Seq(1..MaxMsgs) /\ 0 \in 0..MaxMsgs
    OBVIOUS
  <2>2. /\ chan \in [Kinds -> [Viewers -> Seq(1..MaxMsgs)]]
        /\ newest \in [Kinds -> [Viewers -> 0..MaxMsgs]]
        /\ last \in [Kinds -> [Viewers -> 0..MaxMsgs]] /\ sent \in [Kinds -> 0..MaxMsgs]
    BY <2>1 DEF Init
  <2>3. \A k \in Kinds, v \in Viewers : Len(chan[k][v]) <= Cap[k]
    BY <1>3
  <2>4. job \in [Producers -> Jobs]
    BY <1>2 DEF Init
  <2> QED
    BY <2>2, <2>3, <2>4 DEF Init, TypeOK
<1>5. \A p \in Producers : job[p].step = "idle"
  BY <1>1 DEF NoJob
<1>6. Apart /\ OneHolder /\ InLoop /\ RoomMade /\ ServesNewer /\ NeverPanics
  BY <1>5 DEF Init, Apart, OneHolder, InLoop, RoomMade, ServesNewer, NeverPanics, Active
<1>7. AllRising /\ BelowSent /\ BelowNewest /\ KeptOrOnItsWay
  BY <1>3 DEF Init, AllRising, BelowSent, BelowNewest, KeptOrOnItsWay, Rising, Newer, Kept
<1> QED
  BY <1>4, <1>6, <1>7 DEF HubInv

-----------------------------------------------------------------------------
(* Types, one action at a time. *)

\* The update of one channel of one viewer, and of nobody else's.
LEMMA OneUpdate ==
    ASSUME NEW S, NEW f \in [Kinds -> [Viewers -> S]], NEW k \in Kinds, NEW v \in Viewers,
           NEW x \in S, NEW g, g = [f EXCEPT ![k][v] = x]
    PROVE  /\ g \in [Kinds -> [Viewers -> S]] /\ g[k][v] = x
           /\ \A j \in Kinds, u \in Viewers : <<j, u>> # <<k, v>> => g[j][u] = f[j][u]
OBVIOUS

\* Whoever broadcasts is the only one.
LEMMA OnlyOne ==
    ASSUME HubInv, NEW p \in Producers, NEW q \in Producers, Active(p), Active(q)
    PROVE  p = q
BY DEF HubInv, OneHolder

\* What the two attempts of a send do when there is room.
LEMMA DeliverInv ==
    ASSUME HubInv, NEW p \in Producers, Active(p), NEW v \in job[p].todo,
           job[p].step = "retry" => job[p].cur = v,
           Room(job[p].kind, v), Deliver(p, v),
           UNCHANGED <<mu, clients, closed, sent, last, panicked>>
    PROVE  HubInv'
<1> DEFINE k == job[p].kind
           m == job[p].msg
           j == [job[p] EXCEPT !.step = "send", !.todo = @ \ {v}, !.cur = Nobody]
<1> USE CapAssumption, MaxMsgsAssumption
<1>1. /\ job[p] \in Jobs /\ k \in Kinds /\ v \in Viewers /\ v \in clients
      /\ m = sent[k] /\ m \in 1..MaxMsgs
  BY DEF HubInv, TypeOK, InLoop, Jobs
<1>2. j \in Jobs
  BY <1>1 DEF Jobs
<1>3. job' = [job EXCEPT ![p] = j]
  BY DEF Deliver, HubInv, TypeOK
<1>4. /\ job' \in [Producers -> Jobs]
      /\ job'[p] = j /\ \A q \in Producers : q # p => job'[q] = job[q]
  BY <1>2, <1>3 DEF HubInv, TypeOK
<1>5. /\ j.step = "send" /\ j.kind = k /\ j.msg = m /\ j.todo = job[p].todo \ {v}
  BY <1>1 DEF Jobs
<1>6. /\ chan[k][v] \in Seq(1..MaxMsgs) /\ Append(chan[k][v], m) \in Seq(1..MaxMsgs)
      /\ last[k][v] \in 0..MaxMsgs /\ sent[k] \in 0..MaxMsgs
  BY <1>1 DEF HubInv, TypeOK
<1>7. /\ chan' \in [Kinds -> [Viewers -> Seq(1..MaxMsgs)]]
      /\ chan'[k][v] = Append(chan[k][v], m)
      /\ \A i \in Kinds, u \in Viewers : <<i, u>> # <<k, v>> => chan'[i][u] = chan[i][u]
  <2>1. chan' = [chan EXCEPT ![k][v] = Append(chan[k][v], m)]
    BY <1>1 DEF Deliver, HubInv, TypeOK
  <2> QED
    BY <2>1, <1>1, <1>6, OneUpdate, SMTT(60) DEF HubInv, TypeOK
<1>8. /\ newest' \in [Kinds -> [Viewers -> 0..MaxMsgs]]
      /\ newest'[k][v] = m
      /\ \A i \in Kinds, u \in Viewers : <<i, u>> # <<k, v>> => newest'[i][u] = newest[i][u]
  <2>1. newest' = [newest EXCEPT ![k][v] = m] /\ m \in 0..MaxMsgs
    BY <1>1 DEF Deliver
  <2> QED
    BY <2>1, <1>1, OneUpdate DEF HubInv, TypeOK
<1>9. TypeOK'
  <2>1. Len(Append(chan[k][v], m)) <= Cap[k]
    BY <1>1, <1>6 DEF Room
  <2>2. \A i \in Kinds, u \in Viewers : Len(chan'[i][u]) <= Cap[i]
    BY <2>1, <1>7 DEF HubInv, TypeOK
  <2> QED
    BY <2>2, <1>4, <1>7, <1>8 DEF HubInv, TypeOK
<1>10. \A q \in Producers : (Active(q))' => Active(q) /\ q = p
  BY <1>4, OnlyOne DEF Active
<1>11. Apart' /\ OneHolder' /\ NeverPanics'
  BY <1>10 DEF HubInv, Apart, OneHolder, NeverPanics
<1>12. InLoop' /\ RoomMade'
  <2>1. job'[p].kind \in Kinds /\ job'[p].msg = sent'[job'[p].kind] /\ job'[p].msg # 0
    BY <1>1, <1>4, <1>5
  <2>2. job'[p].todo \subseteq clients' /\ job'[p].step = "send"
    BY <1>1, <1>4, <1>5 DEF HubInv, InLoop
  <2> QED
    BY <2>1, <2>2, <1>10 DEF InLoop, RoomMade, Active
<1>13. /\ Rising(last[k][v], Append(chan[k][v], m))
       /\ Newer(sent[k] + 1, last[k][v], Append(chan[k][v], m))
       /\ Newer(m + 1, last[k][v], Append(chan[k][v], m))
  <2>1. Rising(last[k][v], chan[k][v]) /\ Newer(m, last[k][v], chan[k][v])
    BY <1>1 DEF HubInv, AllRising, ServesNewer
  <2>2. chan[k][v] \in Seq(Nat) /\ last[k][v] \in Nat /\ m \in Nat /\ sent[k] + 1 \in Nat /\ m + 1 \in Nat
    BY <1>1, <1>6
  <2>3. m < sent[k] + 1 /\ m < m + 1
    BY <1>1
  <2> QED
    BY <2>1, <2>2, <2>3, RisingAppend
<1>14. AllRising' /\ BelowSent' /\ BelowNewest'
  <2> SUFFICES ASSUME NEW i \in Kinds, NEW u \in Viewers
               PROVE  /\ Rising(last[i][u], chan'[i][u])
                      /\ Newer(sent[i] + 1, last[i][u], chan'[i][u])
                      /\ Newer(newest'[i][u] + 1, last[i][u], chan'[i][u])
    BY DEF AllRising, BelowSent, BelowNewest
  <2>1. CASE <<i, u>> = <<k, v>>
    BY <2>1, <1>7, <1>8, <1>13
  <2>2. CASE <<i, u>> # <<k, v>>
    BY <2>2, <1>7, <1>8 DEF HubInv, AllRising, BelowSent, BelowNewest
  <2> QED
    BY <2>1, <2>2
<1>15. ServesNewer'
  <2> SUFFICES ASSUME NEW u \in job[p].todo \ {v}
               PROVE  Newer(m, last[k][u], chan'[k][u])
    BY <1>4, <1>5, <1>10, ZenonT(60) DEF ServesNewer
  <2>1. u \in Viewers /\ <<k, u>> # <<k, v>>
    BY <1>1 DEF Jobs
  <2> QED
    BY <2>1, <1>1, <1>7 DEF HubInv, ServesNewer
<1>16. KeptOrOnItsWay'
  <2> SUFFICES ASSUME NEW i \in Kinds, NEW u \in Viewers, u \notin closed
               PROVE  Kept(i, u)'
    BY DEF KeptOrOnItsWay
  <2>1. CASE <<i, u>> = <<k, v>>
    <3> HIDE DEF k, m
    <3>1. Append(chan[k][v], m) # <<>> /\ Append(chan[k][v], m)[Len(Append(chan[k][v], m))] = m
      <4>1. chan[k][v] \in Seq(1..MaxMsgs) /\ m \in 1..MaxMsgs
        BY <1>1, <1>6
      <4> QED
        BY <4>1, AppendLast, ZenonT(60)
    <3> QED
      BY <2>1, <3>1, <1>7, <1>8 DEF Kept
  <2>2. CASE <<i, u>> # <<k, v>>
    <3>1. Kept(i, u)
      BY <2>2, OnlyOne DEF HubInv, KeptOrOnItsWay, Active
    <3> QED
      BY <2>2, <3>1, <1>7, <1>8 DEF Kept
  <2> QED
    BY <2>1, <2>2
<1> QED
  BY <1>9, <1>11, <1>12, <1>14, <1>15, <1>16 DEF HubInv

\* The other steps of a broadcast leave the channels and what was received
\* alone, or take the oldest message out of one channel.
LEMMA SubscribeInv ==
    ASSUME HubInv, NEW v \in Viewers, Subscribe(v) \/ Unsubscribe(v)
    PROVE  HubInv'
<1>1. mu = {} /\ UNCHANGED <<mu, chan, job, sent, newest, last, panicked>>
  BY DEF Subscribe, Unsubscribe
<1>2. clients' \in SUBSET Viewers /\ closed' \in SUBSET Viewers /\ closed \subseteq closed'
  BY DEF Subscribe, Unsubscribe, HubInv, TypeOK
<1>3. \A p \in Producers : ~Active(p)
  BY <1>1 DEF HubInv, OneHolder
<1>4. \A p \in Producers : (Active(p))' <=> Active(p)
  BY <1>1 DEF Active
<1>5. TypeOK'
  BY <1>1, <1>2 DEF HubInv, TypeOK
<1>6. Apart'
  BY DEF Subscribe, Unsubscribe, HubInv, Apart
<1>7. OneHolder' /\ InLoop' /\ ServesNewer'
  BY <1>1, <1>3, <1>4 DEF OneHolder, InLoop, ServesNewer
<1>8. RoomMade'
  BY <1>1 DEF HubInv, RoomMade, Room
<1>9. AllRising' /\ BelowSent' /\ BelowNewest' /\ NeverPanics'
  BY <1>1 DEF HubInv, AllRising, BelowSent, BelowNewest, NeverPanics
<1>10. KeptOrOnItsWay'
  BY <1>1, <1>2 DEF HubInv, KeptOrOnItsWay, Kept
<1> QED
  BY <1>5, <1>6, <1>7, <1>8, <1>9, <1>10 DEF HubInv

LEMMA LockInv ==
    ASSUME HubInv, NEW p \in Producers, NEW k \in Kinds, Lock(p, k)
    PROVE  HubInv'
<1> DEFINE j == [step |-> "send", kind |-> k, msg |-> sent[k] + 1, todo |-> clients, cur |-> Nobody]
<1> USE CapAssumption, MaxMsgsAssumption
<1>1. /\ mu = {} /\ mu' = {p} /\ sent[k] \in 0..MaxMsgs /\ sent[k] < MaxMsgs
      /\ sent' = [sent EXCEPT ![k] = sent[k] + 1]
      /\ UNCHANGED <<clients, chan, closed, newest, last, panicked>>
  BY DEF Lock, HubInv, TypeOK
<1>2. j \in Jobs
  BY <1>1 DEF Jobs, HubInv, TypeOK
<1>3. /\ job' \in [Producers -> Jobs]
      /\ job'[p] = j /\ \A q \in Producers : q # p => job'[q] = job[q]
  BY <1>2 DEF Lock, HubInv, TypeOK
<1>4. /\ sent' \in [Kinds -> 0..MaxMsgs]
      /\ sent'[k] = sent[k] + 1 /\ \A i \in Kinds : sent[i] <= sent'[i] /\ sent'[i] \in Nat /\ sent[i] \in Nat
  BY <1>1 DEF HubInv, TypeOK
<1>5. TypeOK'
  BY <1>1, <1>3, <1>4 DEF HubInv, TypeOK
<1>6. \A q \in Producers : ~Active(q)
  BY <1>1 DEF HubInv, OneHolder
<1>7. \A q \in Producers : (Active(q))' => q = p
  BY <1>3, <1>6 DEF Active
<1>8. Apart' /\ OneHolder' /\ NeverPanics'
  BY <1>1, <1>7 DEF HubInv, Apart, OneHolder, NeverPanics
<1>9. InLoop'
  BY <1>1, <1>3, <1>4, <1>7 DEF InLoop
<1>10. RoomMade'
  BY <1>3, <1>7 DEF RoomMade, Active
<1>11. AllRising' /\ BelowNewest'
  BY <1>1 DEF HubInv, AllRising, BelowNewest
<1>12. BelowSent'
  <2> SUFFICES ASSUME NEW i \in Kinds, NEW v \in Viewers
               PROVE  Newer(sent'[i] + 1, last[i][v], chan[i][v])
    BY <1>1 DEF BelowSent
  <2>1. Newer(sent[i] + 1, last[i][v], chan[i][v])
    BY DEF HubInv, BelowSent
  <2>2. chan[i][v] \in Seq(Nat) /\ last[i][v] \in Nat
    BY DEF HubInv, TypeOK
  <2>3. sent[i] + 1 \in Nat /\ sent'[i] + 1 \in Nat /\ sent[i] + 1 <= sent'[i] + 1
    BY <1>4
  <2> QED
    BY <2>1, <2>2, <2>3, NewerLater
<1>13. ServesNewer'
  <2> SUFFICES ASSUME NEW v \in clients
               PROVE  Newer(sent[k] + 1, last[k][v], chan[k][v])
    BY <1>1, <1>3, <1>7 DEF ServesNewer
  <2> QED
    BY DEF HubInv, BelowSent, TypeOK
<1>14. KeptOrOnItsWay'
  BY <1>1, <1>3, <1>6 DEF HubInv, KeptOrOnItsWay, Kept, Active
<1> QED
  BY <1>5, <1>8, <1>9, <1>10, <1>11, <1>12, <1>13, <1>14 DEF HubInv

\* The first attempt finds the channel full.
LEMMA NoRoomInv ==
    ASSUME HubInv, NEW p \in Producers, NEW v \in job[p].todo, job[p].step = "send",
           job' = [job EXCEPT ![p].step = "evict", ![p].cur = v],
           UNCHANGED <<mu, clients, chan, closed, sent, newest, last, panicked>>
    PROVE  HubInv'
<1> DEFINE j == [job[p] EXCEPT !.step = "evict", !.cur = v]
<1>1. job[p] \in Jobs /\ v \in Viewers /\ Active(p)
  BY DEF HubInv, TypeOK, Jobs, Active
<1>2. j \in Jobs
  BY <1>1 DEF Jobs
<1>3. /\ job' \in [Producers -> Jobs]
      /\ job'[p] = j /\ \A q \in Producers : q # p => job'[q] = job[q]
  BY <1>2 DEF HubInv, TypeOK
<1>4. /\ j.step = "evict" /\ j.kind = job[p].kind /\ j.msg = job[p].msg
      /\ j.todo = job[p].todo /\ j.cur = v
  BY <1>1 DEF Jobs
<1>5. TypeOK'
  BY <1>3 DEF HubInv, TypeOK
<1>6. \A q \in Producers : (Active(q))' => Active(q) /\ q = p
  BY <1>1, <1>3, OnlyOne DEF Active
<1>7. Apart' /\ OneHolder' /\ NeverPanics' /\ AllRising' /\ BelowSent' /\ BelowNewest'
  BY <1>6 DEF HubInv, Apart, OneHolder, NeverPanics, AllRising, BelowSent, BelowNewest
<1>8. InLoop' /\ ServesNewer'
  BY <1>1, <1>3, <1>4, <1>6 DEF HubInv, InLoop, ServesNewer
<1>9. RoomMade'
  BY <1>3, <1>4, <1>6 DEF RoomMade, Active
<1>10. KeptOrOnItsWay'
  BY <1>1, <1>3, OnlyOne DEF HubInv, KeptOrOnItsWay, Kept, Active
<1> QED
  BY <1>5, <1>7, <1>8, <1>9, <1>10 DEF HubInv

LEMMA UnlockInv ==
    ASSUME HubInv, NEW p \in Producers, Unlock(p)
    PROVE  HubInv'
<1>1. Active(p) /\ UNCHANGED <<clients, chan, closed, sent, newest, last, panicked>>
  BY DEF Unlock, Active
<1>2. NoJob \in Jobs /\ NoJob.step = "idle"
  BY MaxMsgsAssumption DEF NoJob, Jobs
<1>3. /\ job' \in [Producers -> Jobs]
      /\ job'[p] = NoJob /\ \A q \in Producers : q # p => job'[q] = job[q]
  BY <1>2 DEF Unlock, HubInv, TypeOK
<1>4. \A q \in Producers : ~(Active(q))'
  BY <1>1, <1>2, <1>3, OnlyOne DEF Active
<1>5. TypeOK'
  BY <1>1, <1>3 DEF Unlock, HubInv, TypeOK
<1>6. OneHolder'
  BY <1>4 DEF HubInv, OneHolder, Unlock
<1>7. Apart' /\ NeverPanics' /\ AllRising' /\ BelowSent' /\ BelowNewest'
  BY <1>1 DEF HubInv, Apart, NeverPanics, AllRising, BelowSent, BelowNewest
<1>8. InLoop' /\ ServesNewer' /\ RoomMade'
  BY <1>4 DEF InLoop, ServesNewer, RoomMade, Active
<1>9. KeptOrOnItsWay'
  BY <1>1, OnlyOne DEF HubInv, KeptOrOnItsWay, Kept, Active, Unlock
<1> QED
  BY <1>5, <1>6, <1>7, <1>8, <1>9 DEF HubInv

\* Between the attempts the oldest message is taken out, if there is one left.
LEMMA EvictInv ==
    ASSUME HubInv, NEW p \in Producers, Evict(p)
    PROVE  HubInv'
<1> DEFINE k == job[p].kind
           v == job[p].cur
           q == chan[k][v]
           x == IF q = <<>> THEN q ELSE Tail(q)
           j == [job[p] EXCEPT !.step = "retry"]
<1> USE CapAssumption
<1>1. /\ job[p] \in Jobs /\ Active(p) /\ k \in Kinds /\ v \in job[p].todo /\ v \in Viewers
      /\ UNCHANGED <<mu, clients, closed, sent, newest, last, panicked>>
  BY DEF Evict, HubInv, TypeOK, InLoop, Active, Jobs
<1>2. j \in Jobs
  BY <1>1 DEF Jobs
<1>3. /\ job' \in [Producers -> Jobs]
      /\ job'[p] = j /\ \A r \in Producers : r # p => job'[r] = job[r]
  BY <1>2 DEF Evict, HubInv, TypeOK
<1>4. /\ j.step = "retry" /\ j.kind = k /\ j.msg = job[p].msg /\ j.todo = job[p].todo /\ j.cur = v
  BY <1>1 DEF Jobs
<1>5. q \in Seq(1..MaxMsgs) /\ q \in Seq(Nat) /\ last[k][v] \in Nat /\ Len(q) <= Cap[k]
  BY <1>1, MaxMsgsAssumption DEF HubInv, TypeOK
<1>6. x \in Seq(1..MaxMsgs) /\ chan' = [chan EXCEPT ![k][v] = x]
  BY <1>1, <1>5, TailFacts DEF Evict, HubInv, TypeOK
<1>7. /\ chan' \in [Kinds -> [Viewers -> Seq(1..MaxMsgs)]] /\ chan'[k][v] = x
      /\ \A i \in Kinds, u \in Viewers : <<i, u>> # <<k, v>> => chan'[i][u] = chan[i][u]
  BY <1>1, <1>6, OneUpdate, SMTT(60) DEF HubInv, TypeOK
<1>8. Len(x) < Cap[k]
  BY <1>1, <1>5, TailFacts
<1>9. /\ Rising(last[k][v], x)
      /\ \A n \in Nat : Newer(n, last[k][v], q) => Newer(n, last[k][v], x)
  BY <1>1, <1>5, <1>6, RisingTail DEF HubInv, AllRising
<1>10. TypeOK'
  <2>1. \A i \in Kinds, u \in Viewers : Len(chan'[i][u]) <= Cap[i]
    <3> SUFFICES ASSUME NEW i \in Kinds, NEW u \in Viewers PROVE Len(chan'[i][u]) <= Cap[i]
      OBVIOUS
    <3>1. CASE <<i, u>> = <<k, v>>
      <4>1. Len(chan'[i][u]) = Len(x)
        BY <3>1, <1>7
      <4>2. Len(x) \in Nat /\ Cap[i] \in Nat /\ Len(x) < Cap[i]
        BY <3>1, <1>1, <1>6, <1>8
      <4> HIDE DEF x
      <4> QED
        BY <4>1, <4>2
    <3>2. CASE <<i, u>> # <<k, v>>
      BY <3>2, <1>7 DEF HubInv, TypeOK
    <3> QED
      BY <3>1, <3>2
  <2> QED
    BY <2>1, <1>1, <1>3, <1>7 DEF HubInv, TypeOK
<1>11. \A r \in Producers : (Active(r))' => Active(r) /\ r = p
  BY <1>1, <1>3, OnlyOne DEF Active
<1>12. Apart' /\ OneHolder' /\ NeverPanics'
  BY <1>1, <1>11 DEF HubInv, Apart, OneHolder, NeverPanics
<1>13. InLoop'
  BY <1>1, <1>3, <1>4, <1>11, ZenonT(60) DEF HubInv, InLoop
<1>14. RoomMade'
  BY <1>3, <1>4, <1>7, <1>8, <1>11, ZenonT(60) DEF RoomMade, Active, Room
<1>15. AllRising' /\ BelowSent' /\ BelowNewest'
  <2>1. sent[k] \in 0..MaxMsgs /\ newest[k][v] \in 0..MaxMsgs
    BY <1>1 DEF HubInv, TypeOK
  <2>2. sent[k] + 1 \in Nat /\ newest[k][v] + 1 \in Nat
    BY <2>1, MaxMsgsAssumption
  <2> SUFFICES ASSUME NEW i \in Kinds, NEW u \in Viewers
               PROVE  /\ Rising(last[i][u], chan'[i][u])
                      /\ Newer(sent[i] + 1, last[i][u], chan'[i][u])
                      /\ Newer(newest[i][u] + 1, last[i][u], chan'[i][u])
    BY <1>1 DEF AllRising, BelowSent, BelowNewest
  <2>3. CASE <<i, u>> = <<k, v>>
    <3>1. Newer(sent[k] + 1, last[k][v], q) /\ Newer(newest[k][v] + 1, last[k][v], q)
      BY <1>1 DEF HubInv, BelowSent, BelowNewest
    <3> QED
      BY <3>1, <2>2, <2>3, <1>7, <1>9
  <2>4. CASE <<i, u>> # <<k, v>>
    BY <2>4, <1>7 DEF HubInv, AllRising, BelowSent, BelowNewest
  <2> QED
    BY <2>3, <2>4
<1>16. ServesNewer'
  <2> SUFFICES ASSUME NEW u \in job[p].todo
               PROVE  Newer(job[p].msg, last[k][u], chan'[k][u])
    BY <1>1, <1>3, <1>4, <1>11, ZenonT(60) DEF ServesNewer
  <2>1. u \in Viewers /\ job[p].msg \in Nat /\ Newer(job[p].msg, last[k][u], chan[k][u])
    BY <1>1, MaxMsgsAssumption DEF HubInv, ServesNewer, Jobs
  <2> QED
    BY <2>1, <1>1, <1>7, <1>9
<1>17. KeptOrOnItsWay'
  <2> SUFFICES ASSUME NEW i \in Kinds, NEW u \in Viewers, u \notin closed, <<i, u>> # <<k, v>>
               PROVE  Kept(i, u)'
    BY <1>1, <1>3, <1>4 DEF KeptOrOnItsWay
  <2>1. Kept(i, u)
    BY <1>1, OnlyOne DEF HubInv, KeptOrOnItsWay, Active, Evict
  <2> QED
    BY <2>1, <1>1, <1>7 DEF Kept
<1> QED
  BY <1>10, <1>12, <1>13, <1>14, <1>15, <1>16, <1>17 DEF HubInv

\* A viewer receives, with or without a broadcast under way.
LEMMA ReceiveInv ==
    ASSUME HubInv, NEW v \in Viewers, NEW k \in Kinds, Receive(v, k)
    PROVE  HubInv'
<1> DEFINE q == chan[k][v]
<1> USE CapAssumption, MaxMsgsAssumption
<1>1. q # <<>> /\ UNCHANGED <<mu, clients, closed, job, sent, newest, panicked>>
  BY DEF Receive
<1>2. /\ q \in Seq(1..MaxMsgs) /\ q \in Seq(Nat) /\ Head(q) \in 1..MaxMsgs
      /\ Tail(q) \in Seq(1..MaxMsgs) /\ last[k][v] \in Nat /\ Len(q) <= Cap[k]
      /\ Len(Tail(q)) = Len(q) - 1 /\ Len(q) \in Nat
  <2>1. q \in Seq(1..MaxMsgs) /\ last[k][v] \in 0..MaxMsgs /\ Len(q) <= Cap[k]
    BY DEF HubInv, TypeOK
  <2>2. /\ Head(q) \in 1..MaxMsgs /\ Tail(q) \in Seq(1..MaxMsgs)
        /\ Len(Tail(q)) = Len(q) - 1 /\ Len(q) \in Nat
    BY ONLY <2>1, <1>1, TailFacts
  <2> QED
    BY <2>1, <2>2
<1>3. /\ chan' \in [Kinds -> [Viewers -> Seq(1..MaxMsgs)]] /\ chan'[k][v] = Tail(q)
      /\ \A i \in Kinds, u \in Viewers : <<i, u>> # <<k, v>> => chan'[i][u] = chan[i][u]
  <2>1. chan' = [chan EXCEPT ![k][v] = Tail(q)]
    BY DEF Receive, HubInv, TypeOK
  <2> QED
    BY <2>1, <1>2, OneUpdate DEF HubInv, TypeOK
<1>4. /\ last' \in [Kinds -> [Viewers -> 0..MaxMsgs]] /\ last'[k][v] = Head(q)
      /\ \A i \in Kinds, u \in Viewers : <<i, u>> # <<k, v>> => last'[i][u] = last[i][u]
  <2>1. last' = [last EXCEPT ![k][v] = Head(q)] /\ Head(q) \in 0..MaxMsgs
    BY <1>2 DEF Receive
  <2> QED
    BY <2>1, OneUpdate DEF HubInv, TypeOK
<1>5. /\ Rising(Head(q), Tail(q))
      /\ \A n \in Nat : Newer(n, last[k][v], q) => Newer(n, Head(q), Tail(q))
  BY <1>1, <1>2, RisingTail DEF HubInv, AllRising
<1>6. TypeOK'
  <2>1. \A i \in Kinds, u \in Viewers : Len(chan'[i][u]) <= Cap[i]
    <3> SUFFICES ASSUME NEW i \in Kinds, NEW u \in Viewers PROVE Len(chan'[i][u]) <= Cap[i]
      OBVIOUS
    <3>1. CASE <<i, u>> = <<k, v>>
      BY <3>1, <1>2, <1>3
    <3>2. CASE <<i, u>> # <<k, v>>
      BY <3>2, <1>3 DEF HubInv, TypeOK
    <3> QED
      BY <3>1, <3>2
  <2> QED
    BY <2>1, <1>1, <1>3, <1>4 DEF HubInv, TypeOK
<1>7. \A p \in Producers : (Active(p))' <=> Active(p)
  BY <1>1 DEF Active
<1>8. Apart' /\ OneHolder' /\ NeverPanics' /\ InLoop'
  BY <1>1, <1>7 DEF HubInv, Apart, OneHolder, NeverPanics, InLoop
<1>9. RoomMade'
  <2> SUFFICES ASSUME NEW p \in Producers, job[p].step = "retry"
               PROVE  Len(chan'[job[p].kind][job[p].cur]) < Cap[job[p].kind]
    BY <1>1 DEF RoomMade, Room
  <2>1. job[p].kind \in Kinds /\ job[p].cur \in Viewers
    BY DEF HubInv, TypeOK, InLoop, Active, Jobs
  <2>2. Len(chan[job[p].kind][job[p].cur]) < Cap[job[p].kind]
    BY DEF HubInv, RoomMade, Room
  <2>3. CASE <<job[p].kind, job[p].cur>> = <<k, v>>
    BY <2>2, <2>3, <1>2, <1>3
  <2> QED
    BY <2>1, <2>2, <2>3, <1>3
<1>10. AllRising' /\ BelowSent' /\ BelowNewest'
  <2>1. sent[k] + 1 \in Nat /\ newest[k][v] + 1 \in Nat
    BY DEF HubInv, TypeOK
  <2> QED
    <3> SUFFICES ASSUME NEW i \in Kinds, NEW u \in Viewers
                 PROVE  /\ Rising(last'[i][u], chan'[i][u])
                        /\ Newer(sent[i] + 1, last'[i][u], chan'[i][u])
                        /\ Newer(newest[i][u] + 1, last'[i][u], chan'[i][u])
      BY <1>1 DEF AllRising, BelowSent, BelowNewest
    <3>1. CASE <<i, u>> = <<k, v>>
      <4>1. Newer(sent[k] + 1, last[k][v], q) /\ Newer(newest[k][v] + 1, last[k][v], q)
        BY DEF HubInv, BelowSent, BelowNewest
      <4> QED
        BY <4>1, <3>1, <2>1, <1>3, <1>4, <1>5
    <3>2. CASE <<i, u>> # <<k, v>>
      BY <3>2, <1>3, <1>4 DEF HubInv, AllRising, BelowSent, BelowNewest
    <3> QED
      BY <3>1, <3>2
<1>11. ServesNewer'
  <2> SUFFICES ASSUME NEW p \in Producers, Active(p), NEW u \in job[p].todo
               PROVE  Newer(job[p].msg, last'[job[p].kind][u], chan'[job[p].kind][u])
    BY <1>1, <1>7 DEF ServesNewer
  <2>1. /\ u \in Viewers /\ job[p].kind \in Kinds /\ job[p].msg \in Nat
        /\ Newer(job[p].msg, last[job[p].kind][u], chan[job[p].kind][u])
    BY DEF HubInv, TypeOK, InLoop, ServesNewer, Jobs
  <2>2. CASE <<job[p].kind, u>> = <<k, v>>
    BY <2>1, <2>2, <1>3, <1>4, <1>5
  <2> QED
    BY <2>1, <2>2, <1>3, <1>4
<1>12. KeptOrOnItsWay'
  <2> SUFFICES ASSUME NEW i \in Kinds, NEW u \in Viewers, Kept(i, u)
               PROVE  Kept(i, u)'
    BY <1>1 DEF HubInv, KeptOrOnItsWay
  <2>1. CASE <<i, u>> # <<k, v>>
    BY <2>1, <1>1, <1>3, <1>4 DEF Kept
  <2>2. CASE <<i, u>> = <<k, v>>
    <3>1. q[Len(q)] = newest[k][v]
      <4>1. /\ \A n \in 1..Len(q) : last[k][v] < q[n] /\ q[n] < newest[k][v] + 1
            /\ newest[k][v] \in Nat /\ 1 \in 1..Len(q) /\ q[1] \in Nat
        <5>1. Rising(last[k][v], q) /\ Newer(newest[k][v] + 1, last[k][v], q)
          BY DEF HubInv, AllRising, BelowNewest
        <5>2. newest[k][v] \in 0..MaxMsgs
          BY DEF HubInv, TypeOK
        <5>3. Len(q) > 0
          BY <1>1, <1>2, TailFacts
        <5> QED
          BY <5>1, <5>2, <5>3, <1>2, SMTT(60) DEF Rising, Newer
      <4>2. last[k][v] # newest[k][v]
        BY <4>1, <1>2, SMTT(60)
      <4> QED
        BY <4>2, <2>2 DEF Kept
    <3>2. \/ Tail(q) = <<>> /\ Head(q) = q[Len(q)]
          \/ Tail(q) # <<>> /\ Tail(q)[Len(Tail(q))] = q[Len(q)]
      BY ONLY <1>1, <1>2, LastOfTail
    <3> QED
      BY <3>1, <3>2, <2>2, <1>1, <1>3, <1>4 DEF Kept
  <2> QED
    BY <2>1, <2>2
<1> QED
  BY <1>6, <1>8, <1>9, <1>10, <1>11, <1>12 DEF HubInv

-----------------------------------------------------------------------------
LEMMA HubInvNext == HubInv /\ [Next]_vars => HubInv'
<1> SUFFICES ASSUME HubInv, [Next]_vars PROVE HubInv'
  OBVIOUS
<1>1. ASSUME NEW p \in Producers, NEW k \in Kinds, Lock(p, k) PROVE HubInv'
  BY <1>1, LockInv
<1>2. ASSUME NEW p \in Producers, NEW v \in Viewers, TrySend(p, v) PROVE HubInv'
  <2>1. v \in job[p].todo /\ job[p].step = "send" /\ Active(p)
    BY <1>2 DEF TrySend, Active
  <2>2. v \notin closed
    BY <2>1 DEF HubInv, InLoop, Apart
  <2>3. UNCHANGED <<mu, clients, closed, sent, last, panicked>>
    BY <1>2, <2>2 DEF TrySend, HubInv, TypeOK
  <2>4. CASE Room(job[p].kind, v)
    BY <1>2, <2>1, <2>3, <2>4, DeliverInv DEF TrySend
  <2>5. CASE ~Room(job[p].kind, v)
    BY <1>2, <2>1, <2>3, <2>5, NoRoomInv DEF TrySend
  <2> QED
    BY <2>4, <2>5
<1>3. ASSUME NEW p \in Producers, Evict(p) PROVE HubInv'
  BY <1>3, EvictInv
<1>4. ASSUME NEW p \in Producers, Retry(p) PROVE HubInv'
  <2>1. /\ job[p].step = "retry" /\ Active(p)
        /\ job[p].cur \in job[p].todo /\ Room(job[p].kind, job[p].cur)
    BY <1>4 DEF Retry, Active, HubInv, InLoop, RoomMade
  <2>2. job[p].cur \notin closed
    BY <2>1 DEF HubInv, InLoop, Apart
  <2>3. UNCHANGED <<mu, clients, closed, sent, last, panicked>>
    BY <1>4, <2>2 DEF Retry, HubInv, TypeOK
  <2>4. Deliver(p, job[p].cur)
    BY <1>4, <2>1 DEF Retry
  <2> QED
    BY <2>1, <2>3, <2>4, DeliverInv
<1>5. ASSUME NEW p \in Producers, Unlock(p) PROVE HubInv'
  BY <1>5, UnlockInv
<1>6. ASSUME NEW v \in Viewers, Subscribe(v) \/ Unsubscribe(v) PROVE HubInv'
  BY <1>6, SubscribeInv
<1>7. ASSUME NEW v \in Viewers, NEW k \in Kinds, Receive(v, k) PROVE HubInv'
  BY <1>7, ReceiveInv
<1>8. CASE UNCHANGED vars
  BY <1>8 DEF vars, HubInv, TypeOK, Apart, OneHolder, InLoop, RoomMade, Room, AllRising, BelowSent,
              BelowNewest, ServesNewer, KeptOrOnItsWay, Kept, Active, NeverPanics
<1> QED
  BY <1>1, <1>2, <1>3, <1>4, <1>5, <1>6, <1>7, <1>8 DEF Next, Broadcasting

THEOREM HubInvHolds == Spec => []HubInv
<1> QED
  BY HubInvInit, HubInvNext, PTL DEF Spec

\* The hub is well typed, and no channel holds more than its capacity.
THEOREM TypeCorrect == Spec => []TypeOK
<1>1. HubInv => TypeOK
  BY DEF HubInv
<1> QED
  BY <1>1, HubInvHolds, PTL

\* A producer never sends on a closed channel: a broadcast serves the clients
\* it found under the mutex, and they leave under the mutex only.
THEOREM NeverPanicsHolds == Spec => []NeverPanics
<1>1. HubInv => NeverPanics
  BY DEF HubInv
<1> QED
  BY <1>1, HubInvHolds, PTL

\* Every viewer sees the messages of one kind in the order of the broadcasts,
\* each at most once, for any number of producers and any capacity.
THEOREM InOrderHolds == Spec => []InOrder
<1>1. HubInv => InOrder
  <2> SUFFICES ASSUME HubInv, NEW k \in Kinds, NEW v \in Viewers, NEW i \in 1..Len(chan[k][v])
               PROVE  (<<last[k][v]>> \o chan[k][v])[i] < (<<last[k][v]>> \o chan[k][v])[i + 1]
    BY DEF InOrder
  <2> DEFINE q == chan[k][v]
             r == <<last[k][v]>> \o q
  <2>1. q \in Seq(1..MaxMsgs) /\ Rising(last[k][v], q)
    BY DEF HubInv, TypeOK, AllRising
  <2>2. r[i + 1] = q[i]
    BY <2>1
  <2>3. CASE i = 1
    <3>1. r[1] = last[k][v]
      BY <2>1
    <3> QED
      BY <2>1, <2>2, <2>3, <3>1 DEF Rising
  <2>4. CASE i # 1
    <3>1. i - 1 \in 1..Len(q) /\ i - 1 < i /\ r[i] = q[i - 1]
      BY <2>1, <2>4
    <3> QED
      BY <2>1, <2>2, <3>1 DEF Rising
  <2> QED
    BY <2>3, <2>4
<1> QED
  BY <1>1, HubInvHolds, PTL

\* A slow viewer may miss messages, but never the newest one.
THEOREM NewestKeptHolds == Spec => []NewestKept
<1>1. HubInv => NewestKept
  <2> SUFFICES ASSUME HubInv, NEW k \in Kinds, NEW v \in clients, Idle(k)
               PROVE  \/ last[k][v] = newest[k][v]
                      \/ chan[k][v] # <<>> /\ Last(chan[k][v]) = newest[k][v]
    BY DEF NewestKept
  <2>1. v \in Viewers /\ v \notin closed
    BY DEF HubInv, TypeOK, Apart
  <2>2. Kept(k, v)
    BY <2>1 DEF HubInv, KeptOrOnItsWay, Idle
  <2> QED
    BY <2>2 DEF Kept, Last
<1> QED
  BY <1>1, HubInvHolds, PTL

-----------------------------------------------------------------------------
\* The page, its connections and those who broadcast use the hub as it is meant
\* to be used: each of their steps is one of the hub, or none.
THEOREM HubImplemented == PageSpec => Spec
<1>1. PageInit => Init
  BY DEF PageInit
<1>2. [PageNext]_allVars => [Next]_vars
  <2> SUFFICES ASSUME [PageNext]_allVars PROVE [Next]_vars
    OBVIOUS
  <2> USE ProducersAssumption, KindsAssumption
  <2>1. ASSUME NEW p \in {"callback", "loop"}, Frame(p) PROVE Next
    BY <2>1 DEF Frame, Next
  <2>2. CASE Power
    BY <2>2 DEF Power, Next
  <2>3. ASSUME NEW answer \in Answers, FocusTell(answer) PROVE Next
    BY <2>3 DEF FocusTell, Next
  <2>4. CASE NewSession \/ FocusEnds \/ \E forget \in BOOLEAN : FocusAsk(forget)
    BY <2>4 DEF NewSession, FocusEnds, FocusAsk
  <2>5. ASSUME NEW p \in Producers, Spread(p) PROVE Next
    BY <2>5 DEF Spread, Next
  <2>6. CASE SignIn \/ SignOut \/ Retry800 \/ LoadPage \/ Refresh
    BY <2>6 DEF SignIn, SignOut, Retry800, LoadPage, Refresh
  <2>7. ASSUME NEW v \in Viewers, Accept(v) \/ HandlerEnds(v) PROVE Next
    BY <2>7 DEF Accept, HandlerEnds, Next
  <2>8. ASSUME NEW v \in Viewers, Hangup(v) PROVE UNCHANGED vars
    BY <2>8 DEF Hangup
  <2>9. ASSUME NEW v \in Viewers, NEW k \in Kinds, Write(v, k) PROVE Next
    BY <2>9 DEF Write, Next
  <2>10. ASSUME NEW f \in decoding, Decoded(f) \/ DecodeFails(f) PROVE UNCHANGED vars
    BY <2>10 DEF Decoded, DecodeFails
  <2>11. CASE UNCHANGED allVars
    BY <2>11 DEF allVars
  <2> QED
    BY <2>1, <2>2, <2>3, <2>4, <2>5, <2>6, <2>7, <2>8, <2>9, <2>10, <2>11 DEF PageNext
<1> QED
  BY <1>1, <1>2, PTL DEF PageSpec, Spec

\* What the page knows of its connections, and that a page which is signed in has
\* been started: without that, a sign-in might start nothing.
LineInv ==
    /\ line \in [Viewers -> {"unused", "dialing", "open", "closed"}]
    /\ retries \in Nat /\ starts \in Nat
    /\ visible \in BOOLEAN /\ started = visible
    /\ StreamForEachStart

LEMMA StreamsFinite == IsFiniteSet(Streams) /\ Cardinality(Streams) \in Nat
  BY FiniteAssumption, FS_Subset, FS_CardinalityType DEF Streams

\* A page that dials has one stream more.
LEMMA OneMore ==
    ASSUME LineInv, NEW v \in Viewers, Dial(v)
    PROVE  /\ line' \in [Viewers -> {"unused", "dialing", "open", "closed"}]
           /\ Streams' # {} /\ Cardinality(Streams') = Cardinality(Streams) + 1
<1>1. line' \in [Viewers -> {"unused", "dialing", "open", "closed"}]
  BY DEF LineInv, Dial
<1>2. Streams' = Streams \cup {v} /\ v \notin Streams
  BY DEF LineInv, Dial, Streams
<1> QED
  BY <1>1, <1>2, StreamsFinite, FS_AddElement

LEMMA LineInvNext == LineInv /\ [PageNext]_allVars => LineInv'
<1> SUFFICES ASSUME LineInv, [PageNext]_allVars PROVE LineInv'
  OBVIOUS
<1>1. CASE SignIn
  <2>1. PICK v \in Viewers : Dial(v)
    BY <1>1 DEF SignIn, LineInv
  <2>2. visible' = TRUE /\ started' = TRUE /\ starts' = starts + 1 /\ retries' = retries
    BY <1>1 DEF SignIn
  <2> QED
    BY <2>1, <2>2, OneMore, StreamsFinite DEF LineInv, StreamForEachStart
<1>2. CASE SignOut
  BY <1>2 DEF SignOut, LineInv, StreamForEachStart, Streams
<1>3. CASE Retry800
  <2>1. /\ retries > 0 /\ retries' = retries - 1
        /\ visible' = visible /\ started' = started /\ starts' = starts
    BY <1>3 DEF Retry800
  <2>2. CASE visible
    <3>1. PICK v \in Viewers : Dial(v)
      BY <1>3, <2>2 DEF Retry800
    <3> QED
      BY <2>1, <3>1, OneMore, StreamsFinite DEF LineInv, StreamForEachStart
  <2>3. CASE ~visible
    <3>1. line' = line /\ Streams' = Streams
      BY <1>3, <2>3 DEF Retry800, Streams
    <3> QED
      BY <2>1, <2>3, <3>1, StreamsFinite DEF LineInv, StreamForEachStart
  <2> QED
    BY <2>2, <2>3
<1>4. CASE LoadPage
  <2>1. line' \in [Viewers -> {"unused", "dialing", "open", "closed"}] /\ Streams' = {}
    BY <1>4 DEF LoadPage, Streams
  <2>2. Cardinality(Streams') = 0
    BY <2>1, FS_EmptySet
  <2>3. visible' = FALSE /\ started' = FALSE /\ retries' = 0 /\ starts' = 0
    BY <1>4 DEF LoadPage
  <2>4. StreamForEachStart'
    BY <2>2, <2>3 DEF StreamForEachStart
  <2>5. started' = visible' /\ visible' \in BOOLEAN
    BY <2>3
  <2> QED
    BY <2>1, <2>3, <2>4, <2>5 DEF LineInv
<1>5. ASSUME NEW v \in Viewers, Accept(v) PROVE LineInv'
  <2>1. line' \in [Viewers -> {"unused", "dialing", "open", "closed"}] /\ Streams' = Streams
    BY <1>5 DEF Accept, LineInv, Streams
  <2> QED
    BY <1>5, <2>1 DEF Accept, LineInv, StreamForEachStart
<1>6. ASSUME NEW v \in Viewers, Hangup(v) PROVE LineInv'
  <2>1. /\ line' \in [Viewers -> {"unused", "dialing", "open", "closed"}]
        /\ v \in Streams /\ Streams' = Streams \ {v}
    BY <1>6 DEF Hangup, LineInv, Streams
  <2>2. Cardinality(Streams') = Cardinality(Streams) - 1
    BY <2>1, StreamsFinite, FS_RemoveElement
  <2> QED
    BY <1>6, <2>1, <2>2, StreamsFinite DEF Hangup, LineInv, StreamForEachStart
<1>7. ASSUME UNCHANGED lineVars PROVE LineInv'
  BY <1>7 DEF lineVars, LineInv, StreamForEachStart, Streams
<1>8. CASE UNCHANGED allVars
  BY <1>7, <1>8 DEF allVars, pageVars
<1>9. ASSUME NEW p \in {"callback", "loop"}, Frame(p) PROVE LineInv'
  BY <1>7, <1>9 DEF Frame, pageVars
<1>10. CASE Power \/ NewSession \/ FocusEnds \/ Refresh
  BY <1>7, <1>10 DEF Power, NewSession, FocusEnds, Refresh
<1>11. CASE (\E forget \in BOOLEAN : FocusAsk(forget)) \/ \E answer \in Answers : FocusTell(answer)
  BY <1>7, <1>11 DEF FocusAsk, FocusTell
<1>12. ASSUME NEW p \in Producers, Spread(p) PROVE LineInv'
  BY <1>7, <1>12 DEF Spread
<1>13. ASSUME NEW v \in Viewers, HandlerEnds(v) PROVE LineInv'
  BY <1>7, <1>13 DEF HandlerEnds, pageVars
<1>14. ASSUME NEW v \in Viewers, NEW k \in Kinds, Write(v, k) PROVE LineInv'
  BY <1>7, <1>14 DEF Write
<1>15. ASSUME NEW f \in decoding, Decoded(f) \/ DecodeFails(f) PROVE LineInv'
  BY <1>7, <1>15 DEF Decoded, DecodeFails
<1> QED
  BY <1>1, <1>2, <1>3, <1>4, <1>5, <1>6, <1>8, <1>9, <1>10, <1>11, <1>12, <1>13, <1>14, <1>15
  DEF PageNext

LEMMA LineInvInit == PageInit => LineInv
<1> SUFFICES ASSUME PageInit PROVE LineInv
  OBVIOUS
<1>1. Streams = {}
  BY DEF PageInit, Streams
<1>2. Cardinality(Streams) = 0
  BY <1>1, FS_EmptySet
<1>3. visible = FALSE /\ started = FALSE /\ retries = 0 /\ starts = 0
  BY DEF PageInit
<1>4. StreamForEachStart
  BY <1>2, <1>3 DEF StreamForEachStart
<1>5. started = visible /\ visible \in BOOLEAN
  BY <1>3
<1> QED
  BY <1>3, <1>4, <1>5 DEF PageInit, LineInv

\* A signed-in page has a stream or will dial one, and never more of them than
\* sign-ins, for any number of connections and whatever ends them.
THEOREM StreamForEachStartHolds == PageSpec => []StreamForEachStart
<1>1. LineInv => StreamForEachStart
  BY DEF LineInv
<1> QED
  BY <1>1, LineInvInit, LineInvNext, PTL DEF PageSpec


-----------------------------------------------------------------------------
(* The picture. *)

PictureTyped ==
    /\ picture \in Urls \cup {NoPicture} /\ urls \subseteq Urls
    /\ decoding \subseteq [url : Urls, prev : Urls \cup {NoPicture}]
    /\ crossed \in BOOLEAN /\ leaked \in BOOLEAN

\* An image that is loading has a URL of its own, which is not shown yet and
\* which no other one will revoke.
LoadsApart ==
    /\ picture # NoPicture => picture \in urls
    /\ \A f \in decoding : f.url \in urls /\ f.url # picture
    /\ \A f, g \in decoding : f.url # g.prev /\ (f.url = g.url => f = g)

\* A URL of a frame is of one that has come.
HasCome(u) == \A v \in Viewers, n \in Nat : u = <<v, n>> => n <= last["frames"][v]

AllHaveCome ==
    /\ \A u \in urls : HasCome(u)
    /\ \A f \in decoding : HasCome(f.prev)

\* As long as no two images have been loading at once, there is the picture, and
\* perhaps the one that will take its place.
OneAtATime ==
    ~leaked =>
        /\ urls \subseteq {picture} \cup {f.url : f \in decoding}
        /\ \A f, g \in decoding : f = g
        /\ \A f \in decoding : f.prev = picture

PictureInv == PictureTyped /\ LoadsApart /\ AllHaveCome /\ OneAtATime

LEMMA UrlFacts ==
    /\ Reload \in Urls /\ NoPicture \notin Urls
    /\ \A v \in Viewers, n \in 1..MaxMsgs : <<v, n>> \in Urls /\ <<v, n>> # Reload
    /\ \A v \in Viewers, n \in Nat : <<v, n>> = Reload \/ <<v, n>> = NoPicture => n = 0
<1>1. \A v, n : <<v, n>> = Reload \/ <<v, n>> = NoPicture => n = 0
  BY DEF Reload, NoPicture
<1>2. Reload # NoPicture
  BY DEF Reload, NoPicture
<1>3. NoPicture \notin Viewers \X (1..MaxMsgs)
  BY <1>1, MaxMsgsAssumption
<1> QED
  BY <1>1, <1>2, <1>3, MaxMsgsAssumption DEF Urls

LEMMA FramesTyped ==
    ASSUME HubInv, HubInv'
    PROVE  \A v \in Viewers : last["frames"][v] \in Nat /\ last'["frames"][v] \in Nat
<1>1. last \in [Kinds -> [Viewers -> 0..MaxMsgs]] /\ last' \in [Kinds -> [Viewers -> 0..MaxMsgs]]
  BY DEF HubInv, TypeOK
<1>2. "frames" \in Kinds /\ 0..MaxMsgs \subseteq Nat
  BY KindsAssumption, MaxMsgsAssumption
<1> QED
  BY <1>1, <1>2

\* What a viewer has received only grows.
FramesGrow == \A v \in Viewers : last["frames"][v] <= last'["frames"][v]

LEMMA StayCome ==
    ASSUME HubInv, HubInv', FramesGrow, NEW u, HasCome(u)
    PROVE  HasCome(u)'
<1> SUFFICES ASSUME NEW v \in Viewers, NEW n \in Nat, u = <<v, n>> PROVE n <= last'["frames"][v]
  BY DEF HasCome
<1>1. last["frames"][v] \in Nat /\ last'["frames"][v] \in Nat
  BY FramesTyped
<1> QED
  BY <1>1 DEF HasCome, FramesGrow

LEMMA PictureUnchanged ==
    ASSUME HubInv, HubInv', PictureInv, FramesGrow, UNCHANGED pictureVars
    PROVE  PictureInv'
<1>1. PictureTyped' /\ LoadsApart' /\ OneAtATime'
  BY DEF PictureInv, PictureTyped, LoadsApart, OneAtATime, pictureVars
<1>2. AllHaveCome'
  BY StayCome DEF PictureInv, AllHaveCome, pictureVars
<1> QED
  BY <1>1, <1>2 DEF PictureInv

LEMMA ApplyInv ==
    ASSUME HubInv, HubInv', PictureInv, FramesGrow, NEW url \in Urls, ApplyFrame(url),
           url \notin urls, \A f \in decoding : f.prev # url, HasCome(url)'
    PROVE  PictureInv'
<1> DEFINE new == [url |-> url, prev |-> picture]
<1>1. /\ decoding' = decoding \cup {new} /\ urls' = urls \cup {url} /\ picture' = picture
      /\ leaked' = (leaked \/ decoding # {}) /\ crossed' = (decoding # {} \/ url = Reload)
  BY DEF ApplyFrame
<1>2. new \in [url : Urls, prev : Urls \cup {NoPicture}] /\ new.url = url /\ new.prev = picture
  BY DEF PictureInv, PictureTyped
<1>3. url # picture /\ \A f \in decoding : f.url # url /\ f.url # picture
  BY UrlFacts DEF PictureInv, LoadsApart
<1> HIDE DEF new
<1>4. PictureTyped'
  BY <1>1, <1>2 DEF PictureInv, PictureTyped
<1>5. LoadsApart'
  BY <1>1, <1>2, <1>3 DEF PictureInv, LoadsApart
<1>6. AllHaveCome'
  <2>1. HasCome(picture)
    <3>1. CASE picture = NoPicture
      <4>1. \A v \in Viewers : 0 <= last["frames"][v]
        BY FramesTyped
      <4> QED
        BY <3>1, <4>1, UrlFacts DEF HasCome
    <3> QED
      BY <3>1 DEF PictureInv, LoadsApart, AllHaveCome
  <2> QED
    BY <1>1, <1>2, <2>1, StayCome DEF PictureInv, AllHaveCome
<1>7. OneAtATime'
  <2> SUFFICES ASSUME ~leaked' PROVE /\ urls' \subseteq {picture'} \cup {f.url : f \in decoding'}
                                     /\ \A f, g \in decoding' : f = g
                                     /\ \A f \in decoding' : f.prev = picture'
    BY DEF OneAtATime
  <2>1. ~leaked /\ decoding = {}
    BY <1>1
  <2>2. urls \subseteq {picture}
    BY <2>1 DEF PictureInv, OneAtATime
  <2> QED
    BY <1>1, <1>2, <2>1, <2>2
<1> QED
  BY <1>4, <1>5, <1>6, <1>7 DEF PictureInv

\* An image that has been loaded becomes the picture, and the one it was to
\* replace is revoked.
LEMMA DecodedInv ==
    ASSUME HubInv, HubInv', PictureInv, NEW f \in decoding, Decoded(f)
    PROVE  PictureInv'
<1>1. /\ decoding' = decoding \ {f} /\ picture' = f.url /\ urls' = urls \ {f.prev}
      /\ UNCHANGED <<crossed, leaked, last>>
  BY DEF Decoded, vars
<1>2. /\ f.url \in urls /\ f.url \in Urls /\ f.url # f.prev
      /\ \A g \in decoding : g.url # f.prev /\ f.url # g.prev /\ (g.url = f.url => g = f)
  BY DEF PictureInv, PictureTyped, LoadsApart
<1>3. PictureTyped'
  BY <1>1, <1>2 DEF PictureInv, PictureTyped
<1>4. LoadsApart'
  BY <1>1, <1>2 DEF PictureInv, LoadsApart
<1>5. AllHaveCome'
  BY <1>1, StayCome DEF PictureInv, AllHaveCome, HasCome
<1>6. OneAtATime'
  BY <1>1, <1>2 DEF PictureInv, OneAtATime
<1> QED
  BY <1>3, <1>4, <1>5, <1>6 DEF PictureInv

LEMMA DecodeFailsInv ==
    ASSUME HubInv, HubInv', PictureInv, NEW f \in decoding, DecodeFails(f)
    PROVE  PictureInv'
<1>1. /\ decoding' = decoding \ {f} /\ picture' = picture /\ urls' = urls \ {f.url}
      /\ crossed' = TRUE /\ UNCHANGED <<leaked, last>>
  BY DEF DecodeFails, vars
<1>2. /\ f.url \in urls /\ f.url # picture
      /\ \A g \in decoding : g.url = f.url => g = f
  BY DEF PictureInv, LoadsApart
<1>3. PictureTyped'
  BY <1>1 DEF PictureInv, PictureTyped
<1>4. LoadsApart'
  BY <1>1, <1>2 DEF PictureInv, LoadsApart
<1>5. AllHaveCome'
  BY <1>1 DEF PictureInv, AllHaveCome, HasCome
<1>6. OneAtATime'
  BY <1>1, <1>2 DEF PictureInv, OneAtATime
<1> QED
  BY <1>3, <1>4, <1>5, <1>6 DEF PictureInv

\* A message that is received is a later one than those before.
LEMMA Received ==
    ASSUME HubInv, NEW v \in Viewers, NEW k \in Kinds, Receive(v, k)
    PROVE  /\ v \in clients /\ chan[k][v] # <<>>
           /\ Head(chan[k][v]) \in 1..MaxMsgs /\ last[k][v] < Head(chan[k][v])
           /\ last'[k][v] = Head(chan[k][v])
           /\ \A i \in Kinds, u \in Viewers : <<i, u>> # <<k, v>> => last'[i][u] = last[i][u]
<1>1. v \in clients /\ chan[k][v] # <<>> /\ last' = [last EXCEPT ![k][v] = Head(chan[k][v])]
  BY DEF Receive
<1>2. chan[k][v] \in Seq(1..MaxMsgs) /\ last[k][v] \in 0..MaxMsgs
  BY DEF HubInv, TypeOK
<1>3. Head(chan[k][v]) = chan[k][v][1] /\ 1 \in 1..Len(chan[k][v]) /\ Head(chan[k][v]) \in 1..MaxMsgs
  <2> DEFINE q == chan[k][v]
  <2>1. q \in Seq(1..MaxMsgs) /\ q # <<>>
    BY <1>1, <1>2
  <2> HIDE DEF q
  <2>2. Head(q) = q[1] /\ Len(q) \in Nat /\ Len(q) > 0 /\ Head(q) \in 1..MaxMsgs
    BY ONLY <2>1, TailFacts
  <2> QED
    BY <2>2 DEF q
<1>4. last[k][v] < Head(chan[k][v])
  BY <1>3 DEF HubInv, AllRising, Rising
<1>5. Head(chan[k][v]) \in 0..MaxMsgs /\ last \in [Kinds -> [Viewers -> 0..MaxMsgs]]
  BY <1>3, MaxMsgsAssumption DEF HubInv, TypeOK
<1>6. /\ last'[k][v] = Head(chan[k][v])
      /\ \A i \in Kinds, u \in Viewers : <<i, u>> # <<k, v>> => last'[i][u] = last[i][u]
  BY ONLY <1>1, <1>5, OneUpdate
<1> QED
  BY <1>1, <1>3, <1>4, <1>6

\* Nothing else changes what has been received.
LEMMA OnlyReceive ==
    ASSUME HubInv, [PageNext]_allVars,
           ~ \E v \in Viewers, k \in Kinds : Write(v, k)
    PROVE  last' = last
<1> USE DEF vars
<1>1. ASSUME NEW p \in {"callback", "loop"}, Frame(p) PROVE last' = last
  BY <1>1 DEF Frame, Lock
<1>2. CASE Power \/ NewSession \/ FocusEnds \/ Refresh
  BY <1>2 DEF Power, NewSession, FocusEnds, Refresh, Lock
<1>3. CASE (\E forget \in BOOLEAN : FocusAsk(forget)) \/ \E answer \in Answers : FocusTell(answer)
  BY <1>3 DEF FocusAsk, FocusTell, Lock
<1>4. ASSUME NEW p \in Producers, Spread(p) PROVE last' = last
  BY <1>4 DEF Spread, Broadcasting, TrySend, Evict, Retry, Unlock
<1>5. ASSUME NEW v \in Viewers, Accept(v) \/ Hangup(v) \/ HandlerEnds(v) PROVE last' = last
  BY <1>5 DEF Accept, Hangup, HandlerEnds, Subscribe, Unsubscribe
<1>6. CASE SignIn \/ SignOut \/ Retry800 \/ LoadPage
  BY <1>6 DEF SignIn, SignOut, Retry800, LoadPage
<1>7. ASSUME NEW f \in decoding, Decoded(f) \/ DecodeFails(f) PROVE last' = last
  BY <1>7 DEF Decoded, DecodeFails
<1>8. CASE UNCHANGED allVars
  BY <1>8 DEF allVars
<1> QED
  BY <1>1, <1>2, <1>3, <1>4, <1>5, <1>6, <1>7, <1>8 DEF PageNext

LEMMA PictureInvNext ==
    ASSUME HubInv, HubInv', PictureInv, [PageNext]_allVars
    PROVE  PictureInv'
<1>0. \A v \in Viewers : last["frames"][v] \in Nat /\ last'["frames"][v] \in Nat
  BY FramesTyped
<1>1. ASSUME NEW v \in Viewers, NEW k \in Kinds, Write(v, k) PROVE PictureInv'
  <2>1. Receive(v, k)
    BY <1>1 DEF Write
  <2>2. FramesGrow
    BY <2>1, <1>0, Received, KindsAssumption DEF FramesGrow
  <2>3. CASE k = "frames" /\ line[v] = "open"
    <3>1. PICK n \in 1..MaxMsgs : n = Head(chan[k][v])
      BY <2>1, Received
    <3>2. ApplyFrame(<<v, n>>)
      BY <1>1, <2>3, <3>1 DEF Write
    <3>3. last["frames"][v] < n /\ last'["frames"][v] = n
      BY <2>1, <2>3, <3>1, Received
    <3>4. ~ HasCome(<<v, n>>)
      BY <3>3, <1>0, MaxMsgsAssumption DEF HasCome
    <3>5. HasCome(<<v, n>>)'
      BY <3>3, <1>0 DEF HasCome
    <3>6. <<v, n>> \in Urls
      BY UrlFacts
    <3>7. <<v, n>> \notin urls /\ \A f \in decoding : f.prev # <<v, n>>
      BY <3>4 DEF PictureInv, AllHaveCome
    <3> QED
      BY <2>2, <3>2, <3>5, <3>6, <3>7, ApplyInv
  <2>4. CASE ~(k = "frames" /\ line[v] = "open")
    BY <1>1, <2>2, <2>4, PictureUnchanged DEF Write
  <2> QED
    BY <2>3, <2>4
<1> SUFFICES ASSUME ~ \E v \in Viewers, k \in Kinds : Write(v, k) PROVE PictureInv'
  BY <1>1
<1>2. last' = last /\ FramesGrow
  BY <1>0, OnlyReceive DEF FramesGrow
<1>3. CASE UNCHANGED pictureVars
  BY <1>2, <1>3, PictureUnchanged
<1>4. CASE Refresh
  <2>1. ApplyFrame(Reload) /\ Reload \notin urls /\ \A f \in decoding : f.prev # Reload
    BY <1>4 DEF Refresh
  <2>2. HasCome(Reload)'
    BY <1>0, UrlFacts DEF HasCome
  <2> QED
    BY <1>2, <2>1, <2>2, UrlFacts, ApplyInv
<1>5. CASE LoadPage
  <2>1. picture' = NoPicture /\ decoding' = {} /\ urls' = {} /\ crossed' = FALSE /\ leaked' = FALSE
    BY <1>5 DEF LoadPage
  <2> QED
    BY <2>1 DEF PictureInv, PictureTyped, LoadsApart, AllHaveCome, OneAtATime
<1>6. ASSUME NEW f \in decoding, Decoded(f) \/ DecodeFails(f) PROVE PictureInv'
  BY <1>6, DecodedInv, DecodeFailsInv
<1> USE DEF pictureVars
<1>7. ASSUME NEW p \in {"callback", "loop"}, Frame(p) PROVE PictureInv'
  BY <1>3, <1>7 DEF Frame, pageVars
<1>8. CASE Power \/ NewSession \/ FocusEnds
  BY <1>3, <1>8 DEF Power, NewSession, FocusEnds
<1>9. CASE (\E forget \in BOOLEAN : FocusAsk(forget)) \/ \E answer \in Answers : FocusTell(answer)
  BY <1>3, <1>9 DEF FocusAsk, FocusTell
<1>10. ASSUME NEW p \in Producers, Spread(p) PROVE PictureInv'
  BY <1>3, <1>10 DEF Spread
<1>11. ASSUME NEW v \in Viewers, Accept(v) \/ Hangup(v) \/ HandlerEnds(v) PROVE PictureInv'
  BY <1>3, <1>11 DEF Accept, Hangup, HandlerEnds, pageVars
<1>12. CASE SignIn \/ SignOut \/ Retry800
  BY <1>3, <1>12 DEF SignIn, SignOut, Retry800
<1>13. CASE UNCHANGED allVars
  BY <1>3, <1>13 DEF allVars, pageVars
<1> QED
  BY <1>4, <1>5, <1>6, <1>7, <1>8, <1>9, <1>10, <1>11, <1>12, <1>13 DEF PageNext

-----------------------------------------------------------------------------
(* The stream of the page. *)

\* A connection that has been subscribed is open or over, and the others have
\* received nothing.
Fresh ==
    \A v \in Viewers :
        IF v \in clients \cup closed THEN line[v] \in {"open", "closed"}
                                     ELSE \A k \in Kinds : last[k][v] = 0

\* The newest frame is the picture, or the one image that is loading.
ShowsNewest ==
    ~crossed =>
        /\ \A f, g \in decoding : f = g
        /\ \A v \in Viewers : OnlyStream(v) /\ last["frames"][v] > 0 =>
              \/ decoding = {} /\ picture = <<v, last["frames"][v]>>
              \/ \E f \in decoding : f.url = <<v, last["frames"][v]>>

LEMMA OneStream ==
    ASSUME LineInv, starts = 1, NEW v \in Streams, NEW u \in Streams
    PROVE  u = v
<1>1. Cardinality(Streams \ {v}) = Cardinality(Streams) - 1 /\ IsFiniteSet(Streams \ {v})
  BY StreamsFinite, FS_RemoveElement, FS_Subset
<1>2. Cardinality(Streams) <= 1 /\ Cardinality(Streams \ {v}) \in Nat
  BY <1>1, StreamsFinite, FS_CardinalityType DEF LineInv, StreamForEachStart
<1>3. Streams \ {v} = {}
  BY <1>1, <1>2, StreamsFinite, FS_EmptySet
<1> QED
  BY <1>3

LEMMA NoStream ==
    ASSUME LineInv, starts = 0
    PROVE  \A v \in Viewers : line[v] # "open"
<1>1. Cardinality(Streams) = 0
  BY StreamsFinite DEF LineInv, StreamForEachStart
<1>2. Streams = {}
  BY <1>1, StreamsFinite, FS_EmptySet
<1> QED
  BY <1>2 DEF Streams

\* Only by being subscribed does a connection become the page's only stream.
LEMMA BecomesOnly ==
    ASSUME LineInv, [PageNext]_allVars, NEW v \in Viewers, OnlyStream(v)'
    PROVE  OnlyStream(v) \/ Accept(v)
<1>1. starts' = 1 /\ line'[v] = "open" /\ v \in clients'
  BY DEF OnlyStream
<1> USE DEF OnlyStream
<1>2. ASSUME UNCHANGED <<starts, line, clients>> PROVE OnlyStream(v)
  BY <1>1, <1>2
<1>3. CASE SignIn
  <2>1. starts' = starts + 1 /\ starts \in Nat
    BY <1>3 DEF SignIn, LineInv
  <2>2. \A u \in Viewers : line[u] # "open"
    BY <1>1, <2>1, NoStream
  <2>3. line'[v] # "open"
    BY <1>3, <2>2 DEF SignIn, Dial, LineInv
  <2> QED
    BY <1>1, <2>3
<1>4. CASE SignOut
  BY <1>2, <1>4 DEF SignOut, vars
<1>5. CASE Retry800
  BY <1>1, <1>5 DEF Retry800, Dial, LineInv, vars
<1>6. CASE LoadPage
  BY <1>1, <1>6 DEF LoadPage
<1>7. ASSUME NEW u \in Viewers, Accept(u), u # v PROVE OnlyStream(v)
  BY <1>1, <1>7 DEF Accept, Subscribe, LineInv
<1>8. ASSUME NEW u \in Viewers, Hangup(u) PROVE OnlyStream(v)
  BY <1>1, <1>8 DEF Hangup, LineInv, vars
<1>9. ASSUME NEW u \in Viewers, HandlerEnds(u) PROVE OnlyStream(v)
  BY <1>1, <1>9 DEF HandlerEnds, Unsubscribe, pageVars, lineVars
<1> USE DEF vars, lineVars, pageVars
<1>10. ASSUME NEW p \in {"callback", "loop"}, Frame(p) PROVE OnlyStream(v)
  BY <1>2, <1>10 DEF Frame, Lock
<1>11. CASE Power \/ NewSession \/ FocusEnds \/ Refresh
  BY <1>2, <1>11 DEF Power, NewSession, FocusEnds, Refresh, Lock
<1>12. CASE (\E forget \in BOOLEAN : FocusAsk(forget)) \/ \E answer \in Answers : FocusTell(answer)
  BY <1>2, <1>12 DEF FocusAsk, FocusTell, Lock
<1>13. ASSUME NEW p \in Producers, Spread(p) PROVE OnlyStream(v)
  BY <1>2, <1>13 DEF Spread, Broadcasting, TrySend, Evict, Retry, Unlock
<1>14. ASSUME NEW u \in Viewers, NEW k \in Kinds, Write(u, k) PROVE OnlyStream(v)
  BY <1>2, <1>14 DEF Write, Receive
<1>15. ASSUME NEW f \in decoding, Decoded(f) \/ DecodeFails(f) PROVE OnlyStream(v)
  BY <1>2, <1>15 DEF Decoded, DecodeFails
<1>16. CASE UNCHANGED allVars
  BY <1>2, <1>16 DEF allVars
<1> QED
  BY <1>3, <1>4, <1>5, <1>6, <1>7, <1>8, <1>9, <1>10, <1>11, <1>12, <1>13, <1>14, <1>15, <1>16
  DEF PageNext

LEMMA FreshNext ==
    ASSUME HubInv, LineInv, Fresh, [PageNext]_allVars
    PROVE  Fresh'
<1>1. ASSUME UNCHANGED <<clients, closed, last, line>> PROVE Fresh'
  BY <1>1 DEF Fresh
<1>2. ASSUME NEW v \in Viewers, Dial(v), UNCHANGED vars PROVE Fresh'
  BY <1>2 DEF Fresh, Dial, LineInv, vars
<1> USE DEF vars
<1>3. CASE SignIn \/ Retry800
  BY <1>1, <1>2, <1>3 DEF SignIn, Retry800
<1>4. CASE LoadPage
  <2>1. \A v \in Viewers : line'[v] = IF line[v] = "unused" THEN "unused" ELSE "closed"
    BY <1>4 DEF LoadPage
  <2> QED
    BY <1>4, <2>1 DEF LoadPage, Fresh
<1>5. ASSUME NEW v \in Viewers, Accept(v) PROVE Fresh'
  BY <1>5 DEF Accept, Subscribe, Fresh, LineInv
<1>6. ASSUME NEW v \in Viewers, Hangup(v) PROVE Fresh'
  BY <1>6 DEF Hangup, Fresh, LineInv
<1>7. ASSUME NEW v \in Viewers, HandlerEnds(v) PROVE Fresh'
  BY <1>7 DEF HandlerEnds, Unsubscribe, Fresh, pageVars, lineVars
<1>8. ASSUME NEW v \in Viewers, NEW k \in Kinds, Write(v, k) PROVE Fresh'
  <2>1. Receive(v, k) /\ UNCHANGED <<clients, closed, line>>
    BY <1>8 DEF Write, Receive, lineVars
  <2>2. v \in clients /\ \A i \in Kinds, u \in Viewers : u # v => last'[i][u] = last[i][u]
    BY <2>1, Received
  <2> QED
    BY <2>1, <2>2 DEF Fresh
<1> USE DEF lineVars, pageVars
<1>9. ASSUME NEW p \in {"callback", "loop"}, Frame(p) PROVE Fresh'
  BY <1>1, <1>9 DEF Frame, Lock
<1>10. CASE Power \/ NewSession \/ FocusEnds \/ Refresh \/ SignOut
  BY <1>1, <1>10 DEF Power, NewSession, FocusEnds, Refresh, SignOut, Lock
<1>11. CASE (\E forget \in BOOLEAN : FocusAsk(forget)) \/ \E answer \in Answers : FocusTell(answer)
  BY <1>1, <1>11 DEF FocusAsk, FocusTell, Lock
<1>12. ASSUME NEW p \in Producers, Spread(p) PROVE Fresh'
  BY <1>1, <1>12 DEF Spread, Broadcasting, TrySend, Evict, Retry, Unlock
<1>13. ASSUME NEW f \in decoding, Decoded(f) \/ DecodeFails(f) PROVE Fresh'
  BY <1>1, <1>13 DEF Decoded, DecodeFails
<1>14. CASE UNCHANGED allVars
  BY <1>1, <1>14 DEF allVars
<1> QED
  BY <1>3, <1>4, <1>5, <1>6, <1>7, <1>8, <1>9, <1>10, <1>11, <1>12, <1>13, <1>14 DEF PageNext

LEMMA ShowsNewestNext ==
    ASSUME HubInv, HubInv', LineInv, Fresh, PictureInv, ShowsNewest, [PageNext]_allVars
    PROVE  ShowsNewest'
<1>1. ASSUME UNCHANGED <<picture, decoding, crossed>>, last' = last PROVE ShowsNewest'
  <2>1. \A v \in Viewers : OnlyStream(v)' /\ last["frames"][v] > 0 => OnlyStream(v)
    <3> SUFFICES ASSUME NEW v \in Viewers, OnlyStream(v)', last["frames"][v] > 0, Accept(v)
                 PROVE  FALSE
      BY BecomesOnly
    <3>1. v \notin clients \cup closed
      BY DEF Accept, Subscribe
    <3> QED
      BY <3>1, KindsAssumption DEF Fresh
  <2> QED
    BY <1>1, <2>1 DEF ShowsNewest
<1>2. ASSUME NEW v \in Viewers, NEW k \in Kinds, Write(v, k) PROVE ShowsNewest'
  <2>1. Receive(v, k) /\ UNCHANGED <<starts, line, clients>>
    BY <1>2 DEF Write, Receive, lineVars
  <2>2. \A u \in Viewers : OnlyStream(u)' <=> OnlyStream(u)
    BY <2>1 DEF OnlyStream
  <2>3. CASE k = "frames" /\ line[v] = "open"
    <3>1. PICK n \in 1..MaxMsgs : n = Head(chan[k][v])
      BY <2>1, Received
    <3> DEFINE new == [url |-> <<v, n>>, prev |-> picture]
    <3>2. /\ decoding' = decoding \cup {new}
          /\ crossed' = (decoding # {} \/ <<v, n>> = Reload)
      BY <1>2, <2>3, <3>1 DEF Write, ApplyFrame
    <3>3. last'["frames"][v] = n /\ new.url = <<v, n>>
      BY <2>1, <2>3, <3>1, Received
    <3> HIDE DEF new
    <3>4. \A u \in Viewers : OnlyStream(u) => u = v
      <4> SUFFICES ASSUME NEW u \in Viewers, OnlyStream(u) PROVE u = v
        OBVIOUS
      <4> QED
        BY <2>3, OneStream DEF OnlyStream, Streams
    <3> SUFFICES ASSUME ~crossed' PROVE /\ \A f, g \in decoding' : f = g
                                        /\ \E f \in decoding' : f.url = <<v, last'["frames"][v]>>
      BY <2>2, <3>4 DEF ShowsNewest
    <3>5. decoding' = {new}
      BY <3>2
    <3> QED
      BY <3>3, <3>5
  <2>4. CASE k = "frames" /\ line[v] # "open"
    <3>1. \A u \in Viewers : OnlyStream(u) => last'["frames"][u] = last["frames"][u]
      BY <2>1, <2>4, Received DEF OnlyStream
    <3>2. UNCHANGED <<picture, decoding, crossed>>
      BY <1>2, <2>4 DEF Write, pictureVars
    <3> QED
      BY <2>2, <3>1, <3>2 DEF ShowsNewest
  <2>5. CASE k # "frames"
    <3>1. \A u \in Viewers : last'["frames"][u] = last["frames"][u]
      BY <2>1, <2>5, Received, KindsAssumption
    <3>2. UNCHANGED <<picture, decoding, crossed>>
      BY <1>2, <2>5 DEF Write, pictureVars
    <3> QED
      BY <2>2, <3>1, <3>2 DEF ShowsNewest
  <2> QED
    BY <2>3, <2>4, <2>5
<1> SUFFICES ASSUME ~ \E v \in Viewers, k \in Kinds : Write(v, k) PROVE ShowsNewest'
  BY <1>2
<1>3. last' = last
  BY OnlyReceive
<1>4. CASE Refresh
  <2>1. crossed' = TRUE
    BY <1>4 DEF Refresh, ApplyFrame
  <2> QED
    BY <2>1 DEF ShowsNewest
<1>5. CASE LoadPage
  <2>1. decoding' = {} /\ starts' = 0
    BY <1>5 DEF LoadPage
  <2> QED
    BY <2>1 DEF ShowsNewest, OnlyStream
<1>6. ASSUME NEW f \in decoding, Decoded(f) PROVE ShowsNewest'
  <2>1. /\ decoding' = decoding \ {f} /\ picture' = f.url /\ crossed' = crossed
        /\ UNCHANGED <<starts, line, clients>>
    BY <1>6 DEF Decoded, lineVars, vars
  <2>2. \A u \in Viewers : OnlyStream(u)' <=> OnlyStream(u)
    BY <2>1 DEF OnlyStream
  <2> SUFFICES ASSUME ~crossed'
               PROVE  /\ \A g, h \in decoding' : g = h
                      /\ \A v \in Viewers : OnlyStream(v) /\ last["frames"][v] > 0 =>
                            decoding' = {} /\ picture' = <<v, last["frames"][v]>>
    BY <1>3, <2>2 DEF ShowsNewest
  <2>3. \A g \in decoding : g = f
    BY <2>1 DEF ShowsNewest
  <2>4. decoding' = {}
    BY <2>1, <2>3
  <2> QED
    BY <2>1, <2>3, <2>4 DEF ShowsNewest
<1>7. ASSUME NEW f \in decoding, DecodeFails(f) PROVE ShowsNewest'
  <2>1. crossed' = TRUE
    BY <1>7 DEF DecodeFails
  <2> QED
    BY <2>1 DEF ShowsNewest
<1> USE DEF pictureVars, pageVars
<1>8. ASSUME NEW p \in {"callback", "loop"}, Frame(p) PROVE ShowsNewest'
  BY <1>1, <1>3, <1>8 DEF Frame
<1>9. CASE Power \/ NewSession \/ FocusEnds \/ SignIn \/ SignOut \/ Retry800
  BY <1>1, <1>3, <1>9 DEF Power, NewSession, FocusEnds, SignIn, SignOut, Retry800
<1>10. CASE (\E forget \in BOOLEAN : FocusAsk(forget)) \/ \E answer \in Answers : FocusTell(answer)
  BY <1>1, <1>3, <1>10 DEF FocusAsk, FocusTell
<1>11. ASSUME NEW p \in Producers, Spread(p) PROVE ShowsNewest'
  BY <1>1, <1>3, <1>11 DEF Spread
<1>12. ASSUME NEW v \in Viewers, Accept(v) \/ Hangup(v) \/ HandlerEnds(v) PROVE ShowsNewest'
  BY <1>1, <1>3, <1>12 DEF Accept, Hangup, HandlerEnds
<1>13. CASE UNCHANGED allVars
  BY <1>1, <1>3, <1>13 DEF allVars
<1> QED
  BY <1>4, <1>5, <1>6, <1>7, <1>8, <1>9, <1>10, <1>11, <1>12, <1>13 DEF PageNext

-----------------------------------------------------------------------------
(* The mode of the field. *)

\* Messages numbered in q, with w[n] for what the n-th one says: none of them is
\* news, or the last one that is says a.
Silent(w, q) == \A i \in 1..Len(q) : w[q[i]] = {}
LastSays(w, q, a) ==
    \E i \in 1..Len(q) : w[q[i]] = a /\ \A j \in 1..Len(q) : i < j => w[q[j]] = {}

\* The messages have been told by the loop, and by nobody else.
NewsKnown ==
    /\ what \in Seq({{}} \cup Answers) /\ Len(what) = sent["status"]
    /\ told \in {{}} \cup Answers
    /\ focus \in BOOLEAN /\ mode \in BOOLEAN /\ missed \subseteq Viewers
    /\ focus => job["loop"].step = "idle"
    /\ \A p \in Producers :
          Active(p) /\ job[p].kind = "status" /\ News(job[p].msg)
              => p = "loop" /\ what[job[p].msg] = told

OnItsWay(v) ==
    \E p \in Producers :
        Active(p) /\ job[p].kind = "status" /\ v \in job[p].todo /\ News(job[p].msg)

\* What has been told last is being broadcast, or is the last news in the
\* channel, or is what the page does.
HasOrGets(v) ==
    \/ OnItsWay(v)
    \/ LastSays(what, chan["status"][v], told)
    \/ Silent(what, chan["status"][v]) /\ told = {mode}

ModeTold ==
    \A v \in Viewers : OnlyStream(v) /\ v \notin missed /\ told # {} => HasOrGets(v)

LEMMA SaysAppend ==
    ASSUME NEW w, NEW a, NEW q \in Seq(Nat), NEW m \in Nat
    PROVE  /\ w[m] = a => LastSays(w, Append(q, m), a)
           /\ w[m] = {} /\ LastSays(w, q, a) => LastSays(w, Append(q, m), a)
           /\ w[m] = {} /\ Silent(w, q) => Silent(w, Append(q, m))
<1> DEFINE r == Append(q, m)
<1>1. /\ Len(q) \in Nat /\ Len(r) = Len(q) + 1 /\ r[Len(q) + 1] = m
      /\ \A i \in 1..Len(q) : r[i] = q[i]
  OBVIOUS
<1> HIDE DEF r
<1>2. w[m] = a => LastSays(w, r, a)
  <2> SUFFICES ASSUME w[m] = a PROVE LastSays(w, r, a)
    OBVIOUS
  <2>1. Len(q) + 1 \in 1..Len(r) /\ \A j \in 1..Len(r) : ~(Len(q) + 1 < j)
    BY <1>1
  <2> QED
    BY <1>1, <2>1 DEF LastSays
<1>3. w[m] = {} /\ LastSays(w, q, a) => LastSays(w, r, a)
  <2> SUFFICES ASSUME w[m] = {}, LastSays(w, q, a) PROVE LastSays(w, r, a)
    OBVIOUS
  <2>1. PICK i \in 1..Len(q) : w[q[i]] = a /\ \A j \in 1..Len(q) : i < j => w[q[j]] = {}
    BY DEF LastSays
  <2>2. i \in 1..Len(r) /\ w[r[i]] = a
    BY <1>1, <2>1
  <2>3. ASSUME NEW j \in 1..Len(r), i < j PROVE w[r[j]] = {}
    <3>1. CASE j = Len(q) + 1
      BY <1>1, <3>1
    <3>2. CASE j # Len(q) + 1
      <4>1. j \in 1..Len(q)
        BY <1>1, <3>2, SMTT(60)
      <4> QED
        BY <1>1, <2>1, <2>3, <4>1
    <3> QED
      BY <3>1, <3>2
  <2> QED
    BY <2>2, <2>3 DEF LastSays
<1>4. w[m] = {} /\ Silent(w, q) => Silent(w, r)
  <2> SUFFICES ASSUME w[m] = {}, Silent(w, q), NEW j \in 1..Len(r) PROVE w[r[j]] = {}
    BY DEF Silent
  <2>1. CASE j = Len(q) + 1
    BY <1>1, <2>1
  <2>2. CASE j # Len(q) + 1
    <3>1. j \in 1..Len(q)
      BY <1>1, <2>2
    <3> QED
      BY <1>1, <3>1 DEF Silent
  <2> QED
    BY <2>1, <2>2
<1> QED
  BY <1>2, <1>3, <1>4 DEF r

LEMMA SaysTail ==
    ASSUME NEW w, NEW a, NEW q \in Seq(Nat), q # <<>>
    PROVE  /\ LastSays(w, q, a) =>
                 \/ LastSays(w, Tail(q), a)
                 \/ /\ w[Head(q)] = a /\ Silent(w, Tail(q))
                    /\ \A i \in 2..Len(q) : w[q[i]] = {}
           /\ Silent(w, q) => Silent(w, Tail(q)) /\ w[Head(q)] = {}
<1> DEFINE r == Tail(q)
<1>1. /\ Len(q) \in Nat /\ Len(q) > 0 /\ Head(q) = q[1] /\ Len(r) = Len(q) - 1
      /\ \A i \in 1..Len(r) : r[i] = q[i + 1]
  BY TailFacts
<1> HIDE DEF r
<1>2. ASSUME LastSays(w, q, a), ~ LastSays(w, r, a)
      PROVE  w[Head(q)] = a /\ Silent(w, r) /\ \A i \in 2..Len(q) : w[q[i]] = {}
  <2>1. PICK i \in 1..Len(q) : w[q[i]] = a /\ \A j \in 1..Len(q) : i < j => w[q[j]] = {}
    BY <1>2 DEF LastSays
  <2>2. i = 1
    <3> SUFFICES ASSUME i # 1 PROVE FALSE
      OBVIOUS
    <3>0. i - 1 \in 1..Len(r) /\ i - 1 + 1 = i
      BY <1>1
    <3>1. i - 1 \in 1..Len(r) /\ w[r[i - 1]] = a
      BY <1>1, <2>1, <3>0
    <3>2. ASSUME NEW j \in 1..Len(r), i - 1 < j PROVE w[r[j]] = {}
      <4>1. j + 1 \in 1..Len(q) /\ i < j + 1 /\ r[j] = q[j + 1]
        BY <1>1, <3>2
      <4> QED
        BY <2>1, <4>1
    <3> QED
      BY <1>2, <3>1, <3>2 DEF LastSays
  <2>3. \A j \in 2..Len(q) : w[q[j]] = {}
    BY <1>1, <2>1, <2>2
  <2>4. Silent(w, r)
    <3>1. \A j \in 1..Len(r) : j + 1 \in 2..Len(q)
      BY <1>1
    <3> QED
      BY <1>1, <2>3, <3>1 DEF Silent
  <2> QED
    BY <1>1, <2>1, <2>2, <2>3, <2>4
<1>3. ASSUME Silent(w, q) PROVE Silent(w, r) /\ w[Head(q)] = {}
  <2>1. 1 \in 1..Len(q) /\ \A j \in 1..Len(r) : j + 1 \in 1..Len(q)
    BY <1>1
  <2> QED
    BY <1>1, <1>3, <2>1 DEF Silent
<1> QED
  BY <1>2, <1>3 DEF r

LEMMA SaysSame ==
    ASSUME NEW w, NEW x, NEW a, NEW q, \A i \in 1..Len(q) : x[q[i]] = w[q[i]]
    PROVE  /\ LastSays(w, q, a) => LastSays(x, q, a)
           /\ Silent(w, q) => Silent(x, q)
BY DEF LastSays, Silent

\* What the channels hold has been broadcast.
LEMMA InChannel ==
    ASSUME HubInv, NEW v \in Viewers
    PROVE  /\ chan["status"][v] \in Seq(Nat)
           /\ sent["status"] \in Nat
           /\ \A i \in 1..Len(chan["status"][v]) : chan["status"][v][i] \in 1..sent["status"]
<1>1. "status" \in Kinds
  BY KindsAssumption
<1>2. chan["status"][v] \in Seq(1..MaxMsgs) /\ sent["status"] \in 0..MaxMsgs
  BY <1>1 DEF HubInv, TypeOK
<1>3. \A i \in 1..Len(chan["status"][v]) : chan["status"][v][i] < sent["status"] + 1
  BY <1>1 DEF HubInv, BelowSent, Newer
<1> QED
  BY <1>2, <1>3, MaxMsgsAssumption, SMTT(60)

\* Nothing that the mode of v depends on has changed, but for the broadcasts.
LEMMA ModeKept ==
    ASSUME HubInv, NewsKnown, ModeTold, LineInv, [PageNext]_allVars,
           NEW v \in Viewers, ~ Accept(v), OnlyStream(v)', v \notin missed, told # {},
           told' = told, mode' = mode, chan'["status"][v] = chan["status"][v],
           \A n \in 1..sent["status"] : what'[n] = what[n],
           OnItsWay(v) => OnItsWay(v)' \/ LastSays(what', chan'["status"][v], told')
    PROVE  HasOrGets(v)'
<1>1. HasOrGets(v)
  BY BecomesOnly DEF ModeTold
<1>2. \A i \in 1..Len(chan["status"][v]) : what'[chan["status"][v][i]] = what[chan["status"][v][i]]
  BY InChannel
<1>3. /\ LastSays(what, chan["status"][v], told) => LastSays(what', chan["status"][v], told)
      /\ Silent(what, chan["status"][v]) => Silent(what', chan["status"][v])
  BY <1>2, SaysSame
<1> QED
  BY <1>1, <1>3 DEF HasOrGets

\* When nobody holds the mutex nothing is being broadcast.
LEMMA NobodyActive ==
    ASSUME HubInv, mu = {}
    PROVE  (\A p \in Producers : ~Active(p)) /\ (\A v \in Viewers : ~OnItsWay(v))
BY DEF HubInv, OneHolder, OnItsWay

LEMMA NewsTyped ==
    ASSUME NewsKnown
    PROVE  /\ Len(what) \in Nat
           /\ \A n \in 1..Len(what) : what[n] \in {{}} \cup Answers
           /\ \A a \in {{}} \cup Answers :
                 /\ Append(what, a) \in Seq({{}} \cup Answers)
                 /\ Len(Append(what, a)) = Len(what) + 1 /\ Append(what, a)[Len(what) + 1] = a
                 /\ \A n \in 1..Len(what) : Append(what, a)[n] = what[n]
BY DEF NewsKnown

\* A broadcast that is begun is the only one, and none was going on.
LEMMA Locked ==
    ASSUME HubInv, NEW p \in Producers, NEW k \in Kinds, Lock(p, k)
    PROVE  /\ \A u \in Viewers : ~OnItsWay(u)
           /\ \A q \in Producers : ~Active(q) /\ (Active(q)' => q = p)
           /\ job'[p].step = "send" /\ job'[p].kind = k /\ job'[p].msg = sent[k] + 1
           /\ job'[p].todo = clients
           /\ \A q \in Producers : q # p => job'[q] = job[q]
           /\ sent'[k] = sent[k] + 1 /\ \A i \in Kinds : i # k => sent'[i] = sent[i]
           /\ UNCHANGED <<chan, clients>>
<1>1. (\A q \in Producers : ~Active(q)) /\ \A u \in Viewers : ~OnItsWay(u)
  BY NobodyActive DEF Lock
<1>2. /\ job'[p].step = "send" /\ job'[p].kind = k /\ job'[p].msg = sent[k] + 1
      /\ job'[p].todo = clients /\ \A q \in Producers : q # p => job'[q] = job[q]
  BY DEF Lock, HubInv, TypeOK
<1>3. sent'[k] = sent[k] + 1 /\ \A i \in Kinds : i # k => sent'[i] = sent[i]
  BY DEF Lock, HubInv, TypeOK
<1>4. UNCHANGED <<chan, clients>>
  BY DEF Lock
<1>5. \A q \in Producers : Active(q)' => q = p
  BY <1>1, <1>2 DEF Active
<1> QED
  BY <1>1, <1>2, <1>3, <1>4, <1>5

\* A step of a broadcast leaves it the same message.
LEMMA SpreadJob ==
    ASSUME HubInv, NEW p \in Producers, Broadcasting(p)
    PROVE  /\ Active(p) /\ job[p].kind \in Kinds
           /\ \A q \in Producers : q # p => job'[q] = job[q] /\ ~Active(q)
           /\ Active(p)' => job'[p].kind = job[p].kind /\ job'[p].msg = job[p].msg
           /\ UNCHANGED <<sent, clients>>
<1>1. Active(p)
  BY DEF Broadcasting, TrySend, Evict, Retry, Unlock, Active
<1>2. job \in [Producers -> Jobs] /\ job[p].kind \in Kinds
  BY <1>1 DEF HubInv, TypeOK, InLoop
<1>3. \A q \in Producers : q # p => job'[q] = job[q]
  BY <1>2 DEF Broadcasting, TrySend, Evict, Retry, Unlock, Deliver
<1>4. Active(p)' => job'[p].kind = job[p].kind /\ job'[p].msg = job[p].msg
  <2>1. CASE Unlock(p)
    BY <1>2, <2>1 DEF Unlock, Active, NoJob
  <2>2. CASE Evict(p) \/ Retry(p)
    BY <1>2, <2>2 DEF Evict, Retry, Deliver, Jobs
  <2>3. ASSUME NEW v \in Viewers, TrySend(p, v)
        PROVE  job'[p].kind = job[p].kind /\ job'[p].msg = job[p].msg
    BY <1>2, <2>3 DEF TrySend, Deliver, Jobs
  <2> QED
    BY <2>1, <2>2, <2>3 DEF Broadcasting
<1>5. \A q \in Producers : q # p => ~Active(q)
  BY <1>1, OnlyOne
<1>6. UNCHANGED <<sent, clients>>
  BY DEF Broadcasting, TrySend, Evict, Retry, Unlock
<1> QED
  BY <1>1, <1>2, <1>3, <1>4, <1>5, <1>6

LEMMA NewsKnownNext ==
    ASSUME HubInv, HubInv', NewsKnown, [PageNext]_allVars
    PROVE  NewsKnown'
<1>1. ASSUME UNCHANGED <<what, told, focus, sent, job>>, mode' \in BOOLEAN, missed' \subseteq Viewers
      PROVE  NewsKnown'
  BY <1>1 DEF NewsKnown, Active, News
<1>2. mode \in BOOLEAN /\ missed \subseteq Viewers /\ focus \in BOOLEAN
  BY DEF NewsKnown
<1>3. sent["status"] \in Nat /\ Len(what) = sent["status"] /\ "status" \in Kinds
  <2>1. "status" \in Kinds
    BY KindsAssumption
  <2> QED
    BY <2>1, MaxMsgsAssumption DEF HubInv, TypeOK, NewsKnown
<1>4. ASSUME NEW p \in {"callback", "loop"}, Frame(p) PROVE NewsKnown'
  <2>1. Lock(p, "frames") /\ UNCHANGED <<what, told, focus, mode, missed>>
    BY <1>4 DEF Frame, pageVars, loopVars
  <2>2. p \in Producers /\ "frames" \in Kinds
    BY ProducersAssumption, KindsAssumption
  <2>3. sent'["status"] = sent["status"] /\ \A q \in Producers : Active(q)' => job'[q].kind = "frames"
    BY <1>3, <2>1, <2>2, Locked
  <2>4. focus' => job'["loop"].step = "idle"
    <3>1. p = "callback" \/ ~focus
      BY <1>4 DEF Frame, LoopFree
    <3>2. p = "callback" => job'["loop"] = job["loop"]
      BY <2>1, <2>2, Locked, ProducersAssumption
    <3> QED
      BY <2>1, <3>1, <3>2 DEF NewsKnown
  <2> QED
    BY <2>1, <2>3, <2>4 DEF NewsKnown
<1>5. CASE Power
  <2>1. Lock("display", "status") /\ what' = Append(what, {}) /\ UNCHANGED <<told, focus, mode, missed>>
    BY <1>5 DEF Power
  <2>2. {"display", "loop"} \subseteq Producers
    BY ProducersAssumption
  <2>3. /\ sent'["status"] = sent["status"] + 1
        /\ \A q \in Producers : Active(q)' => job'[q].msg = sent["status"] + 1
        /\ job'["loop"] = job["loop"]
    BY <1>3, <2>1, <2>2, Locked
  <2>4. what'[sent["status"] + 1] = {} /\ Len(what') = sent["status"] + 1 /\ what' \in Seq({{}} \cup Answers)
    BY <1>3, <2>1, NewsTyped
  <2> QED
    BY <2>1, <2>3, <2>4 DEF NewsKnown, News
<1>6. ASSUME NEW answer \in Answers, FocusTell(answer) PROVE NewsKnown'
  <2>1. /\ Lock("loop", "status") /\ what' = Append(what, answer) /\ told' = answer
        /\ focus' = FALSE /\ UNCHANGED <<mode, missed>>
    BY <1>6 DEF FocusTell
  <2>2. "loop" \in Producers
    BY ProducersAssumption
  <2>3. /\ sent'["status"] = sent["status"] + 1
        /\ \A q \in Producers : Active(q)' => q = "loop" /\ job'[q].msg = sent["status"] + 1
    BY <1>3, <2>1, <2>2, Locked
  <2>4. what'[sent["status"] + 1] = answer /\ Len(what') = sent["status"] + 1 /\ what' \in Seq({{}} \cup Answers)
    BY <1>3, <2>1, NewsTyped
  <2> QED
    BY <2>1, <2>3, <2>4 DEF NewsKnown
<1>7. ASSUME NEW forget \in BOOLEAN, FocusAsk(forget) PROVE NewsKnown'
  <2>1. /\ mu = {} /\ job["loop"].step = "idle" /\ told' \in {{}, told} /\ focus' \in BOOLEAN
        /\ UNCHANGED <<what, sent, job, mode, missed>>
    BY <1>7 DEF FocusAsk, LoopFree, vars
  <2>2. \A p \in Producers : ~Active(p)
    BY <2>1, NobodyActive
  <2> QED
    BY <2>1, <2>2 DEF NewsKnown, Active
<1>8. CASE NewSession
  <2>1. /\ job["loop"].step = "idle" /\ told' = {} /\ focus' = FALSE
        /\ UNCHANGED <<what, sent, job, mode, missed>>
    BY <1>8 DEF NewSession, vars
  <2> QED
    BY <2>1 DEF NewsKnown, Active, News
<1>9. CASE FocusEnds
  BY <1>9 DEF FocusEnds, NewsKnown, Active, News, vars
<1>10. ASSUME NEW p \in Producers, Spread(p) PROVE NewsKnown'
  <2>1. Broadcasting(p) /\ UNCHANGED <<what, told, focus, mode>>
    BY <1>10 DEF Spread, loopVars
  <2>2. missed' \subseteq Viewers
    <3>1. Passed(p) \subseteq Viewers
      BY DEF Passed, HubInv, TypeOK, InLoop, Active
    <3> QED
      BY <1>2, <1>10, <3>1 DEF Spread
  <2>3. /\ Active(p) /\ sent' = sent
        /\ \A q \in Producers : Active(q)' => Active(q) /\ job'[q].kind = job[q].kind
                                              /\ job'[q].msg = job[q].msg
        /\ \A q \in Producers : q # p => job'[q] = job[q]
    BY <2>1, SpreadJob DEF Active
  <2>4. focus => p # "loop"
    BY <2>3 DEF NewsKnown, Active
  <2>5. focus' => job'["loop"].step = "idle"
    BY <2>1, <2>3, <2>4, ProducersAssumption DEF NewsKnown
  <2> QED
    BY <2>1, <2>2, <2>3, <2>5 DEF NewsKnown, News
<1> USE DEF vars, loopVars, pageVars
<1>11. CASE SignIn \/ SignOut \/ Retry800 \/ LoadPage \/ Refresh
  BY <1>1, <1>2, <1>11 DEF SignIn, SignOut, Retry800, LoadPage, Refresh
<1>12. ASSUME NEW v \in Viewers, Accept(v) PROVE NewsKnown'
  <2>1. UNCHANGED <<what, told, focus, sent, job>> /\ mode' = mode /\ missed' \subseteq Viewers
    BY <1>2, <1>12 DEF Accept, Subscribe
  <2> QED
    BY <1>1, <1>2, <2>1
<1>13. ASSUME NEW v \in Viewers, Hangup(v) \/ HandlerEnds(v) PROVE NewsKnown'
  BY <1>1, <1>2, <1>13 DEF Hangup, HandlerEnds, Unsubscribe
<1>14. ASSUME NEW v \in Viewers, NEW k \in Kinds, Write(v, k) PROVE NewsKnown'
  <2>1. UNCHANGED <<what, told, focus, sent, job, missed>>
    BY <1>14 DEF Write, Receive
  <2>2. mode' \in BOOLEAN
    <3> DEFINE n == Head(chan[k][v])
    <3>1. mode' = IF k = "status" /\ line[v] = "open" /\ News(n) THEN TRUE \in what[n] ELSE mode
      BY <1>14 DEF Write
    <3> HIDE DEF n
    <3>2. CASE k = "status" /\ line[v] = "open" /\ News(n)
      <4>1. mode' = (TRUE \in what[n])
        BY <3>1, <3>2
      <4> QED
        BY <4>1
    <3> QED
      BY <1>2, <3>1, <3>2
  <2> QED
    BY <1>1, <1>2, <2>1, <2>2
<1>15. ASSUME NEW f \in decoding, Decoded(f) \/ DecodeFails(f) PROVE NewsKnown'
  BY <1>1, <1>2, <1>15 DEF Decoded, DecodeFails
<1>16. CASE UNCHANGED allVars
  BY <1>1, <1>2, <1>16 DEF allVars
<1> QED
  BY <1>4, <1>5, <1>6, <1>7, <1>8, <1>9, <1>10, <1>11, <1>12, <1>13, <1>14, <1>15, <1>16 DEF PageNext

\* What a step of a broadcast does to the mode of v.
LEMMA ModeSpread ==
    ASSUME HubInv, LineInv, NewsKnown, ModeTold, [PageNext]_allVars,
           NEW p \in Producers, Spread(p),
           NEW v \in Viewers, OnlyStream(v)', v \notin missed', told # {}
    PROVE HasOrGets(v)'
<1> DEFINE m == job[p].msg
           q == chan["status"][v]
<1>1. /\ Broadcasting(p) /\ UNCHANGED <<what, told, mode, line, starts>>
      /\ missed' = (missed \cup Passed(p)) \ Served(p)
  BY DEF Spread, loopVars, lineVars
<1>2. /\ Active(p) /\ job[p].kind \in Kinds
      /\ Active(p)' => job'[p].kind = job[p].kind /\ job'[p].msg = m
      /\ \A r \in Producers : r # p => job'[r] = job[r] /\ ~Active(r)
      /\ clients' = clients
  BY <1>1, SpreadJob
<1>3. OnlyStream(v) /\ ~Accept(v)
  BY <1>1, <1>2 DEF OnlyStream, Accept, LineInv
<1>4. q \in Seq(Nat) /\ "status" \in Kinds /\ job[p] \in Jobs
  BY InChannel, KindsAssumption DEF HubInv, TypeOK
<1>5. OnItsWay(v) <=> job[p].kind = "status" /\ v \in job[p].todo /\ what[m] # {}
  BY <1>2 DEF OnItsWay, News
<1>6. job[p].kind = "status" => m \in Nat /\ (what[m] # {} => what[m] = told)
  <2>1. m \in Nat
    BY <1>4, MaxMsgsAssumption DEF Jobs
  <2> QED
    BY <1>2, <2>1 DEF NewsKnown, News
<1>7. OnItsWay(v)' <=> Active(p)' /\ job'[p].kind = "status" /\ v \in job'[p].todo
                       /\ what'[job'[p].msg] # {}
  <2>1. \A r \in Producers : r # p => ~Active(r)'
    BY <1>2 DEF Active
  <2> QED
    BY <2>1 DEF OnItsWay, News
<1>8. ASSUME v \notin missed, chan'["status"][v] = q, OnItsWay(v) => OnItsWay(v)'
      PROVE HasOrGets(v)'
  BY <1>1, <1>3, <1>8, ModeKept
\* The other channels, and the other viewers.
<1>9. CASE job[p].kind # "status"
  <2>1. Passed(p) = {} /\ Served(p) = {}
    BY <1>9 DEF Passed, Served
  <2>2. chan'["status"] = chan["status"]
    BY <1>1, <1>2, <1>4, <1>9 DEF Broadcasting, TrySend, Evict, Retry, Unlock, Deliver, HubInv, TypeOK
  <2> QED
    BY <1>1, <1>5, <1>8, <1>9, <2>1, <2>2
<1> SUFFICES ASSUME job[p].kind = "status"
             PROVE HasOrGets(v)'
  BY <1>9
\* The broadcast is over.
<1>10. CASE Unlock(p)
  <2>1. job[p].todo = {} /\ chan' = chan
    BY <1>10 DEF Unlock
  <2>2. Served(p) = {}
    BY <2>1 DEF Served
  <2> QED
    BY <1>1, <1>5, <1>8, <2>1, <2>2
\* The message is put into a channel.
<1>11. ASSUME NEW u \in job[p].todo, Deliver(p, u) PROVE HasOrGets(v)'
  <2>1. u \in Viewers
    BY <1>2 DEF HubInv, TypeOK, InLoop
  <2>2. /\ chan'["status"][u] = Append(chan["status"][u], m)
        /\ \A w \in Viewers : w # u => chan'["status"][w] = chan["status"][w]
    BY <1>4, <1>11, <2>1 DEF Deliver, HubInv, TypeOK
  <2>3. /\ job'[p].step = "send" /\ job'[p].kind = "status" /\ job'[p].msg = m
        /\ job'[p].todo = job[p].todo \ {u}
    BY <1>4, <1>11 DEF Deliver, Jobs, HubInv, TypeOK
  <2>4. CASE what[m] # {}
    <3>1. CASE u = v
      <4>1. LastSays(what, Append(q, m), told)
        BY <1>4, <1>6, <2>4, SaysAppend
      <4> QED
        BY <1>1, <2>2, <3>1, <4>1 DEF HasOrGets
    <3>2. CASE u # v
      <4>1. v \notin missed
        <5>1. Served(p) \subseteq {u}
          BY <2>3 DEF Served
        <5> QED
          BY <1>1, <3>2, <5>1
      <4>2. OnItsWay(v) => OnItsWay(v)'
        BY <1>1, <1>5, <1>7, <2>3, <3>2 DEF Active
      <4> QED
        BY <1>8, <2>2, <3>2, <4>1, <4>2
    <3> QED
      BY <3>1, <3>2
  <2>5. CASE what[m] = {}
    <3>1. Served(p) = {} /\ ~OnItsWay(v)
      BY <1>5, <2>5 DEF Served, News
    <3>2. v \notin missed
      BY <1>1, <3>1
    <3>3. CASE u = v
      <4>1. LastSays(what, q, told) \/ (Silent(what, q) /\ told = {mode})
        BY <1>3, <3>1, <3>2 DEF ModeTold, HasOrGets
      <4>2. \/ LastSays(what, Append(q, m), told)
            \/ Silent(what, Append(q, m)) /\ told = {mode}
        BY <1>4, <1>6, <2>5, <4>1, SaysAppend
      <4> QED
        BY <1>1, <2>2, <3>3, <4>2 DEF HasOrGets
    <3>4. CASE u # v
      BY <1>8, <2>2, <3>1, <3>2, <3>4
    <3> QED
      BY <3>3, <3>4
  <2> QED
    BY <2>4, <2>5
\* The first attempt fails.
<1>12. ASSUME NEW u \in Viewers, TrySend(p, u), ~Room(job[p].kind, u) PROVE HasOrGets(v)'
  <2>1. /\ job' = [job EXCEPT ![p].step = "evict", ![p].cur = u] /\ chan' = chan
    BY <1>12 DEF TrySend
  <2>2. /\ job'[p].step = "evict" /\ job'[p].kind = "status" /\ job'[p].msg = m
        /\ job'[p].todo = job[p].todo
    BY <1>4, <2>1 DEF Jobs, HubInv, TypeOK
  <2>3. Served(p) = {}
    BY <2>2 DEF Served
  <2>4. v \notin missed
    BY <1>1, <2>3
  <2>5. OnItsWay(v) => OnItsWay(v)'
    BY <1>1, <1>5, <1>7, <2>2 DEF Active
  <2> QED
    BY <1>8, <2>1, <2>4, <2>5
\* The oldest message is taken out.
<1>13. CASE Evict(p)
  <2> DEFINE u == job[p].cur
  <2>1. /\ job[p].step = "evict" /\ job' = [job EXCEPT ![p].step = "retry"]
        /\ chan' = [chan EXCEPT !["status"][u] = IF @ = <<>> THEN @ ELSE Tail(@)]
    BY <1>13 DEF Evict
  <2>2. u \in job[p].todo /\ u \in Viewers
    BY <1>2, <2>1 DEF HubInv, TypeOK, InLoop
  <2>3. /\ job'[p].step = "retry" /\ job'[p].kind = "status" /\ job'[p].msg = m
        /\ job'[p].todo = job[p].todo
    BY <1>4, <2>1 DEF Jobs, HubInv, TypeOK
  <2>4. Served(p) = {}
    BY <2>3 DEF Served
  <2>5. v \notin missed
    BY <1>1, <2>4
  <2>6. OnItsWay(v) => OnItsWay(v)'
    BY <1>1, <1>5, <1>7, <2>3 DEF Active
  <2>7. /\ chan'["status"][u] = IF chan["status"][u] = <<>> THEN <<>> ELSE Tail(chan["status"][u])
        /\ \A w \in Viewers : w # u => chan'["status"][w] = chan["status"][w]
    BY <1>4, <2>1, <2>2 DEF HubInv, TypeOK
  <2>8. CASE u # v \/ q = <<>>
    BY <1>8, <2>5, <2>6, <2>7, <2>8
  <2>9. CASE u = v /\ q # <<>>
    <3>1. CASE OnItsWay(v)
      BY <2>6, <3>1 DEF HasOrGets
    <3>2. CASE ~OnItsWay(v)
      <4>1. what[m] = {}
        BY <1>5, <2>2, <2>9, <3>2
      <4>2. LastSays(what, q, told) \/ (Silent(what, q) /\ told = {mode})
        BY <1>3, <2>5, <3>2 DEF ModeTold, HasOrGets
      <4>3. ~(what[Head(q)] = told /\ \A i \in 2..Len(q) : what[q[i]] = {})
        <5> SUFFICES ASSUME what[Head(q)] = told, \A i \in 2..Len(q) : what[q[i]] = {} PROVE FALSE
          OBVIOUS
        <5>1. Passed(p) = {v}
          BY <2>1, <2>9, <4>1 DEF Passed, News
        <5> QED
          BY <1>1, <2>4, <5>1
      <4>4. \/ LastSays(what, Tail(q), told)
            \/ Silent(what, Tail(q)) /\ told = {mode}
        <5> HIDE DEF q
        <5>1. /\ LastSays(what, q, told) =>
                    \/ LastSays(what, Tail(q), told)
                    \/ /\ what[Head(q)] = told /\ Silent(what, Tail(q))
                       /\ \A i \in 2..Len(q) : what[q[i]] = {}
              /\ Silent(what, q) => Silent(what, Tail(q))
          BY <1>4, <2>9, SaysTail
        <5> QED
          BY <4>2, <4>3, <5>1
      <4> QED
        BY <1>1, <2>7, <2>9, <4>4 DEF HasOrGets
    <3> QED
      BY <3>1, <3>2
  <2> QED
    BY <2>8, <2>9
\* The second attempt finds room.
<1>14. CASE Retry(p)
  <2>1. job[p].step = "retry" /\ Room(job[p].kind, job[p].cur) /\ job[p].cur \in job[p].todo
    BY <1>2, <1>14 DEF Retry, HubInv, RoomMade, InLoop
  <2>2. Deliver(p, job[p].cur)
    BY <1>14, <2>1 DEF Retry
  <2> QED
    BY <1>11, <2>1, <2>2
<1>15. ASSUME NEW u \in Viewers, TrySend(p, u), Room(job[p].kind, u) PROVE HasOrGets(v)'
  BY <1>11, <1>15 DEF TrySend
<1> QED
  BY <1>1, <1>10, <1>12, <1>13, <1>14, <1>15 DEF Broadcasting

\* A connection takes a message, and the page handles it.
LEMMA ModeWrite ==
    ASSUME HubInv, LineInv, NewsKnown, ModeTold, [PageNext]_allVars,
           NEW u \in Viewers, NEW k \in Kinds, Write(u, k),
           NEW v \in Viewers, OnlyStream(v)', v \notin missed, told # {}
    PROVE  HasOrGets(v)'
<1> DEFINE q == chan["status"][v]
           n == Head(chan[k][u])
<1>1. /\ Receive(u, k) /\ UNCHANGED <<what, told, missed, line, starts, clients, job>>
      /\ mode' = IF k = "status" /\ line[u] = "open" /\ News(n) THEN TRUE \in what[n] ELSE mode
  BY DEF Write, Receive, loopVars, lineVars
<1>2. OnlyStream(v) /\ ~Accept(v) /\ (OnItsWay(v) => OnItsWay(v)')
  BY <1>1 DEF OnlyStream, Accept, LineInv, OnItsWay, Active, News
<1>3. q \in Seq(Nat) /\ "status" \in Kinds
  BY InChannel, KindsAssumption
<1>4. /\ chan[k][u] # <<>> /\ chan'[k][u] = Tail(chan[k][u])
      /\ \A i \in Kinds, w \in Viewers : <<i, w>> # <<k, u>> => chan'[i][w] = chan[i][w]
  BY <1>1 DEF Receive, HubInv, TypeOK
<1>5. CASE k # "status"
  BY <1>1, <1>2, <1>3, <1>4, <1>5, ModeKept
<1>6. CASE u # v
  <2>1. line[u] # "open"
    BY <1>2, <1>6, OneStream DEF OnlyStream, Streams
  <2> QED
    BY <1>1, <1>2, <1>3, <1>4, <1>6, <2>1, ModeKept
<1>7. CASE k = "status" /\ u = v
  <2>1. n = Head(q) /\ q # <<>> /\ chan'["status"][v] = Tail(q)
    BY <1>4, <1>7
  <2>2. mode' = IF what[Head(q)] # {} THEN TRUE \in what[Head(q)] ELSE mode
    BY <1>1, <1>2, <1>7, <2>1 DEF OnlyStream, News
  <2>3. CASE OnItsWay(v)
    BY <1>2, <2>3 DEF HasOrGets
  <2>4. CASE ~OnItsWay(v)
    <3> HIDE DEF q
    <3>1. LastSays(what, q, told) \/ (Silent(what, q) /\ told = {mode})
      BY <1>2, <2>4 DEF ModeTold, HasOrGets, q
    <3>2. /\ LastSays(what, q, told) =>
                \/ LastSays(what, Tail(q), told)
                \/ /\ what[Head(q)] = told /\ Silent(what, Tail(q))
                   /\ \A i \in 2..Len(q) : what[q[i]] = {}
          /\ Silent(what, q) => Silent(what, Tail(q)) /\ what[Head(q)] = {}
      <4>1. q \in Seq(Nat) /\ q # <<>>
        BY <1>3, <2>1
      <4> QED
        BY <4>1, SaysTail
    <3>3. ASSUME what[Head(q)] = told PROVE told = {mode'}
      <4>1. mode' = (TRUE \in told)
        BY <2>2, <3>3
      <4>2. told = {TRUE} \/ told = {FALSE}
        BY DEF NewsKnown, Answers
      <4>3. CASE told = {TRUE}
        BY <4>1, <4>3
      <4>4. CASE told = {FALSE}
        <5>1. (TRUE \in told) = FALSE
          BY <4>4
        <5>2. mode' = FALSE
          BY <4>1, <5>1
        <5> QED
          BY <4>4, <5>2
      <4> QED
        BY <4>2, <4>3, <4>4
    <3>4. ASSUME what[Head(q)] = {} PROVE mode' = mode
      BY <2>2, <3>4
    <3>5. \/ LastSays(what, Tail(q), told)
          \/ Silent(what, Tail(q)) /\ told = {mode'}
      BY <3>1, <3>2, <3>3, <3>4
    <3> QED
      BY <1>1, <2>1, <3>5 DEF HasOrGets
  <2> QED
    BY <2>3, <2>4
<1> QED
  BY <1>5, <1>6, <1>7

LEMMA ModeToldNext ==
    ASSUME HubInv, HubInv', LineInv, NewsKnown, ModeTold, [PageNext]_allVars
    PROVE  ModeTold'
<1> SUFFICES ASSUME NEW v \in Viewers, OnlyStream(v)', v \notin missed', told' # {}
             PROVE  HasOrGets(v)'
  BY DEF ModeTold
<1>1. ASSUME ~Accept(v), v \notin missed, UNCHANGED <<what, told, mode, chan, job>>
      PROVE  HasOrGets(v)'
  <2>1. OnItsWay(v) => OnItsWay(v)'
    BY <1>1 DEF OnItsWay, Active, News
  <2> QED
    BY <1>1, <2>1, ModeKept
<1>2. ASSUME NEW u \in Viewers, Accept(u) PROVE HasOrGets(v)'
  <2>1. UNCHANGED <<what, told, mode, chan, job>>
    BY <1>2 DEF Accept, Subscribe, loopVars
  <2>2. v \notin missed /\ v # u
    BY <1>2, <2>1 DEF Accept
  <2>3. ~Accept(v)
    BY <1>2, <2>2 DEF Accept, LineInv
  <2> QED
    BY <1>1, <2>1, <2>2, <2>3
<1>3. ASSUME ~Accept(v), NEW p \in Producers, NEW k \in Kinds, Lock(p, k),
             v \notin missed, told' = told, mode' = mode,
             \A n \in 1..sent["status"] : what'[n] = what[n]
      PROVE  HasOrGets(v)'
  BY <1>3, Locked, ModeKept
<1>4. ASSUME NEW p \in {"callback", "loop"}, Frame(p) PROVE HasOrGets(v)'
  <2>1. /\ Lock(p, "frames") /\ UNCHANGED <<what, told, mode, missed, line>>
        /\ p \in Producers /\ "frames" \in Kinds
    BY <1>4, ProducersAssumption, KindsAssumption DEF Frame, pageVars, loopVars, lineVars
  <2>2. ~Accept(v)
    BY <2>1 DEF Accept, LineInv
  <2> QED
    BY <1>3, <2>1, <2>2
<1>5. CASE Power
  <2>1. /\ Lock("display", "status") /\ what' = Append(what, {})
        /\ UNCHANGED <<told, mode, missed, line>>
        /\ "display" \in Producers /\ "status" \in Kinds
    BY <1>5, ProducersAssumption, KindsAssumption DEF Power, lineVars
  <2>2. ~Accept(v)
    BY <2>1 DEF Accept, LineInv
  <2>3. \A n \in 1..sent["status"] : what'[n] = what[n]
    BY <2>1, NewsTyped DEF NewsKnown
  <2> QED
    BY <1>3, <2>1, <2>2, <2>3
<1>6. ASSUME NEW answer \in Answers, FocusTell(answer) PROVE HasOrGets(v)'
  <2>1. /\ Lock("loop", "status") /\ what' = Append(what, answer) /\ told' = answer
        /\ "loop" \in Producers /\ "status" \in Kinds
    BY <1>6, ProducersAssumption, KindsAssumption DEF FocusTell
  <2>2. /\ job'["loop"].step = "send" /\ job'["loop"].kind = "status"
        /\ job'["loop"].msg = sent["status"] + 1 /\ job'["loop"].todo = clients
        /\ clients' = clients
    BY <2>1, Locked
  <2>3. what'[sent["status"] + 1] = answer
    BY <2>1, NewsTyped DEF NewsKnown
  <2>4. v \in clients
    BY <2>2 DEF OnlyStream
  <2>5. OnItsWay(v)'
    BY <2>1, <2>2, <2>3, <2>4 DEF OnItsWay, Active, News, Answers
  <2> QED
    BY <2>5 DEF HasOrGets
<1>7. ASSUME NEW forget \in BOOLEAN, FocusAsk(forget) PROVE HasOrGets(v)'
  <2>1. told' = told /\ UNCHANGED <<what, mode, chan, job, missed, line>>
    BY <1>7 DEF FocusAsk, vars, lineVars
  <2>2. ~Accept(v)
    BY <2>1 DEF Accept, LineInv
  <2> QED
    BY <1>1, <2>1, <2>2
<1>8. CASE NewSession
  BY <1>8 DEF NewSession
<1>9. ASSUME NEW p \in Producers, Spread(p) PROVE HasOrGets(v)'
  <2>1. told # {}
    BY <1>9 DEF Spread, loopVars
  <2> QED
    BY <1>9, <2>1, ModeSpread
<1>10. ASSUME NEW u \in Viewers, NEW k \in Kinds, Write(u, k) PROVE HasOrGets(v)'
  <2>1. told # {} /\ v \notin missed
    BY <1>10 DEF Write, loopVars
  <2> QED
    BY <1>10, <2>1, ModeWrite
<1>11. CASE LoadPage
  BY <1>11 DEF LoadPage, OnlyStream
<1> SUFFICES ASSUME ~ \E u \in Viewers : Accept(u) PROVE HasOrGets(v)'
  BY <1>2
<1>12. ASSUME UNCHANGED <<what, told, mode, chan, job, missed>> PROVE HasOrGets(v)'
  BY <1>1, <1>12
<1> USE DEF vars, loopVars, pageVars
<1>13. CASE SignIn \/ SignOut \/ Retry800 \/ Refresh \/ FocusEnds
  BY <1>12, <1>13 DEF SignIn, SignOut, Retry800, Refresh, FocusEnds
<1>14. ASSUME NEW u \in Viewers, Hangup(u) \/ HandlerEnds(u) PROVE HasOrGets(v)'
  BY <1>12, <1>14 DEF Hangup, HandlerEnds, Unsubscribe
<1>15. ASSUME NEW f \in decoding, Decoded(f) \/ DecodeFails(f) PROVE HasOrGets(v)'
  BY <1>12, <1>15 DEF Decoded, DecodeFails
<1>16. CASE UNCHANGED allVars
  BY <1>12, <1>16 DEF allVars
<1> QED
  BY <1>4, <1>5, <1>6, <1>7, <1>8, <1>9, <1>10, <1>11, <1>13, <1>14, <1>15, <1>16 DEF PageNext

-----------------------------------------------------------------------------
PageInv ==
    /\ HubInv /\ LineInv /\ Fresh
    /\ PictureInv /\ ShowsNewest
    /\ NewsKnown /\ ModeTold

LEMMA PageInvHolds == PageSpec => []PageInv
<1>1. PageInit => Fresh /\ PictureInv /\ ShowsNewest /\ NewsKnown /\ ModeTold
  <2> SUFFICES ASSUME PageInit PROVE Fresh /\ PictureInv /\ ShowsNewest /\ NewsKnown /\ ModeTold
    OBVIOUS
  <2>1. Fresh
    BY DEF PageInit, Init, Fresh
  <2>2. PictureInv /\ ShowsNewest
    BY DEF PageInit, PictureInv, PictureTyped, LoadsApart, AllHaveCome, OneAtATime, ShowsNewest,
           OnlyStream
  <2>3. NewsKnown
    <3>1. "status" \in Kinds /\ "loop" \in Producers
      BY KindsAssumption, ProducersAssumption
    <3>2. \A p \in Producers : job[p].step = "idle"
      BY DEF PageInit, Init, NoJob
    <3>3. what = <<>> /\ sent["status"] = 0 /\ Len(what) = 0 /\ what \in Seq({{}} \cup Answers)
      BY <3>1 DEF PageInit, Init
    <3>4. told = {} /\ focus = FALSE /\ mode = FALSE /\ missed = {}
      BY DEF PageInit
    <3> QED
      BY <3>1, <3>2, <3>3, <3>4 DEF NewsKnown, Active
  <2>4. ModeTold
    BY DEF PageInit, ModeTold
  <2> QED
    BY <2>1, <2>2, <2>3, <2>4
<1>2. PageInit => LineInv
  BY LineInvInit
<1>3. HubInv /\ HubInv' /\ PageInv /\ [PageNext]_allVars => PageInv'
  BY LineInvNext, FreshNext, PictureInvNext, ShowsNewestNext, NewsKnownNext, ModeToldNext
  DEF PageInv
<1>4. PageSpec => []HubInv
  BY HubImplemented, HubInvHolds
<1>5. PageInit /\ HubInv => PageInv
  BY <1>1, <1>2 DEF PageInv
<1> QED
  BY <1>3, <1>4, <1>5, PTL DEF PageSpec

\* The page, the loop and their history variables are well typed.
THEOREM PageTypeCorrect == PageSpec => []PageTypeOK
<1>1. PageInv => PageTypeOK
  BY DEF PageInv, LineInv, PictureInv, PictureTyped, NewsKnown, PageTypeOK
<1> QED
  BY <1>1, PageInvHolds, PTL

\* However images that load overtake each other or fail, the picture can be
\* shown and nothing else is kept; and when all has been loaded one at a time it
\* is the newest frame of the stream.
THEOREM PictureSettlesHolds == PageSpec => []PictureSettles
<1>1. PageInv => PictureSettles
  <2> SUFFICES ASSUME PageInv PROVE PictureSettles
    OBVIOUS
  <2>1. picture # NoPicture => picture \in urls
    BY DEF PageInv, PictureInv, LoadsApart
  <2>2. decoding = {} /\ ~leaked => urls \subseteq {picture}
    BY DEF PageInv, PictureInv, OneAtATime
  <2>3. ASSUME NEW v \in Viewers, OnlyStream(v), Idle("frames"), chan["frames"][v] = <<>>,
               decoding = {}, ~crossed, newest["frames"][v] > 0
        PROVE  picture = <<v, newest["frames"][v]>>
    <3>1. "frames" \in Kinds /\ v \notin closed
      BY <2>3, KindsAssumption DEF OnlyStream, PageInv, HubInv, Apart
    <3>2. Kept("frames", v)
      BY <2>3, <3>1 DEF PageInv, HubInv, KeptOrOnItsWay, Idle
    <3>3. last["frames"][v] = newest["frames"][v]
      BY <2>3, <3>2 DEF Kept
    <3> QED
      BY <2>3, <3>3 DEF PageInv, ShowsNewest
  <2> QED
    BY <2>1, <2>2, <2>3 DEF PictureSettles
<1> QED
  BY <1>1, PageInvHolds, PTL

\* What is typed on the page is masked if and only if the loop has told so last,
\* for any capacity of the channels and any number of connections and broadcasts.
THEOREM ModeFollowsHolds == PageSpec => []ModeFollows
<1>1. PageInv => ModeFollows
  <2> SUFFICES ASSUME PageInv, NEW v \in Viewers, OnlyStream(v), v \notin missed, told # {},
                      Idle("status"), chan["status"][v] = <<>>
               PROVE  told = {mode}
    BY DEF ModeFollows
  <2>1. HasOrGets(v)
    BY DEF PageInv, ModeTold
  <2>2. ~OnItsWay(v)
    BY DEF OnItsWay, Idle
  <2>3. ~LastSays(what, chan["status"][v], told)
    BY DEF LastSays
  <2> QED
    BY <2>1, <2>2, <2>3 DEF HasOrGets
<1> QED
  BY <1>1, PageInvHolds, PTL

=============================================================================
