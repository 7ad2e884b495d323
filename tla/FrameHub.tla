------------------------------ MODULE FrameHub ------------------------------
(***************************************************************************)
(* The fan-out of frames and status messages to the viewers of the remote  *)
(* stream, internal/kiosk/hub.go.                                          *)
(*                                                                         *)
(* Every viewer has two bounded channels.  A producer broadcasts with the  *)
(* hub's mutex held: for each client it tries to send, and when the channel*)
(* is full it takes the oldest message out and tries once more.  The       *)
(* viewers receive without the mutex, so a viewer may empty the channel    *)
(* between any two of those attempts.  Unsubscribe closes the channels     *)
(* under the mutex; a send on a closed channel would panic and end the     *)
(* process.  Broadcast and BroadcastStatus differ only in the channel.     *)
(***************************************************************************)
EXTENDS Integers, Sequences, SequencesExt

CONSTANTS
    Producers,   \* goroutines that broadcast
    Viewers,     \* one Client each
    Kinds,       \* the channels of a Client: Frames and Status
    Cap,         \* capacity of each channel (2 and 4 in the code)
    MaxMsgs      \* bound: broadcasts of each kind

ASSUME CapAssumption == Cap \in [Kinds -> Nat \ {0}]
ASSUME MaxMsgsAssumption == MaxMsgs \in Nat

VARIABLES
    mu,       \* who holds FrameHub.mu: a set with at most one producer
    clients,  \* FrameHub.clients
    chan,     \* chan[k][v]: the messages buffered in a channel
    closed,   \* viewers whose channels have been closed
    job,      \* job[p]: the broadcast a producer is in
    sent,     \* sent[k]: broadcasts started; message n is the n-th of its kind
    \* history variables
    newest,   \* newest[k][v]: last message broadcast to v since it subscribed
    last,     \* last[k][v]: last message v received
    panicked  \* a producer sent on a closed channel

vars == <<mu, clients, chan, closed, job, sent, newest, last, panicked>>

Nobody == "nobody"
NoJob  == [step |-> "idle", kind |-> Nobody, msg |-> 0, todo |-> {}, cur |-> Nobody]
Jobs   == [step : {"idle", "send", "evict", "retry"}, kind : Kinds \cup {Nobody},
           msg : 0..MaxMsgs, todo : SUBSET Viewers, cur : Viewers \cup {Nobody}]

TypeOK ==
    /\ mu \in SUBSET Producers
    /\ clients \in SUBSET Viewers /\ closed \in SUBSET Viewers
    /\ chan \in [Kinds -> [Viewers -> Seq(1..MaxMsgs)]]
    /\ job \in [Producers -> Jobs]
    /\ sent \in [Kinds -> 0..MaxMsgs]
    /\ newest \in [Kinds -> [Viewers -> 0..MaxMsgs]]
    /\ last \in [Kinds -> [Viewers -> 0..MaxMsgs]]
    /\ panicked \in BOOLEAN
    /\ \A k \in Kinds, v \in Viewers : Len(chan[k][v]) <= Cap[k]

Init ==
    /\ mu = {} /\ clients = {} /\ closed = {} /\ panicked = FALSE
    /\ chan = [k \in Kinds |-> [v \in Viewers |-> <<>>]]
    /\ job = [p \in Producers |-> NoJob]
    /\ sent = [k \in Kinds |-> 0]
    /\ newest = [k \in Kinds |-> [v \in Viewers |-> 0]]
    /\ last = [k \in Kinds |-> [v \in Viewers |-> 0]]

Room(k, v) == Len(chan[k][v]) < Cap[k]

\* Subscribe: a fresh Client with empty channels is added under the mutex.
Subscribe(v) ==
    /\ mu = {}
    /\ v \notin clients \cup closed
    /\ clients' = clients \cup {v}
    /\ UNCHANGED <<mu, chan, closed, job, sent, newest, last, panicked>>

\* Unsubscribe: removed and closed in one critical section.
Unsubscribe(v) ==
    /\ mu = {}
    /\ v \in clients
    /\ clients' = clients \ {v}
    /\ closed' = closed \cup {v}
    /\ UNCHANGED <<mu, chan, job, sent, newest, last, panicked>>

\* Broadcast, BroadcastStatus: take the mutex and start the loop.
Lock(p, k) ==
    /\ job[p].step = "idle"
    /\ sent[k] < MaxMsgs
    /\ mu = {}
    /\ mu' = {p}
    /\ sent' = [sent EXCEPT ![k] = @ + 1]
    /\ job' = [job EXCEPT ![p] = [step |-> "send", kind |-> k, msg |-> sent[k] + 1,
                                  todo |-> clients, cur |-> Nobody]]
    /\ UNCHANGED <<clients, chan, closed, newest, last, panicked>>

\* A send that finds room; the loop goes on to the next client.
Deliver(p, v) ==
    LET k == job[p].kind IN
    /\ chan' = [chan EXCEPT ![k][v] = Append(@, job[p].msg)]
    /\ newest' = [newest EXCEPT ![k][v] = job[p].msg]
    /\ job' = [job EXCEPT ![p].step = "send", ![p].todo = @ \ {v}, ![p].cur = Nobody]

\* First attempt for the next client of the loop, in any order.
TrySend(p, v) ==
    LET k == job[p].kind IN
    /\ job[p].step = "send"
    /\ v \in job[p].todo
    /\ panicked' = (panicked \/ v \in closed)
    /\ IF Room(k, v)
       THEN Deliver(p, v)
       ELSE /\ job' = [job EXCEPT ![p].step = "evict", ![p].cur = v]
            /\ UNCHANGED <<chan, newest>>
    /\ UNCHANGED <<mu, clients, closed, sent, last>>

\* Take the oldest message out, unless the viewer emptied the channel meanwhile.
Evict(p) ==
    LET k == job[p].kind  v == job[p].cur IN
    /\ job[p].step = "evict"
    /\ job' = [job EXCEPT ![p].step = "retry"]
    /\ chan' = [chan EXCEPT ![k][v] = IF @ = <<>> THEN @ ELSE Tail(@)]
    /\ UNCHANGED <<mu, clients, closed, sent, newest, last, panicked>>

\* Second attempt; a message that finds no room now is dropped.
Retry(p) ==
    LET k == job[p].kind  v == job[p].cur IN
    /\ job[p].step = "retry"
    /\ panicked' = (panicked \/ v \in closed)
    /\ IF Room(k, v)
       THEN Deliver(p, v)
       ELSE /\ job' = [job EXCEPT ![p].step = "send", ![p].todo = @ \ {v}, ![p].cur = Nobody]
            /\ newest' = [newest EXCEPT ![k][v] = job[p].msg]
            /\ UNCHANGED chan
    /\ UNCHANGED <<mu, clients, closed, sent, last>>

\* The loop is over: the deferred unlock.
Unlock(p) ==
    /\ job[p].step = "send"
    /\ job[p].todo = {}
    /\ mu' = mu \ {p}
    /\ job' = [job EXCEPT ![p] = NoJob]
    /\ UNCHANGED <<clients, chan, closed, sent, newest, last, panicked>>

\* serveRemoteStream's select takes a message; it does so without the mutex.
Receive(v, k) ==
    /\ v \in clients
    /\ chan[k][v] # <<>>
    /\ last' = [last EXCEPT ![k][v] = Head(chan[k][v])]
    /\ chan' = [chan EXCEPT ![k][v] = Tail(@)]
    /\ UNCHANGED <<mu, clients, closed, job, sent, newest, panicked>>

Broadcasting(p) == (\E v \in Viewers : TrySend(p, v)) \/ Evict(p) \/ Retry(p) \/ Unlock(p)

Next ==
    \/ \E p \in Producers, k \in Kinds : Lock(p, k)
    \/ \E p \in Producers : Broadcasting(p)
    \/ \E v \in Viewers : Subscribe(v) \/ Unsubscribe(v)
    \/ \E v \in Viewers, k \in Kinds : Receive(v, k)

Spec == Init /\ [][Next]_vars

-----------------------------------------------------------------------------
(* Properties. *)

Idle(k) == \A p \in Producers : job[p].kind # k

\* Whatever a slow viewer misses, it is never the newest message: once a
\* broadcast is over, the newest message for a client is the last one in its
\* channel or has been received.  Code: the second attempt in Broadcast and
\* BroadcastStatus may drop the message it was called for.
NewestKept ==
    \A k \in Kinds, v \in Viewers :
        (Idle(k) /\ v \in clients)
            => \/ last[k][v] = newest[k][v]
               \/ chan[k][v] # <<>> /\ Last(chan[k][v]) = newest[k][v]

\* A viewer sees the messages of one kind in the order of the broadcasts, each
\* at most once, with several producers and evictions in between.
InOrder ==
    \A k \in Kinds, v \in Viewers :
        \A i \in 1..Len(chan[k][v]) :
            LET q == <<last[k][v]>> \o chan[k][v] IN q[i] < q[i + 1]

\* No producer ever sends on the closed channel of a viewer that left.
NeverPanics == ~panicked
=============================================================================
