---------------------------- MODULE CommandQueue ----------------------------
(***************************************************************************)
(* The command channel between the HTTP handlers and the browser session:  *)
(* Controller.Request and Controller.Enqueue on one side, the select loop  *)
(* of browserSession.run on the other.                                     *)
(*                                                                         *)
(* A request waits up to 2 s for room in the channel and up to 30 s for    *)
(* its result, and may be cancelled at any moment with its HTTP request.   *)
(* A command that is in the channel stays there: nobody takes it back when *)
(* the requester has left, nor when the browser dies, so the next session  *)
(* runs it.  Each command carries a result channel of capacity 1, so that  *)
(* the loop can answer a requester that is no longer there.                *)
(***************************************************************************)
EXTENDS Integers, Sequences, SequencesExt

CONSTANTS
    Requests,   \* commands, one per call of Request or Enqueue
    Moves,      \* those sent with Enqueue (touch moves): nobody waits for them
    Loads,      \* those that load a page: navigate and reload
    QueueCap,   \* capacity of Controller.cmds (64 in the code)
    MaxDeaths   \* bound: how often the browser dies

ASSUME SubsetAssumption == Moves \subseteq Requests /\ Loads \subseteq Requests \ Moves
ASSUME BoundAssumption == QueueCap \in Nat \ {0} /\ MaxDeaths \in Nat

VARIABLES
    stage,     \* how far each call has come
    cmds,      \* Controller.cmds
    result,    \* the result channel of each command
    loop,      \* the session: "down", "select", "exec", "reply", "after"
    cur,       \* the command the session has in hand
    outcome,   \* the result it got for it
    alive,     \* the browser behind the session
    deaths,    \* bound counter
    stopped,   \* the process has been told to stop
    reapply,   \* browserSession.reapplyCh (capacity 1) holds a token
    stale,     \* a document was loaded since the loop last went to apply the guards
    loading,   \* the browser has load events to deliver
    \* history variables
    accepted,  \* every command that entered cmds, in order
    effects    \* how often each command took effect in the browser

callVars    == <<stage, cmds, result, accepted>>
sessionVars == <<loop, cur, outcome, alive, deaths, stopped, reapply, stale, loading>>
vars        == <<callVars, sessionVars, effects>>

None     == "none"
Waiting  == {"sending", "waiting"}
Returned == {"refused", "busy", "dropped", "cancelled", "abandoned", "ok", "error", "queued"}

TypeOK ==
    /\ stage \in [Requests -> {"new"} \cup Waiting \cup Returned]
    /\ cmds \in Seq(Requests) /\ Len(cmds) <= QueueCap
    /\ result \in [Requests -> {None, "ok", "error"}]
    /\ loop \in {"down", "select", "exec", "reply", "after"}
    /\ cur \in Requests \cup {None}
    /\ outcome \in {None, "ok", "error"}
    /\ alive \in BOOLEAN /\ stopped \in BOOLEAN /\ reapply \in BOOLEAN
    /\ stale \in BOOLEAN /\ loading \in BOOLEAN
    /\ deaths \in Nat
    /\ accepted \in Seq(Requests)
    /\ effects \in [Requests -> Nat]

Init ==
    /\ stage = [r \in Requests |-> "new"]
    /\ cmds = <<>> /\ accepted = <<>>
    /\ result = [r \in Requests |-> None]
    /\ loop = "down" /\ cur = None /\ outcome = None
    /\ alive = FALSE /\ deaths = 0 /\ stopped = FALSE
    /\ reapply = FALSE /\ stale = FALSE /\ loading = FALSE
    /\ effects = [r \in Requests |-> 0]

-----------------------------------------------------------------------------
(* Controller.Request and Controller.Enqueue. *)

To(r, s) == stage' = [stage EXCEPT ![r] = s]

\* The send on cmds that finds room.
Put(r) ==
    /\ Len(cmds) < QueueCap
    /\ cmds' = Append(cmds, r)
    /\ accepted' = Append(accepted, r)

\* ensureAwake: the display sleeps and cannot be woken; Request fails, and
\* Enqueue returns like one that has sent.
WakeFails(r) ==
    /\ stage[r] = "new"
    /\ To(r, IF r \in Moves THEN "dropped" ELSE "refused")
    /\ UNCHANGED <<cmds, result, accepted, sessionVars, effects>>

\* ensureAwake found the display awake, or woke it, and the select begins.
Awake(r) ==
    /\ stage[r] = "new" /\ r \notin Moves
    /\ To(r, "sending")
    /\ UNCHANGED <<cmds, result, accepted, sessionVars, effects>>

Send(r) ==
    /\ stage[r] = "sending"
    /\ To(r, "waiting")
    /\ Put(r)
    /\ UNCHANGED <<result, sessionVars, effects>>

\* Two seconds without room: "kiosk browser is busy".
Busy(r) ==
    /\ stage[r] = "sending"
    /\ Len(cmds) = QueueCap
    /\ To(r, "busy")
    /\ UNCHANGED <<cmds, result, accepted, sessionVars, effects>>

\* The HTTP request is cancelled before the command is in the channel.
CancelSend(r) ==
    /\ stage[r] = "sending"
    /\ To(r, "cancelled")
    /\ UNCHANGED <<cmds, result, accepted, sessionVars, effects>>

\* (Fault) A caller that gave up is told that its command was refused.
AbandonAsBusy(r) ==
    /\ stage[r] = "waiting"
    /\ To(r, "busy")
    /\ UNCHANGED <<cmds, result, accepted, sessionVars, effects>>

\* The HTTP request is cancelled, or 30 s pass without a result.
Abandon(r) ==
    /\ stage[r] = "waiting"
    /\ To(r, "abandoned")
    /\ UNCHANGED <<cmds, result, accepted, sessionVars, effects>>

Answered(r) ==
    /\ stage[r] = "waiting"
    /\ result[r] # None
    /\ To(r, result[r])
    /\ result' = [result EXCEPT ![r] = None]
    /\ UNCHANGED <<cmds, accepted, sessionVars, effects>>

\* Enqueue: sent if there is room, dropped silently otherwise.  It returns nothing,
\* and the handler of the touch answers "ok" in either case.
EnqueuePut(r) ==
    /\ stage[r] = "new" /\ r \in Moves
    /\ To(r, "queued")
    /\ Put(r)
    /\ UNCHANGED <<result, sessionVars, effects>>

EnqueueDrop(r) ==
    /\ stage[r] = "new" /\ r \in Moves
    /\ Len(cmds) = QueueCap
    /\ To(r, "dropped")
    /\ UNCHANGED <<cmds, result, accepted, sessionVars, effects>>

-----------------------------------------------------------------------------
(* browserSession.run. *)

\* (Fault) A browser that died is not replaced.
SessionStartOnce ==
    /\ loop = "down" /\ ~stopped /\ deaths = 0
    /\ loop' = "select" /\ alive' = TRUE
    /\ reapply' = FALSE /\ stale' = FALSE /\ loading' = FALSE
    /\ UNCHANGED <<callVars, cur, outcome, deaths, stopped, effects>>

\* runBrowser: a new browser with its guards applied and new channels.
SessionStart ==
    /\ loop = "down" /\ ~stopped
    /\ loop' = "select" /\ alive' = TRUE
    /\ reapply' = FALSE /\ stale' = FALSE /\ loading' = FALSE
    /\ UNCHANGED <<callVars, cur, outcome, deaths, stopped, effects>>

BrowserDies ==
    /\ alive /\ deaths < MaxDeaths
    /\ alive' = FALSE /\ deaths' = deaths + 1
    /\ UNCHANGED <<callVars, loop, cur, outcome, stopped, reapply, stale, loading, effects>>

\* The select notices the dead browser, or that the process is to stop.
SessionEnd ==
    /\ loop = "select"
    /\ ~alive \/ stopped
    /\ loop' = "down" /\ alive' = FALSE
    /\ UNCHANGED <<callVars, cur, outcome, deaths, stopped, reapply, stale, loading, effects>>

Stop ==
    /\ ~stopped
    /\ stopped' = TRUE
    /\ UNCHANGED <<callVars, loop, cur, outcome, alive, deaths, reapply, stale, loading, effects>>

\* <-cmds: the oldest command.
Take ==
    /\ loop = "select"
    /\ cmds # <<>>
    /\ cur' = Head(cmds) /\ cmds' = Tail(cmds)
    /\ loop' = "exec"
    /\ UNCHANGED <<stage, result, accepted, outcome, alive, deaths, stopped, reapply,
                   stale, loading, effects>>

\* runCmd.  It may fail before or after the browser did its part; with a dead
\* browser it fails at once.
Exec ==
    /\ loop = "exec"
    /\ loop' = "reply"
    /\ \E res \in {"ok", "error"}, done \in {TRUE, FALSE} :
          /\ res = "ok" => done
          /\ done => alive
          /\ outcome' = res
          /\ effects' = [effects EXCEPT ![cur] = IF done THEN @ + 1 ELSE @]
          /\ stale' = (stale \/ (done /\ cur \in Loads))
          /\ loading' = (loading \/ (done /\ cur \in Loads))
    /\ UNCHANGED <<callVars, cur, alive, deaths, stopped, reapply>>

\* cmd.result <- ...; it would block if the channel held a result already.
Reply ==
    /\ loop = "reply"
    /\ result[cur] = None
    /\ result' = [result EXCEPT ![cur] = outcome]
    /\ loop' = "after"
    /\ UNCHANGED <<stage, cmds, accepted, cur, outcome, alive, deaths, stopped, reapply,
                   stale, loading, effects>>

\* A navigate or reload asks for the guards; then back to the select.
After ==
    /\ loop = "after"
    /\ loop' = "select" /\ cur' = None /\ outcome' = None
    /\ reapply' = (reapply \/ cur \in Loads)
    /\ UNCHANGED <<callVars, alive, deaths, stopped, stale, loading, effects>>

\* The page loads a document on its own account: a click on a link.
PageLoads ==
    /\ alive /\ ~loading
    /\ stale' = TRUE /\ loading' = TRUE
    /\ UNCHANGED <<callVars, loop, cur, outcome, alive, deaths, stopped, reapply, effects>>

\* (Fault) A load event does not ask for the guards.
LoadEventSilent ==
    /\ alive /\ loading
    /\ loading' = FALSE
    /\ UNCHANGED <<callVars, loop, cur, outcome, alive, deaths, stopped, reapply, stale, effects>>

\* FrameNavigated and LoadEventFired, on the event callback.
LoadEvent ==
    /\ alive /\ loading
    /\ loading' = FALSE /\ reapply' = TRUE
    /\ UNCHANGED <<callVars, loop, cur, outcome, alive, deaths, stopped, stale, effects>>

\* <-reapplyCh: lockViewport, applyGuards, and the screencast again.  The loop
\* ignores the error of applyGuards; whether the guards took is not modelled.
Reapply ==
    /\ loop = "select"
    /\ reapply
    /\ reapply' = FALSE /\ stale' = FALSE
    /\ UNCHANGED <<callVars, loop, cur, outcome, alive, deaths, stopped, loading, effects>>

-----------------------------------------------------------------------------

Serve == Exec \/ Reply \/ After

Next ==
    \/ \E r \in Requests :
          \/ WakeFails(r) \/ Awake(r) \/ Send(r) \/ Busy(r) \/ CancelSend(r)
          \/ Abandon(r) \/ Answered(r) \/ EnqueuePut(r) \/ EnqueueDrop(r)
    \/ SessionStart \/ BrowserDies \/ SessionEnd \/ Stop
    \/ Take \/ Serve
    \/ PageLoads \/ LoadEvent \/ Reapply

\* The timers of a request (nothing is assumed of cancellations); the session
\* goroutine, whose select picks a ready case at random and so takes a command
\* that stays ready sooner or later; the browser manager; the event callback.
Fairness ==
    /\ \A r \in Requests : /\ WF_vars(Send(r) \/ Busy(r))
                          /\ WF_vars(Abandon(r) \/ Answered(r))
    /\ WF_vars(Serve) /\ SF_vars(Take)
    /\ WF_vars(SessionStart) /\ WF_vars(SessionEnd)
    /\ WF_vars(LoadEvent) /\ SF_vars(Reapply)

Spec     == Init /\ [][Next]_vars
FairSpec == Spec /\ Fairness

-----------------------------------------------------------------------------
(* Properties. *)

Told(r) ==
    CASE stage[r] \in {"refused", "busy", "cancelled"} -> "refused"
      [] stage[r] = "dropped"   -> "dropped"
      [] stage[r] = "ok"        -> "ok"
      [] stage[r] = "error"     -> "error"
      [] stage[r] = "abandoned" -> "unknown"
      [] OTHER                  -> "nothing"

\* The command in hand has been dealt with once its effect is decided.
InHand == IF loop = "exec" THEN 1 ELSE 0

Service == INSTANCE CommandService WITH
    accepted  <- accepted,
    processed <- Len(accepted) - Len(cmds) - InHand,
    applied   <- {r \in Requests : effects[r] > 0},
    told      <- [r \in Requests |-> Told(r)]

\* The channel, with its timeouts, cancellations, drops and the restarts of the
\* browser in between, keeps the promises of CommandService.
ImplementsService == Service!Spec

\* No command is performed twice, whatever dies or times out in between.
AtMostOnce == \A r \in Requests : effects[r] <= 1

\* The session loop never waits for a requester: the result channel of the
\* command in hand is empty, also when the requester left long ago.
LoopNeverBlocks == loop = "reply" => result[cur] = None

\* After a document was loaded, the loop goes to apply the guards (download, file
\* chooser and request interception) again: the load event has not been delivered
\* yet or the token is in reapplyCh.  Dropping the send on a full reapplyCh loses
\* nothing, although the loop may be inside a command.
GuardsReapplied == (stale /\ alive) => (loading \/ reapply)

\* A command in the channel leaves it unless the process stops: sessions that
\* die are replaced, and the replacement goes on with the channel.
QueueServed == \A r \in Requests : (r \in ToSet(cmds) /\ ~stopped) ~> (r \notin ToSet(cmds) \/ stopped)
=============================================================================
