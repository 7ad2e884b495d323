------------------------- MODULE CommandQueueProofs -------------------------
(***************************************************************************)
(* Proofs about CommandQueue, for any number of commands, any capacity of  *)
(* the channel and any number of browser deaths.                           *)
(*                                                                         *)
(* The channel always holds the last part of the sequence of accepted      *)
(* commands, and the command in hand is the one before it.  QueueInv says  *)
(* so, and that effects and results exist only for commands before that.   *)
(***************************************************************************)
EXTENDS CommandQueue, TLAPS

\* How many commands the session has taken, and how many it has answered.
Taken == Len(accepted) - Len(cmds)
Served == Taken - (IF loop \in {"exec", "reply"} THEN 1 ELSE 0)

NotIn == {"new", "sending", "refused", "busy", "dropped", "cancelled"}

ChannelIsSuffix ==
    /\ Len(cmds) <= Len(accepted)
    /\ \A i \in 1..Len(cmds) : cmds[i] = accepted[Taken + i]

HandIsNext ==
    loop \in {"exec", "reply"} => Taken \in 1..Len(accepted) /\ cur = accepted[Taken]

NoRepetition ==
    \A i, j \in 1..Len(accepted) : accepted[i] = accepted[j] => i = j

AcceptedByStage ==
    \A i \in 1..Len(accepted) : stage[accepted[i]] \notin NotIn

StageAccepted ==
    \A r \in Requests : stage[r] \notin NotIn => \E i \in 1..Len(accepted) : accepted[i] = r

EffectsBehind ==
    \A r \in Requests : /\ effects[r] \in {0, 1}
                        /\ effects[r] = 1 => \E i \in 1..(Taken - InHand) : accepted[i] = r

ResultsBehind ==
    \A r \in Requests : /\ result[r] # None => \E i \in 1..Served : accepted[i] = r
                        /\ result[r] = "ok" => effects[r] = 1

OutcomeTrue ==
    loop = "reply" => outcome # None /\ (outcome = "ok" => effects[cur] = 1)

\* The inductive invariant.
QueueInv ==
    /\ TypeOK
    /\ ChannelIsSuffix /\ HandIsNext
    /\ NoRepetition /\ AcceptedByStage /\ StageAccepted
    /\ EffectsBehind /\ ResultsBehind /\ OutcomeTrue

-----------------------------------------------------------------------------
\* The initial state of the channel and of the session is well typed.
LEMMA TypeInit == Init => TypeOK
<1> SUFFICES ASSUME Init PROVE TypeOK
  OBVIOUS
<1>1. /\ alive \in BOOLEAN /\ stopped \in BOOLEAN /\ reapply \in BOOLEAN
      /\ stale \in BOOLEAN /\ loading \in BOOLEAN
  BY Zenon DEF Init
<1>2. QED
  BY <1>1, BoundAssumption DEF Init, TypeOK, Waiting, Returned

\* Every step of a caller, of the session loop and of the browser keeps the types.
LEMMA TypeNext == TypeOK /\ [Next]_vars => TypeOK'
<1> SUFFICES ASSUME TypeOK, [Next]_vars PROVE TypeOK'
  OBVIOUS
<1> USE BoundAssumption DEF TypeOK, Waiting, Returned, callVars, sessionVars, To, Put
<1>1. ASSUME NEW r \in Requests, WakeFails(r) PROVE TypeOK'
  BY <1>1 DEF WakeFails
<1>2. ASSUME NEW r \in Requests, Awake(r) PROVE TypeOK'
  BY <1>2 DEF Awake
<1>3. ASSUME NEW r \in Requests, Send(r) PROVE TypeOK'
  BY <1>3 DEF Send
<1>4. ASSUME NEW r \in Requests, Busy(r) PROVE TypeOK'
  BY <1>4 DEF Busy
<1>5. ASSUME NEW r \in Requests, CancelSend(r) PROVE TypeOK'
  BY <1>5 DEF CancelSend
<1>6. ASSUME NEW r \in Requests, Abandon(r) PROVE TypeOK'
  BY <1>6 DEF Abandon
<1>7. ASSUME NEW r \in Requests, Answered(r) PROVE TypeOK'
  BY <1>7 DEF Answered
<1>8. ASSUME NEW r \in Requests, EnqueuePut(r) PROVE TypeOK'
  BY <1>8 DEF EnqueuePut
<1>9. ASSUME NEW r \in Requests, EnqueueDrop(r) PROVE TypeOK'
  BY <1>9 DEF EnqueueDrop
<1>10. CASE SessionStart
  BY <1>10 DEF SessionStart
<1>11. CASE BrowserDies
  <2>1. alive' \in BOOLEAN
    BY <1>11, Zenon DEF BrowserDies
  <2> QED
    BY <1>11, <2>1 DEF BrowserDies
<1>12. CASE SessionEnd
  BY <1>12 DEF SessionEnd
<1>13. CASE Stop
  BY <1>13 DEF Stop
<1>14. CASE Take
  BY <1>14 DEF Take
<1>15. CASE Exec
  <2>1. PICK res \in {"ok", "error"}, done \in {TRUE, FALSE} :
          /\ outcome' = res
          /\ effects' = [effects EXCEPT ![cur] = IF done THEN @ + 1 ELSE @]
          /\ stale' = (stale \/ (done /\ cur \in Loads))
          /\ loading' = (loading \/ (done /\ cur \in Loads))
    BY <1>15 DEF Exec
  <2>2. stale' \in BOOLEAN /\ loading' \in BOOLEAN
    BY <2>1, Zenon
  <2>3. effects' \in [Requests -> Nat]
    <3>1. CASE done
      <4>1. effects' = [effects EXCEPT ![cur] = effects[cur] + 1]
        BY <2>1, <3>1
      <4>2. CASE cur \in Requests
        <5>1. effects[cur] + 1 \in Nat
          BY <4>2
        <5> QED
          BY <4>1, <5>1
      <4>3. CASE cur \notin Requests
        BY <4>1, <4>3
      <4> QED
        BY <4>2, <4>3
    <3>2. CASE ~done
      BY <2>1, <3>2
    <3> QED
      BY <3>1, <3>2
  <2> QED
    BY <1>15, <2>1, <2>2, <2>3 DEF Exec
<1>16. CASE Reply
  BY <1>16 DEF Reply
<1>17. CASE After
  BY <1>17 DEF After
<1>18. CASE PageLoads
  BY <1>18 DEF PageLoads
<1>19. CASE LoadEvent
  BY <1>19 DEF LoadEvent
<1>20. CASE Reapply
  BY <1>20 DEF Reapply
<1>21. CASE UNCHANGED vars
  BY <1>21 DEF vars
<1> QED
  BY <1>1, <1>2, <1>3, <1>4, <1>5, <1>6, <1>7, <1>8, <1>9, <1>10,
     <1>11, <1>12, <1>13, <1>14, <1>15, <1>16, <1>17, <1>18, <1>19, <1>20, <1>21
     DEF Next, Serve

-----------------------------------------------------------------------------
(* The steps that leave the channel alone. *)

\* With nothing sent yet, the channel, the hand and the results agree trivially.
LEMMA QueueInvInit == Init => QueueInv
<1> SUFFICES ASSUME Init PROVE QueueInv
  OBVIOUS
<1>1. TypeOK
  BY TypeInit
<1>2. ChannelIsSuffix /\ HandIsNext /\ NoRepetition /\ AcceptedByStage /\ OutcomeTrue
  BY DEF Init, ChannelIsSuffix, HandIsNext, NoRepetition, AcceptedByStage, OutcomeTrue
<1>3. StageAccepted /\ EffectsBehind /\ ResultsBehind
  BY DEF Init, StageAccepted, NotIn, EffectsBehind, ResultsBehind, None
<1> QED
  BY <1>1, <1>2, <1>3 DEF QueueInv

\* A step of the browser, or of a session with no command in hand, that touches
\* neither the channel nor a call keeps the invariant.
LEMMA QuietStep ==
  ASSUME QueueInv, TypeOK',
         UNCHANGED <<stage, cmds, accepted, result, effects>>,
         \/ UNCHANGED <<loop, cur, outcome>>
         \/ loop \notin {"exec", "reply"} /\ loop' \notin {"exec", "reply"}
  PROVE  QueueInv'
<1>1. Taken' = Taken /\ Served' = Served /\ InHand' = InHand
  BY DEF Taken, Served, InHand
<1>2. ChannelIsSuffix' /\ HandIsNext'
  BY <1>1 DEF QueueInv, ChannelIsSuffix, HandIsNext
<1>3. NoRepetition' /\ AcceptedByStage' /\ StageAccepted'
  BY DEF QueueInv, NoRepetition, AcceptedByStage, StageAccepted
<1>4. EffectsBehind' /\ ResultsBehind' /\ OutcomeTrue'
  BY <1>1 DEF QueueInv, EffectsBehind, ResultsBehind, OutcomeTrue
<1> QED
  BY <1>2, <1>3, <1>4 DEF QueueInv

\* A call that moves on without sending its command, or after having sent it,
\* keeps the invariant.
LEMMA StageStep ==
  ASSUME QueueInv, TypeOK', NEW r \in Requests, NEW s, To(r, s),
         stage[r] \in NotIn <=> s \in NotIn,
         UNCHANGED <<cmds, result, accepted, sessionVars, effects>>
  PROVE  QueueInv'
<1>1. UNCHANGED <<cmds, result, accepted, effects, loop, cur, outcome>>
  BY DEF sessionVars
<1>2. Taken' = Taken /\ Served' = Served /\ InHand' = InHand
  BY <1>1 DEF Taken, Served, InHand
<1>3. \A q \in Requests : stage'[q] \in NotIn <=> stage[q] \in NotIn
  BY DEF To, QueueInv, TypeOK
<1>4. ChannelIsSuffix' /\ HandIsNext' /\ NoRepetition'
  BY <1>1, <1>2 DEF QueueInv, ChannelIsSuffix, HandIsNext, NoRepetition
<1>5. AcceptedByStage' /\ StageAccepted'
  BY <1>1, <1>3 DEF QueueInv, TypeOK, AcceptedByStage, StageAccepted
<1>6. EffectsBehind' /\ ResultsBehind' /\ OutcomeTrue'
  BY <1>1, <1>2 DEF QueueInv, EffectsBehind, ResultsBehind, OutcomeTrue
<1> QED
  BY <1>4, <1>5, <1>6 DEF QueueInv

\* A caller that takes its result keeps the invariant.
LEMMA AnsweredStep ==
  ASSUME QueueInv, TypeOK', NEW r \in Requests, Answered(r)
  PROVE  QueueInv'
<1>1. UNCHANGED <<cmds, accepted, effects, loop, cur, outcome>>
  BY DEF Answered, sessionVars
<1>2. Taken' = Taken /\ Served' = Served /\ InHand' = InHand
  BY <1>1 DEF Taken, Served, InHand
<1>3. \A q \in Requests : stage'[q] \in NotIn <=> stage[q] \in NotIn
  BY DEF Answered, To, QueueInv, TypeOK, NotIn, None
<1>4. \A q \in Requests : result'[q] = None \/ result'[q] = result[q]
  BY DEF Answered, QueueInv, TypeOK
<1>5. ChannelIsSuffix' /\ HandIsNext' /\ NoRepetition'
  BY <1>1, <1>2 DEF QueueInv, ChannelIsSuffix, HandIsNext, NoRepetition
<1>6. AcceptedByStage' /\ StageAccepted'
  BY <1>1, <1>3 DEF QueueInv, TypeOK, AcceptedByStage, StageAccepted
<1>7. EffectsBehind' /\ OutcomeTrue'
  BY <1>1, <1>2 DEF QueueInv, EffectsBehind, OutcomeTrue
<1>8. ResultsBehind'
  BY <1>1, <1>2, <1>4 DEF QueueInv, ResultsBehind, None
<1> QED
  BY <1>5, <1>6, <1>7, <1>8 DEF QueueInv

-----------------------------------------------------------------------------
(* A command enters the channel. *)

\* A call whose command was not accepted before sends it: it becomes the last
\* of both sequences, and those taken and served stay where they are.
LEMMA PutStep ==
  ASSUME QueueInv, TypeOK', NEW r \in Requests, NEW s, To(r, s), Put(r),
         stage[r] \in NotIn, s \notin NotIn,
         UNCHANGED <<result, sessionVars, effects>>
  PROVE  QueueInv'
<1> DEFINE n == Len(accepted)
           m == Len(cmds)
<1>1. UNCHANGED <<result, effects, loop, cur, outcome>>
  BY DEF sessionVars
<1>2. \A i \in 1..n : accepted[i] # r
  BY DEF QueueInv, AcceptedByStage
<1>3. /\ n \in Nat /\ Len(accepted') = n + 1 /\ accepted'[n + 1] = r
      /\ \A i \in 1..n : accepted'[i] = accepted[i]
  BY DEF QueueInv, TypeOK, Put
<1>4. /\ m \in Nat /\ Len(cmds') = m + 1 /\ cmds'[m + 1] = r
      /\ \A i \in 1..m : cmds'[i] = cmds[i]
  BY DEF QueueInv, TypeOK, Put
<1>5. Taken' = Taken /\ Served' = Served /\ InHand' = InHand
  BY <1>1, <1>3, <1>4 DEF Taken, Served, InHand
<1>6. Taken = n - m /\ m <= n
  BY DEF Taken, QueueInv, ChannelIsSuffix
<1>7. ChannelIsSuffix'
  <2>1. ASSUME NEW i \in 1..(m + 1) PROVE cmds'[i] = accepted'[Taken + i]
    <3>1. CASE i = m + 1
      BY <1>3, <1>4, <1>6, <3>1
    <3>2. CASE i \in 1..m
      <4>1. Taken + i \in 1..n
        BY <1>3, <1>4, <1>6, <3>2
      <4>2. cmds[i] = accepted[Taken + i]
        BY <3>2 DEF QueueInv, ChannelIsSuffix
      <4> QED
        BY <1>3, <1>4, <3>2, <4>1, <4>2
    <3> QED
      BY <1>4, <3>1, <3>2
  <2> QED
    BY <1>3, <1>4, <1>5, <1>6, <2>1 DEF ChannelIsSuffix
<1>8. HandIsNext'
  BY <1>1, <1>3, <1>5 DEF QueueInv, HandIsNext
<1>9. NoRepetition'
  BY <1>2, <1>3 DEF QueueInv, NoRepetition
<1>10. AcceptedByStage' /\ StageAccepted'
  <2>1. stage'[r] = s /\ \A q \in Requests : q # r => stage'[q] = stage[q]
    BY DEF To, QueueInv, TypeOK
  <2>2. AcceptedByStage'
    <3>1. ASSUME NEW i \in 1..n PROVE stage'[accepted'[i]] \notin NotIn
      <4>1. accepted'[i] = accepted[i] /\ accepted[i] \in Requests /\ accepted[i] # r
        BY <1>2, <1>3, SMTT(60) DEF QueueInv, TypeOK
      <4>2. stage[accepted[i]] \notin NotIn
        BY DEF QueueInv, AcceptedByStage
      <4> QED
        BY <2>1, <4>1, <4>2
    <3>2. stage'[accepted'[n + 1]] \notin NotIn
      BY <1>3, <2>1
    <3>3. 1..(n + 1) = 1..n \cup {n + 1}
      BY <1>3
    <3> QED
      BY <1>3, <3>1, <3>2, <3>3 DEF AcceptedByStage
  <2>3. ASSUME NEW q \in Requests, stage'[q] \notin NotIn
        PROVE  \E i \in 1..(n + 1) : accepted'[i] = q
    <3>1. CASE q = r
      BY <1>3, <3>1
    <3>2. CASE q # r
      <4>1. PICK i \in 1..n : accepted[i] = q
        BY <2>1, <2>3, <3>2 DEF QueueInv, StageAccepted
      <4> QED
        BY <1>3, <4>1
    <3> QED
      BY <3>1, <3>2
  <2> QED
    BY <1>3, <2>2, <2>3 DEF StageAccepted
<1>11. EffectsBehind'
  <2>1. \A i \in 1..(Taken - InHand) : i \in 1..n
    BY <1>3, <1>4, <1>6 DEF InHand
  <2> QED
    BY <1>1, <1>3, <1>5, <2>1 DEF QueueInv, EffectsBehind
<1>12. ResultsBehind'
  <2>1. \A i \in 1..Served : i \in 1..n
    BY <1>3, <1>4, <1>6 DEF Served
  <2> QED
    BY <1>1, <1>3, <1>5, <2>1 DEF QueueInv, ResultsBehind
<1>13. OutcomeTrue'
  BY <1>1 DEF QueueInv, OutcomeTrue
<1> QED
  BY <1>7, <1>8, <1>9, <1>10, <1>11, <1>12, <1>13 DEF QueueInv

-----------------------------------------------------------------------------
(* The session serves a command. *)

\* The session takes the oldest command.
LEMMA TakeStep ==
  ASSUME QueueInv, TypeOK', Take
  PROVE  QueueInv'
<1> DEFINE n == Len(accepted)
           m == Len(cmds)
<1>1. UNCHANGED <<stage, result, accepted, outcome, effects>> /\ loop' = "exec" /\ loop = "select"
  BY DEF Take
<1>2. /\ m \in Nat \ {0} /\ n \in Nat /\ Len(cmds') = m - 1 /\ cur' = cmds[1]
      /\ \A i \in 1..(m - 1) : cmds'[i] = cmds[i + 1]
  BY DEF QueueInv, TypeOK, Take
<1>3. Taken = n - m /\ m <= n /\ Taken' = Taken + 1
  BY <1>1, <1>2 DEF Taken, QueueInv, ChannelIsSuffix
<1>4. Served' = Served /\ Taken' - InHand' = Taken - InHand
  BY <1>1, <1>2, <1>3 DEF Served, InHand
<1>5. \A i \in 1..m : cmds[i] = accepted[Taken + i]
  BY DEF QueueInv, ChannelIsSuffix
<1>6. ChannelIsSuffix'
  <2>1. ASSUME NEW i \in 1..(m - 1) PROVE cmds'[i] = accepted[Taken + 1 + i]
    <3>1. cmds'[i] = cmds[i + 1] /\ i + 1 \in 1..m /\ Taken + (i + 1) = Taken + 1 + i
      BY <1>2, <1>3
    <3> QED
      BY <1>5, <3>1
  <2> QED
    BY <1>1, <1>2, <1>3, <2>1 DEF ChannelIsSuffix
<1>7. HandIsNext'
  <2>1. Taken + 1 \in 1..n /\ 1 \in 1..m
    BY <1>2, <1>3
  <2> QED
    BY <1>1, <1>2, <1>3, <1>5, <2>1 DEF HandIsNext
<1>8. NoRepetition' /\ AcceptedByStage' /\ StageAccepted'
  BY <1>1 DEF QueueInv, NoRepetition, AcceptedByStage, StageAccepted
<1>9. EffectsBehind' /\ ResultsBehind' /\ OutcomeTrue'
  BY <1>1, <1>4 DEF QueueInv, EffectsBehind, ResultsBehind, OutcomeTrue
<1> QED
  BY <1>6, <1>7, <1>8, <1>9 DEF QueueInv

\* The command in hand had no effect before: it is the last one taken, and those
\* with an effect were taken before it.
LEMMA FirstEffect ==
  ASSUME QueueInv, loop = "exec"
  PROVE  effects[cur] = 0 /\ cur \in Requests
<1>1. Taken \in 1..Len(accepted) /\ cur = accepted[Taken]
  BY DEF QueueInv, HandIsNext
<1>2. cur \in Requests
  BY <1>1 DEF QueueInv, TypeOK
<1>3. ASSUME effects[cur] = 1 PROVE FALSE
  <2>1. PICK i \in 1..(Taken - 1) : accepted[i] = cur
    BY <1>2, <1>3 DEF QueueInv, EffectsBehind, InHand
  <2>2. i \in 1..Len(accepted) /\ i # Taken
    BY <1>1, <2>1 DEF QueueInv, TypeOK
  <2> QED
    BY <1>1, <2>1, <2>2 DEF QueueInv, NoRepetition
<1> QED
  BY <1>2, <1>3 DEF QueueInv, EffectsBehind

\* The session runs the command in hand, with or without effect.
LEMMA ExecStep ==
  ASSUME QueueInv, TypeOK', Exec
  PROVE  QueueInv'
<1>1. UNCHANGED <<stage, cmds, result, accepted, cur>> /\ loop = "exec" /\ loop' = "reply"
  BY DEF Exec, callVars
<1>2. effects[cur] = 0 /\ cur \in Requests
  BY <1>1, FirstEffect
<1>3. PICK res \in {"ok", "error"}, done \in {TRUE, FALSE} :
        /\ res = "ok" => done
        /\ outcome' = res
        /\ effects' = [effects EXCEPT ![cur] = IF done THEN @ + 1 ELSE @]
  BY DEF Exec
<1>4. outcome' # None /\ (outcome' = "ok" => done)
  BY <1>3 DEF None
<1>5. /\ \A q \in Requests : q # cur => effects'[q] = effects[q]
      /\ effects'[cur] \in {0, 1} /\ (done => effects'[cur] = 1)
  <2>1. CASE done
    <3>1. effects' = [effects EXCEPT ![cur] = effects[cur] + 1]
      BY <1>3, <2>1
    <3> QED
      BY <1>2, <3>1 DEF QueueInv, TypeOK
  <2>2. CASE ~done
    <3>1. effects' = [effects EXCEPT ![cur] = effects[cur]]
      BY <1>3, <2>2
    <3> QED
      BY <1>2, <2>2, <3>1 DEF QueueInv, TypeOK
  <2> QED
    BY <2>1, <2>2
<1>6. Taken' = Taken /\ Served' = Served /\ InHand = 1 /\ InHand' = 0
  BY <1>1 DEF Taken, Served, InHand
<1>7. Taken \in 1..Len(accepted) /\ cur = accepted[Taken]
  BY <1>1 DEF QueueInv, HandIsNext
<1>8. ChannelIsSuffix' /\ HandIsNext'
  BY <1>1, <1>6, <1>7 DEF QueueInv, ChannelIsSuffix, HandIsNext
<1>9. NoRepetition' /\ AcceptedByStage' /\ StageAccepted'
  BY <1>1 DEF QueueInv, NoRepetition, AcceptedByStage, StageAccepted
<1>10. EffectsBehind'
  <2>1. ASSUME NEW q \in Requests
        PROVE  /\ effects'[q] \in {0, 1}
               /\ effects'[q] = 1 => \E i \in 1..Taken : accepted[i] = q
    <3>1. CASE q = cur
      BY <1>5, <1>7, <3>1
    <3>2. CASE q # cur
      <4>1. effects[q] \in {0, 1} /\ (effects[q] = 1 => \E i \in 1..(Taken - 1) : accepted[i] = q)
        BY <1>6 DEF QueueInv, EffectsBehind
      <4>2. 1..(Taken - 1) \subseteq 1..Taken
        BY <1>7
      <4> QED
        BY <1>5, <3>2, <4>1, <4>2
    <3> QED
      BY <3>1, <3>2
  <2>2. Taken - 0 = Taken
    BY <1>7
  <2> QED
    BY <1>1, <1>6, <2>1, <2>2 DEF EffectsBehind
<1>11. ResultsBehind'
  <2>1. \A q \in Requests : effects[q] = 1 => effects'[q] = 1
    BY <1>2, <1>5
  <2> QED
    BY <1>1, <1>6, <2>1 DEF QueueInv, ResultsBehind
<1>12. OutcomeTrue'
  BY <1>1, <1>4, <1>5 DEF OutcomeTrue
<1> QED
  BY <1>8, <1>9, <1>10, <1>11, <1>12 DEF QueueInv

\* The session answers, and the command counts as served.
LEMMA ReplyStep ==
  ASSUME QueueInv, TypeOK', Reply
  PROVE  QueueInv'
<1>1. UNCHANGED <<stage, cmds, accepted, cur, outcome, effects>> /\ loop = "reply" /\ loop' = "after"
  BY DEF Reply
<1>2. result' = [result EXCEPT ![cur] = outcome]
  BY DEF Reply
<1>3. Taken' = Taken /\ InHand' = InHand
  BY <1>1 DEF Taken, InHand
<1>4. Taken \in 1..Len(accepted) /\ cur = accepted[Taken]
  BY <1>1 DEF QueueInv, HandIsNext
<1>5. Served = Taken - 1 /\ Served' = Taken
  BY <1>1, <1>3, <1>4 DEF Served, Taken
<1>6. ChannelIsSuffix' /\ HandIsNext'
  BY <1>1, <1>3 DEF QueueInv, ChannelIsSuffix, HandIsNext
<1>7. NoRepetition' /\ AcceptedByStage' /\ StageAccepted'
  BY <1>1 DEF QueueInv, NoRepetition, AcceptedByStage, StageAccepted
<1>8. EffectsBehind' /\ OutcomeTrue'
  BY <1>1, <1>3 DEF QueueInv, EffectsBehind, OutcomeTrue
<1>9. ResultsBehind'
  <2>1. ASSUME NEW q \in Requests
        PROVE  /\ result'[q] # None => \E i \in 1..Taken : accepted[i] = q
               /\ result'[q] = "ok" => effects[q] = 1
    <3>1. CASE q = cur
      BY <1>1, <1>2, <1>4, <3>1 DEF QueueInv, TypeOK, OutcomeTrue
    <3>2. CASE q # cur
      <4>1. result'[q] = result[q]
        BY <1>2, <3>2 DEF QueueInv, TypeOK
      <4>2. 1..(Taken - 1) \subseteq 1..Taken
        BY <1>4
      <4> QED
        BY <1>5, <4>1, <4>2 DEF QueueInv, ResultsBehind
    <3> QED
      BY <3>1, <3>2
  <2> QED
    BY <1>1, <1>5, <2>1 DEF ResultsBehind
<1> QED
  BY <1>6, <1>7, <1>8, <1>9 DEF QueueInv

-----------------------------------------------------------------------------
\* Every step keeps the invariant of the channel.
LEMMA QueueInvNext == QueueInv /\ [Next]_vars => QueueInv'
<1> SUFFICES ASSUME QueueInv, [Next]_vars PROVE QueueInv'
  OBVIOUS
<1>1. TypeOK'
  BY TypeNext DEF QueueInv
<1>2. ASSUME NEW r \in Requests, WakeFails(r) PROVE QueueInv'
  BY <1>1, <1>2, StageStep DEF WakeFails, NotIn
<1>3. ASSUME NEW r \in Requests, Awake(r) PROVE QueueInv'
  BY <1>1, <1>3, StageStep DEF Awake, NotIn
<1>4. ASSUME NEW r \in Requests, Send(r) PROVE QueueInv'
  BY <1>1, <1>4, PutStep DEF Send, NotIn
<1>5. ASSUME NEW r \in Requests, Busy(r) PROVE QueueInv'
  BY <1>1, <1>5, StageStep DEF Busy, NotIn
<1>6. ASSUME NEW r \in Requests, CancelSend(r) PROVE QueueInv'
  BY <1>1, <1>6, StageStep DEF CancelSend, NotIn
<1>7. ASSUME NEW r \in Requests, Abandon(r) PROVE QueueInv'
  BY <1>1, <1>7, StageStep DEF Abandon, NotIn
<1>8. ASSUME NEW r \in Requests, Answered(r) PROVE QueueInv'
  BY <1>1, <1>8, AnsweredStep
<1>9. ASSUME NEW r \in Requests, EnqueuePut(r) PROVE QueueInv'
  BY <1>1, <1>9, PutStep DEF EnqueuePut, NotIn
<1>10. ASSUME NEW r \in Requests, EnqueueDrop(r) PROVE QueueInv'
  BY <1>1, <1>10, StageStep DEF EnqueueDrop, NotIn
<1>11. CASE SessionStart
  BY <1>1, <1>11, QuietStep DEF SessionStart, callVars
<1>12. CASE BrowserDies
  BY <1>1, <1>12, QuietStep DEF BrowserDies, callVars
<1>13. CASE SessionEnd
  BY <1>1, <1>13, QuietStep DEF SessionEnd, callVars
<1>14. CASE Stop
  BY <1>1, <1>14, QuietStep DEF Stop, callVars
<1>15. CASE Take
  BY <1>1, <1>15, TakeStep
<1>16. CASE Exec
  BY <1>1, <1>16, ExecStep
<1>17. CASE Reply
  BY <1>1, <1>17, ReplyStep
<1>18. CASE After
  BY <1>1, <1>18, QuietStep DEF After, callVars
<1>19. CASE PageLoads
  BY <1>1, <1>19, QuietStep DEF PageLoads, callVars
<1>20. CASE LoadEvent
  BY <1>1, <1>20, QuietStep DEF LoadEvent, callVars
<1>21. CASE Reapply
  BY <1>1, <1>21, QuietStep DEF Reapply, callVars
<1>22. CASE UNCHANGED vars
  BY <1>1, <1>22, QuietStep DEF vars, callVars, sessionVars
<1> QED
  BY <1>2, <1>3, <1>4, <1>5, <1>6, <1>7, <1>8, <1>9, <1>10, <1>11,
     <1>12, <1>13, <1>14, <1>15, <1>16, <1>17, <1>18, <1>19, <1>20, <1>21, <1>22
     DEF Next, Serve

\* The channel always holds the last commands accepted, the command in hand is
\* the one before them, and effects and results exist only further back.
LEMMA QueueInvHolds == Spec => []QueueInv
BY QueueInvInit, QueueInvNext, PTL DEF Spec

\* TypeOK of the channel and the session loop, for every number of requests and
\* every capacity: in particular the channel never holds more than QueueCap.
THEOREM TypeCorrect == Spec => []TypeOK
<1>1. QueueInv => TypeOK
  BY DEF QueueInv
<1> QED
  BY <1>1, QueueInvHolds, PTL

\* No command takes effect twice, through any timeout, cancellation or restart
\* of the browser.
THEOREM AtMostOnceHolds == Spec => []AtMostOnce
<1>1. QueueInv => AtMostOnce
  BY DEF QueueInv, EffectsBehind, AtMostOnce
<1> QED
  BY <1>1, QueueInvHolds, PTL

\* The session loop never blocks on the result channel of a command: it answers
\* each command once, so the channel of capacity 1 is empty when it does.
THEOREM LoopNeverBlocksHolds == Spec => []LoopNeverBlocks
<1>1. QueueInv => LoopNeverBlocks
  <2> SUFFICES ASSUME QueueInv, loop = "reply", result[cur] # None PROVE FALSE
    BY DEF LoopNeverBlocks
  <2>1. Taken \in 1..Len(accepted) /\ cur = accepted[Taken]
    BY DEF QueueInv, HandIsNext
  <2>2. cur \in Requests /\ Served = Taken - 1
    BY <2>1 DEF QueueInv, TypeOK, Served
  <2>3. PICK i \in 1..(Taken - 1) : accepted[i] = cur
    BY <2>2 DEF QueueInv, ResultsBehind
  <2>4. i \in 1..Len(accepted) /\ i # Taken
    BY <2>1, <2>3 DEF QueueInv, TypeOK
  <2> QED
    BY <2>1, <2>3, <2>4 DEF QueueInv, NoRepetition
<1> QED
  BY <1>1, QueueInvHolds, PTL
\* The guards of a live browser are never left unapplied after a document was
\* loaded: a load event or a token in reapplyCh is still to come.
THEOREM GuardsReappliedHolds == Spec => []GuardsReapplied
<1>1. Init => GuardsReapplied
  BY Zenon DEF Init, GuardsReapplied
<1>2. GuardsReapplied /\ [Next]_vars => GuardsReapplied'
  <2> SUFFICES ASSUME GuardsReapplied, [Next]_vars PROVE GuardsReapplied'
    OBVIOUS
  <2> USE DEF GuardsReapplied
  <2>1. CASE UNCHANGED <<stale, alive, loading, reapply>>
    BY <2>1
  <2>2. CASE SessionStart \/ SessionEnd \/ BrowserDies
    BY <2>2, Zenon DEF SessionStart, SessionEnd, BrowserDies
  <2>3. CASE Exec
    BY <2>3, Zenon DEF Exec
  <2>4. CASE After
    BY <2>4, Zenon DEF After
  <2>5. CASE PageLoads \/ LoadEvent \/ Reapply
    BY <2>5, Zenon DEF PageLoads, LoadEvent, Reapply
  <2>6. CASE Stop \/ Take \/ Reply \/ UNCHANGED vars
    BY <2>1, <2>6 DEF Stop, Take, Reply, vars, sessionVars
  <2>7. ASSUME NEW r \in Requests,
               \/ WakeFails(r) \/ Awake(r) \/ Send(r) \/ Busy(r) \/ CancelSend(r)
               \/ Abandon(r) \/ Answered(r) \/ EnqueuePut(r) \/ EnqueueDrop(r)
        PROVE  GuardsReapplied'
    BY <2>1, <2>7 DEF WakeFails, Awake, Send, Busy, CancelSend, Abandon, Answered,
                      EnqueuePut, EnqueueDrop, sessionVars
  <2> QED
    BY <2>2, <2>3, <2>4, <2>5, <2>6, <2>7, Zenon DEF Next, Serve
<1> QED
  BY <1>1, <1>2, PTL DEF Spec

-----------------------------------------------------------------------------
(* The channel implements CommandService. *)

\* The abstract state, under the names of CommandService.
Processed == Len(accepted) - Len(cmds) - InHand
Applied   == {r \in Requests : effects[r] > 0}
ToldAll   == [r \in Requests |-> Told(r)]

\* A caller whose command never entered the channel is none of the accepted
\* ones; every other caller is one of them.
LEMMA AcceptedIffStage ==
  ASSUME QueueInv, NEW r \in Requests
  PROVE  r \in Service!Accepted <=> stage[r] \notin NotIn
<1>1. ASSUME stage[r] \in NotIn, r \in Service!Accepted PROVE FALSE
  BY <1>1 DEF Service!Accepted, QueueInv, AcceptedByStage
<1>2. ASSUME stage[r] \notin NotIn PROVE r \in Service!Accepted
  BY <1>2 DEF Service!Accepted, QueueInv, StageAccepted
<1> QED
  BY <1>1, <1>2

\* A step of one caller changes what that caller is told, and nobody else.
LEMMA ToldStep ==
  ASSUME TypeOK, NEW r \in Requests, NEW s, To(r, s)
  PROVE  stage'[r] = s /\ ToldAll' = [ToldAll EXCEPT ![r] = Told(r)']
<1>1. stage'[r] = s /\ \A q \in Requests : q # r => stage'[q] = stage[q]
  BY DEF To, TypeOK
<1>2. \A q \in Requests : q # r => Told(q)' = Told(q)
  BY <1>1 DEF Told
<1> QED
  BY <1>1, <1>2 DEF ToldAll

\* A step that accepts nothing, processes nothing and tells nobody anything is
\* no step of the service.
LEMMA ServiceStutters ==
  ASSUME UNCHANGED <<stage, accepted, effects>>, Processed' = Processed
  PROVE  UNCHANGED Service!vars
BY DEF Service!vars, Processed, Told

\* A call that fails before its command is in the channel is a refusal, or a drop
\* that nobody hears of.
LEMMA RefuseStep ==
  ASSUME QueueInv, NEW r \in Requests, stage[r] \in {"new", "sending"},
         NEW s \in {"refused", "busy", "dropped", "cancelled"}, To(r, s),
         UNCHANGED <<cmds, result, accepted, sessionVars, effects>>
  PROVE  IF s = "dropped" THEN Service!Drop(r) ELSE Service!Refuse(r)
<1>1. r \notin Service!Accepted
  BY AcceptedIffStage DEF NotIn
<1>2. /\ Told(r) = "nothing" /\ Told(r)' = (IF s = "dropped" THEN "dropped" ELSE "refused")
      /\ ToldAll' = [ToldAll EXCEPT ![r] = Told(r)']
  BY ToldStep DEF QueueInv, Told
<1>3. UNCHANGED <<accepted, Processed, Applied>>
  BY DEF Processed, Applied, InHand, sessionVars
<1> QED
  BY <1>1, <1>2, <1>3 DEF Service!Refuse, Service!Drop, Processed, Applied, ToldAll

\* A command that enters the channel is accepted, and its caller told nothing.
LEMMA AcceptStep ==
  ASSUME QueueInv, NEW r \in Requests, stage[r] \in {"new", "sending"},
         NEW s \in {"waiting", "queued"}, To(r, s), Put(r),
         UNCHANGED <<result, sessionVars, effects>>
  PROVE  Service!Accept(r)
<1>1. r \notin Service!Accepted
  BY AcceptedIffStage DEF NotIn
<1>2. Told(r) = "nothing" /\ Told(r)' = "nothing" /\ ToldAll' = [ToldAll EXCEPT ![r] = Told(r)']
  BY ToldStep DEF QueueInv, Told
<1>3. ToldAll' = ToldAll
  BY <1>2 DEF ToldAll
<1>4. Len(accepted') = Len(accepted) + 1 /\ Len(cmds') = Len(cmds) + 1
  BY DEF QueueInv, TypeOK, Put
<1>5. Processed' = Processed /\ Applied' = Applied
  BY <1>4 DEF Processed, Applied, InHand, sessionVars, QueueInv, TypeOK
<1> QED
  BY <1>1, <1>2, <1>3, <1>5 DEF Service!Accept, Put, Processed, Applied, ToldAll

\* A caller that gives up is told nothing about the outcome.
LEMMA AbandonStep ==
  ASSUME QueueInv, NEW r \in Requests, Abandon(r)
  PROVE  Service!Tell(r, "unknown")
<1>1. r \in Service!Accepted
  BY AcceptedIffStage DEF NotIn, Abandon
<1>2. Told(r) = "nothing" /\ Told(r)' = "unknown" /\ ToldAll' = [ToldAll EXCEPT ![r] = Told(r)']
  BY ToldStep DEF QueueInv, Told, Abandon
<1>3. UNCHANGED <<accepted, Processed, Applied>>
  BY DEF Processed, Applied, InHand, sessionVars, Abandon
<1> QED
  BY <1>1, <1>2, <1>3 DEF Service!Tell, Processed, Applied, ToldAll

\* A caller that takes a result is told the truth: "ok" of a command with an
\* effect, "error" of one that has been dealt with.
LEMMA TellStep ==
  ASSUME QueueInv, NEW r \in Requests, Answered(r)
  PROVE  \E what \in {"ok", "error", "unknown"} : Service!Tell(r, what)
<1>1. r \in Service!Accepted
  BY AcceptedIffStage DEF NotIn, Answered
<1>2. result[r] \in {"ok", "error"} /\ To(r, result[r]) /\ stage[r] = "waiting"
  BY DEF QueueInv, TypeOK, Answered
<1>3. Told(r) = "nothing" /\ Told(r)' = result[r] /\ ToldAll' = [ToldAll EXCEPT ![r] = Told(r)']
  BY <1>2, ToldStep DEF QueueInv, Told
<1>4. UNCHANGED <<accepted, Processed, Applied>>
  BY DEF Processed, Applied, InHand, sessionVars, Answered
<1>5. result[r] = "ok" => r \in Applied
  BY DEF QueueInv, ResultsBehind, Applied
<1>6. r \in {accepted[i] : i \in 1..Processed}
  <2>1. PICK i \in 1..Served : accepted[i] = r
    BY <1>2 DEF QueueInv, ResultsBehind, None
  <2>2. 1..Served \subseteq 1..Processed
    BY DEF Served, Taken, Processed, InHand, QueueInv, TypeOK
  <2> QED
    BY <2>1, <2>2
<1>7. Service!Tell(r, result[r])
  BY <1>1, <1>2, <1>3, <1>4, <1>5, <1>6 DEF Service!Tell, Service!Dealt, Processed, Applied, ToldAll
<1> QED
  BY <1>2, <1>7

\* Running the command in hand is the one step in which the service processes.
LEMMA ProcessStep ==
  ASSUME QueueInv, Exec
  PROVE  Service!Process
<1>1. UNCHANGED <<stage, cmds, accepted, cur>> /\ loop = "exec" /\ loop' = "reply"
  BY DEF Exec, callVars
<1>2. Taken \in 1..Len(accepted) /\ cur = accepted[Taken]
  BY <1>1 DEF QueueInv, HandIsNext
<1>3. Processed = Taken - 1 /\ Processed' = Processed + 1 /\ Processed + 1 = Taken
  BY <1>1, <1>2 DEF Processed, Taken, InHand
<1>4. Processed < Len(accepted)
  BY <1>2, <1>3 DEF QueueInv, TypeOK
<1>5. ToldAll' = ToldAll
  BY <1>1 DEF ToldAll, Told
<1>6. effects[cur] = 0 /\ cur \in Requests
  BY <1>1, FirstEffect
<1>7. Applied' \in {Applied, Applied \cup {cur}}
  <2>1. PICK done \in {TRUE, FALSE} :
          effects' = [effects EXCEPT ![cur] = IF done THEN @ + 1 ELSE @]
    BY DEF Exec
  <2>2. CASE done
    <3>1. effects' = [effects EXCEPT ![cur] = effects[cur] + 1]
      BY <2>1, <2>2
    <3> QED
      BY <1>6, <3>1 DEF Applied, QueueInv, TypeOK
  <2>3. CASE ~done
    <3>1. effects' = effects
      BY <2>1, <2>3 DEF QueueInv, TypeOK
    <3> QED
      BY <3>1 DEF Applied
  <2> QED
    BY <2>2, <2>3
<1> QED
  BY <1>1, <1>2, <1>3, <1>4, <1>5, <1>7 DEF Service!Process, Processed, Applied, ToldAll

\* Take moves a command from the channel to the hand: as many are dealt with as
\* before.
LEMMA TakeStutters == ASSUME QueueInv, Take PROVE UNCHANGED Service!vars
<1>1. Len(cmds') = Len(cmds) - 1 /\ loop = "select" /\ loop' = "exec"
  BY DEF Take, QueueInv, TypeOK
<1>2. UNCHANGED <<stage, accepted, effects>>
  BY DEF Take
<1>3. Processed' = Processed
  BY <1>1, <1>2 DEF Processed, InHand, QueueInv, TypeOK
<1> QED
  BY <1>2, <1>3, ServiceStutters

\* The other steps of the session and the browser do not concern the service.
LEMMA SessionStutters ==
  ASSUME UNCHANGED <<stage, cmds, accepted, effects>>, loop = "exec" <=> loop' = "exec"
  PROVE  UNCHANGED Service!vars
BY ServiceStutters DEF Processed, InHand

\* Every step of the channel is a step of the service, or none.
LEMMA ServiceNext == QueueInv /\ [Next]_vars => [Service!Next]_(Service!vars)
<1> SUFFICES ASSUME QueueInv, [Next]_vars
             PROVE  Service!Next \/ UNCHANGED Service!vars
  OBVIOUS
<1>1. ASSUME NEW r \in Requests, WakeFails(r) \/ Busy(r) \/ CancelSend(r) \/ EnqueueDrop(r)
      PROVE  Service!Refuse(r) \/ Service!Drop(r)
  BY <1>1, RefuseStep DEF WakeFails, Busy, CancelSend, EnqueueDrop
<1>2. ASSUME NEW r \in Requests, Awake(r) PROVE UNCHANGED Service!vars
  <2>1. Told(r) = "nothing" /\ Told(r)' = "nothing" /\ ToldAll' = [ToldAll EXCEPT ![r] = Told(r)']
    BY <1>2, ToldStep DEF QueueInv, Told, Awake
  <2>2. ToldAll' = ToldAll
    BY <2>1 DEF ToldAll
  <2>3. UNCHANGED <<accepted, Processed, Applied>>
    BY <1>2 DEF Processed, Applied, InHand, sessionVars, Awake
  <2> QED
    BY <2>2, <2>3 DEF Service!vars, Processed, Applied, ToldAll
<1>3. ASSUME NEW r \in Requests, Send(r) \/ EnqueuePut(r) PROVE Service!Accept(r)
  BY <1>3, AcceptStep DEF Send, EnqueuePut
<1>4. ASSUME NEW r \in Requests, Abandon(r)
      PROVE  \E what \in {"ok", "error", "unknown"} : Service!Tell(r, what)
  BY <1>4, AbandonStep
<1>5. ASSUME NEW r \in Requests, Answered(r)
      PROVE  \E what \in {"ok", "error", "unknown"} : Service!Tell(r, what)
  BY <1>5, TellStep
<1>6. CASE Exec
  BY <1>6, ProcessStep DEF Service!Next
<1>7. CASE Take
  BY <1>7, TakeStutters
<1>8. CASE SessionStart \/ BrowserDies \/ SessionEnd \/ Stop
  BY <1>8, SessionStutters DEF SessionStart, BrowserDies, SessionEnd, Stop, callVars
<1>9. CASE Reply \/ After
  BY <1>9, SessionStutters DEF Reply, After, callVars
<1>10. CASE PageLoads \/ LoadEvent \/ Reapply
  BY <1>10, SessionStutters DEF PageLoads, LoadEvent, Reapply, callVars
<1>11. CASE UNCHANGED vars
  BY <1>11, SessionStutters DEF vars, callVars, sessionVars
<1>12. CASE \E r \in Requests :
               \/ WakeFails(r) \/ Awake(r) \/ Send(r) \/ Busy(r) \/ CancelSend(r)
               \/ Abandon(r) \/ Answered(r) \/ EnqueuePut(r) \/ EnqueueDrop(r)
  BY <1>1, <1>2, <1>3, <1>4, <1>5, <1>12 DEF Service!Next
<1> QED
  BY <1>6, <1>7, <1>8, <1>9, <1>10, <1>11, <1>12 DEF Next, Serve

\* The channel with its timeouts, drops and browser restarts does what
\* CommandService promises: one command at a time in order of acceptance, each at
\* most once; a refused command is never run; "ok" means that it was run.
THEOREM ServiceImplemented == Spec => ImplementsService
<1>1. Init => Service!Init
  BY DEF Init, Service!Init, Told, InHand
<1>2. QueueInv /\ [Next]_vars => [Service!Next]_(Service!vars)
  BY ServiceNext
<1> QED
  BY <1>1, <1>2, QueueInvHolds, PTL DEF Spec, ImplementsService, Service!Spec
=============================================================================
