--------------------------- MODULE CommandService ---------------------------
(***************************************************************************)
(* What the remote control promises the callers of Controller.Request and  *)
(* Controller.Enqueue, without the channel, the timers and the restarts of *)
(* the browser:                                                            *)
(*   - accepted commands are run one at a time, in the order of acceptance,*)
(*     and each is run at most once;                                       *)
(*   - a caller told that its command was refused can rely on it: the      *)
(*     command is never run;                                               *)
(*   - a command that nobody waits for may be dropped: it is never run     *)
(*     either, but its caller is told nothing;                             *)
(*   - a caller told "ok" can rely on it too: the command was run;         *)
(*   - a caller that stopped waiting is told nothing about the outcome.    *)
(***************************************************************************)
EXTENDS Integers, Sequences

CONSTANT Requests

VARIABLES
    accepted,   \* the commands accepted, in order
    processed,  \* how many of them have been dealt with
    applied,    \* the commands that took effect
    told        \* what each caller has been told, or that its command was dropped

vars == <<accepted, processed, applied, told>>

Accepted == {accepted[i] : i \in 1..Len(accepted)}

Dealt == {accepted[i] : i \in 1..processed}

Init ==
    /\ accepted = <<>> /\ processed = 0 /\ applied = {}
    /\ told = [r \in Requests |-> "nothing"]

Accept(r) ==
    /\ r \notin Accepted
    /\ told[r] = "nothing"
    /\ accepted' = Append(accepted, r)
    /\ UNCHANGED <<processed, applied, told>>

Refuse(r) ==
    /\ r \notin Accepted
    /\ told[r] = "nothing"
    /\ told' = [told EXCEPT ![r] = "refused"]
    /\ UNCHANGED <<accepted, processed, applied>>

\* Of an Enqueue: nothing comes back, and the handler answers "ok" all the same.
Drop(r) ==
    /\ r \notin Accepted
    /\ told[r] = "nothing"
    /\ told' = [told EXCEPT ![r] = "dropped"]
    /\ UNCHANGED <<accepted, processed, applied>>

\* The oldest command not dealt with yet is run, or fails without effect.
Process ==
    /\ processed < Len(accepted)
    /\ processed' = processed + 1
    /\ applied' \in {applied, applied \cup {accepted[processed + 1]}}
    /\ UNCHANGED <<accepted, told>>

Tell(r, what) ==
    /\ r \in Accepted
    /\ told[r] = "nothing"
    /\ \/ what = "ok" /\ r \in applied
       \/ what = "error" /\ r \in Dealt
       \/ what = "unknown"
    /\ told' = [told EXCEPT ![r] = what]
    /\ UNCHANGED <<accepted, processed, applied>>

Next ==
    \/ \E r \in Requests : Accept(r) \/ Refuse(r) \/ Drop(r)
    \/ Process
    \/ \E r \in Requests, what \in {"ok", "error", "unknown"} : Tell(r, what)

Spec == Init /\ [][Next]_vars
=============================================================================
