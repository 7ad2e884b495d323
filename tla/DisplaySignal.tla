---------------------------- MODULE DisplaySignal ----------------------------
(***************************************************************************)
(* What the browser session can count on from the display's power state,   *)
(* whatever goroutines switch it and however their calls overlap: it reads *)
(* a flag, and after every wake a token is put into Controller.WakeCh, by  *)
(* the goroutine that cleared the flag and some time later.  The channel   *)
(* holds one token, and a second one is dropped.                           *)
(* DisplayPower implements this (DisplayPowerProofs).                      *)
(***************************************************************************)
CONSTANT Wakers   \* goroutines that may clear the flag

VARIABLES
    asleep,  \* Controller.asleep
    wakeCh,  \* Controller.WakeCh holds a token
    owing,   \* wakers that have cleared the flag and not sent their token yet
    \* history variable
    unseen   \* the flag was cleared and the session has not looked since

signalVars == <<asleep, wakeCh, owing, unseen>>

SignalTypeOK ==
    /\ asleep \in BOOLEAN /\ wakeCh \in BOOLEAN /\ unseen \in BOOLEAN
    /\ owing \in SUBSET Wakers

SignalInit == asleep = FALSE /\ wakeCh = FALSE /\ owing = {} /\ unseen = FALSE

\* SetAsleep(true).
Slept ==
    /\ asleep' = TRUE
    /\ UNCHANGED <<wakeCh, owing, unseen>>

\* SetAsleep(false) of a goroutine that finds the flag set.
Woke(w) ==
    /\ asleep /\ asleep' = FALSE
    /\ w \notin owing /\ owing' = owing \cup {w}
    /\ unseen' = TRUE
    /\ UNCHANGED wakeCh

\* (Fault) The flag is read after it was assigned: no call finds that it woke.
SendsNothing(w) ==
    /\ w \in owing /\ owing' = owing \ {w}
    /\ UNCHANGED <<asleep, wakeCh, unseen>>

\* The non-blocking send that follows.
Sends(w) ==
    /\ w \in owing /\ owing' = owing \ {w}
    /\ wakeCh' = TRUE
    /\ UNCHANGED <<asleep, unseen>>

\* The session takes the token and looks at the flag.
Takes ==
    /\ wakeCh /\ wakeCh' = FALSE
    /\ unseen' = FALSE
    /\ UNCHANGED <<asleep, owing>>

SignalNext == Slept \/ Takes \/ \E w \in Wakers : Woke(w) \/ Sends(w)

SignalSpec == SignalInit /\ [][SignalNext]_signalVars
=============================================================================
