---------------------------- MODULE DisplayPower ----------------------------
(***************************************************************************)
(* The display's power state, internal/kiosk/controller.go.                *)
(*                                                                         *)
(* The controller remembers in a mutex-protected flag, asleep, whether it  *)
(* believes the screen is off.  SleepDisplay and WakeDisplay test the flag,*)
(* release the mutex, run the configured shell commands, and only then set *)
(* the flag, broadcast it, signal the browser session and write an audit   *)
(* entry.  Callers are the handlers of both HTTP servers, the callbacks of *)
(* the browser events (RecordNav) and every remote command (ensureAwake).  *)
(* Each of them is a goroutine that may be anywhere in that sequence, and  *)
(* the browser manager runs the wake commands on its own account whenever  *)
(* it (re)starts the browser, without looking at the flag.                 *)
(***************************************************************************)
EXTENDS Integers, FiniteSets

CONSTANTS
    Callers,          \* goroutines that may call SleepDisplay or WakeDisplay
    SleepConfigured,  \* display.sleep lists at least one command
    WakeConfigured,   \* display.wake lists at least one command
    MaxCalls          \* bound: how many calls pass their first test

ASSUME ConfiguredAssumption == SleepConfigured \in BOOLEAN /\ WakeConfigured \in BOOLEAN
ASSUME MaxCallsAssumption == MaxCalls \in Nat

VARIABLES
    asleep,      \* Controller.asleep
    power,       \* what the screen really does: "on" or "off"
    pc,          \* where each caller is in its call
    op,          \* the call each caller is in: "sleep" or "wake"
    was,         \* SetAsleep's local copy of the flag it replaced
    wakeCh,      \* Controller.WakeCh (capacity 1) holds a token
    calls,       \* bound counter: calls that passed their first test
    \* history variables
    overlapped,  \* a call passed its test while another was before its SetAsleep
    powerBy,     \* who last touched the screen: "boot", "call", "failed", "restart"
    wakeUnseen   \* the flag was cleared and the session has not looked since

powerVars   == <<asleep, power, pc, op, was, wakeCh, calls>>
historyVars == <<overlapped, powerBy, wakeUnseen>>
vars        == <<powerVars, historyVars>>

Ops   == {"sleep", "wake"}
Steps == {"idle", "run", "set", "publish", "signal", "record"}

Target(o)     == IF o = "sleep" THEN "off" ELSE "on"
Configured(o) == IF o = "sleep" THEN SleepConfigured ELSE WakeConfigured

\* Callers that passed their test of the flag and have not set it yet.
Deciding == {c \in Callers : pc[c] \in {"run", "set"}}

TypeOK ==
    /\ asleep \in BOOLEAN /\ wakeCh \in BOOLEAN
    /\ overlapped \in BOOLEAN /\ wakeUnseen \in BOOLEAN
    /\ power \in {"on", "off"}
    /\ powerBy \in {"boot", "call", "failed", "restart"}
    /\ pc \in [Callers -> Steps]
    /\ op \in [Callers -> Ops]
    /\ was \in [Callers -> BOOLEAN]
    /\ calls \in Nat

\* New(): the flag is FALSE in a fresh process, whatever an earlier process
\* left the screen in.
Init ==
    /\ asleep = FALSE /\ wakeCh = FALSE
    /\ power \in {"on", "off"}
    /\ pc = [c \in Callers |-> "idle"]
    /\ op = [c \in Callers |-> "wake"]
    /\ was = [c \in Callers |-> FALSE]
    /\ calls = 0
    /\ overlapped = FALSE /\ wakeUnseen = FALSE
    /\ powerBy = "boot"

Goto(c, step) == pc' = [pc EXCEPT ![c] = step]

\* SleepDisplay / WakeDisplay up to the first test.  A call whose test says
\* there is nothing to do returns at once: a stuttering step.
Begin(c, o) ==
    /\ pc[c] = "idle"
    /\ calls < MaxCalls
    /\ asleep # (o = "sleep")
    /\ Goto(c, "run")
    /\ op' = [op EXCEPT ![c] = o]
    /\ calls' = calls + 1
    /\ overlapped' = (overlapped \/ Deciding # {})
    /\ UNCHANGED <<asleep, power, was, wakeCh, powerBy, wakeUnseen>>

\* runDisplayCommands ran every command of the list; an empty list succeeds
\* and changes nothing.
RunDone(c) ==
    /\ pc[c] = "run"
    /\ Goto(c, "set")
    /\ IF Configured(op[c])
       THEN power' = Target(op[c]) /\ powerBy' = "call"
       ELSE UNCHANGED <<power, powerBy>>
    /\ UNCHANGED <<asleep, op, was, wakeCh, calls, overlapped, wakeUnseen>>

\* (Fault) The error of the command list is ignored and the call goes on.
RunErrorIgnored(c) ==
    /\ pc[c] = "run"
    /\ Configured(op[c])
    /\ Goto(c, "set")
    /\ power' \in {power, Target(op[c])}
    /\ powerBy' = IF power' = power THEN powerBy ELSE "failed"
    /\ UNCHANGED <<asleep, op, was, wakeCh, calls, overlapped, wakeUnseen>>

\* A command failed: the rest of the list is skipped and the call returns the
\* error.  The commands before it may already have switched the screen.
RunFailed(c) ==
    /\ pc[c] = "run"
    /\ Configured(op[c])
    /\ Goto(c, "idle")
    /\ power' \in {power, Target(op[c])}
    /\ powerBy' = IF power' = power THEN powerBy ELSE "failed"
    /\ UNCHANGED <<asleep, op, was, wakeCh, calls, overlapped, wakeUnseen>>

\* SetAsleep, under the mutex.
SetFlag(c) ==
    /\ pc[c] = "set"
    /\ Goto(c, "publish")
    /\ was' = [was EXCEPT ![c] = asleep]
    /\ asleep' = (op[c] = "sleep")
    /\ wakeUnseen' = (wakeUnseen \/ (asleep /\ op[c] = "wake"))
    /\ UNCHANGED <<power, op, wakeCh, calls, overlapped, powerBy>>

\* SetAsleep after the unlock: BroadcastStatus (see RemoteStream).
Publish(c) ==
    /\ pc[c] = "publish"
    /\ Goto(c, "signal")
    /\ UNCHANGED <<asleep, power, op, was, wakeCh, calls, historyVars>>

\* The non-blocking send on WakeCh, only when this call woke the display.
Signal(c) ==
    /\ pc[c] = "signal"
    /\ Goto(c, "record")
    /\ wakeCh' = (wakeCh \/ (was[c] /\ op[c] = "wake"))
    /\ UNCHANGED <<asleep, power, op, was, calls, historyVars>>

\* recordDisplay writes the audit entry; the call returns.
Record(c) ==
    /\ pc[c] = "record"
    /\ Goto(c, "idle")
    /\ UNCHANGED <<asleep, power, op, was, wakeCh, calls, historyVars>>

\* The session loop takes the token and looks at the flag (cast.sync).
DrainWake ==
    /\ wakeCh
    /\ wakeCh' = FALSE
    /\ wakeUnseen' = FALSE
    /\ UNCHANGED <<asleep, power, pc, op, was, calls, overlapped, powerBy>>

\* ManageBrowser before every start of the browser: waitForDisplay repeats the
\* wake commands until they succeed and leaves the flag alone.
WaitForDisplay ==
    /\ WakeConfigured
    /\ power' = "on"
    /\ powerBy' = "restart"
    /\ UNCHANGED <<asleep, pc, op, was, wakeCh, calls, overlapped, wakeUnseen>>

Continue(c) ==
    \/ RunDone(c) \/ RunFailed(c)
    \/ SetFlag(c) \/ Publish(c) \/ Signal(c) \/ Record(c)

Next ==
    \/ \E c \in Callers, o \in Ops : Begin(c, o)
    \/ \E c \in Callers : Continue(c)
    \/ DrainWake
    \/ WaitForDisplay

Spec == Init /\ [][Next]_vars

-----------------------------------------------------------------------------
(* Properties. *)

\* While no call is between its test and its SetAsleep, the screen is dark
\* with the flag saying awake (so that no remote command, click or navigation
\* lights it again) only if two calls overlapped there, if a failed command
\* list switched the screen, or if nothing has touched it since the process
\* started.  Two sleepers overlapping with a waker do reach that state.
\* Code: the test of SleepDisplay/WakeDisplay is not atomic with SetAsleep.
NeverStuckDark ==
    (Deciding = {} /\ ~asleep /\ power = "off" /\ WakeConfigured)
        => (overlapped \/ powerBy \in {"failed", "boot"})

\* The mirror image: the screen is lit with the flag saying asleep (so that a
\* request to sleep does nothing) only after an overlap, a failed command list
\* or a restart of the browser.  Code: waitForDisplay ignores the flag.
NeverStuckLit ==
    (Deciding = {} /\ asleep /\ power = "on" /\ SleepConfigured)
        => (overlapped \/ powerBy \in {"failed", "restart"})

\* The callers that have woken the display and not reached the send on WakeCh.
Owing == {c \in Callers : pc[c] \in {"publish", "signal"} /\ op[c] = "wake" /\ was[c]}

\* A wake the session has not noticed is still on its way to it: a token is in
\* WakeCh or a call that will put one there has not reached that point.  The
\* send on WakeCh is allowed to be dropped, the wake-up is not.
NoLostWake == wakeUnseen => wakeCh \/ Owing # {}

\* What the session can count on: the display as it sees it, however the calls
\* that switch it overlap.
Display == INSTANCE DisplaySignal WITH
    Wakers <- Callers, owing <- Owing, unseen <- wakeUnseen

\* Every step of every call either leaves the flag, the token and the debts
\* alone or does what DisplaySignal says.  In particular the old value that
\* SetAsleep took under the mutex is enough for the send after it: a goroutine
\* sends exactly when its own assignment was the one that woke the display.
ImplementsSignal == Display!SignalSpec
=============================================================================
