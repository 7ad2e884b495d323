---------------------------- MODULE LoginLimiter ----------------------------
(***************************************************************************)
(* The limiter of password attempts, internal/server/manager/auth.go.      *)
(*                                                                         *)
(* A login asks allow, which drops old failures of the address and counts  *)
(* the rest, then checks the password, and then reports the outcome with   *)
(* fail or success.  Each of the three holds the mutex, the whole does not:*)
(* logins that overlap were all admitted on the count before them, and a   *)
(* success forgets the failures of logins that were under way.             *)
(***************************************************************************)
EXTENDS Integers, Sequences, FiniteSets

CONSTANTS
    Callers,   \* logins that can be under way at once
    Addrs,     \* the addresses they come from (clientIP)
    MaxFails,  \* loginMaxFails (5 in the code)
    Window,    \* loginWindow (15 minutes in the code)
    MaxTicks   \* bound: ticks of the clock

ASSUME LimitsAssumption == MaxFails \in Nat \ {0} /\ Window \in Nat \ {0}
ASSUME MaxTicksAssumption == MaxTicks \in Nat
ASSUME CallersAssumption == IsFiniteSet(Callers)

VARIABLES
    clock,  \* time.Now
    log,    \* log[a]: the times of all failures since the last success, oldest first
    fails,  \* fails[a]: loginLimiter.fails, as the positions in log of those it keeps
    from,   \* from[c]: the address of the login that c is in, or Nowhere
    \* history variable
    peak    \* peak[a]: the most logins of a that were under way at once

limiterVars == <<clock, fails, from, log, peak>>

Nowhere == "nowhere"

ASSUME NowhereAssumption == Nowhere \notin Addrs

LimiterInit ==
    /\ clock = 0
    /\ fails = [a \in Addrs |-> {}]
    /\ from = [c \in Callers |-> Nowhere]
    /\ log = [a \in Addrs |-> <<>>]
    /\ peak = [a \in Addrs |-> 0]

UnderWay(a) == {c \in Callers : from[c] = a}

\* (Fault) prune drops a failure while the window still holds it.
PruneEarly(a) == {i \in fails[a] : clock - log[a][i] < Window}

\* prune: the failures that the window still holds, its end included.
Prune(a) == {i \in fails[a] : clock - log[a][i] <= Window}

\* (Fault) One attempt more than the limit is admitted.
AdmitsOneMore(kept) == Cardinality(kept) <= MaxFails

\* The test of allow.
Admits(kept) == Cardinality(kept) < MaxFails

\* allow, TRUE: the login goes on to decode its body and check the password.
Allow(c, a) ==
    /\ from[c] = Nowhere
    /\ Admits(Prune(a))
    /\ fails' = [fails EXCEPT ![a] = Prune(a)]
    /\ from' = [from EXCEPT ![c] = a]
    /\ peak' = [peak EXCEPT ![a] =
                  IF Cardinality(UnderWay(a)) >= @ THEN Cardinality(UnderWay(a)) + 1 ELSE @]
    /\ UNCHANGED <<clock, log>>

\* allow, FALSE: the login is answered "too many attempts".
Deny(c, a) ==
    /\ from[c] = Nowhere
    /\ ~Admits(Prune(a))
    /\ fails' = [fails EXCEPT ![a] = Prune(a)]
    /\ UNCHANGED <<clock, from, log, peak>>

\* The body could not be decoded: the attempt ends without a trace.
BadRequest(c) ==
    /\ from[c] # Nowhere
    /\ from' = [from EXCEPT ![c] = Nowhere]
    /\ UNCHANGED <<clock, fails, log, peak>>

\* The password was wrong: fail prunes again and adds the present time.
Fail(c) ==
    LET a == from[c] IN
    /\ a # Nowhere
    /\ from' = [from EXCEPT ![c] = Nowhere]
    /\ fails' = [fails EXCEPT ![a] = Prune(a) \cup {Len(log[a]) + 1}]
    /\ log' = [log EXCEPT ![a] = Append(@, clock)]
    /\ UNCHANGED <<clock, peak>>

\* The password was right: success forgets the address.
Succeed(c) ==
    LET a == from[c] IN
    /\ a # Nowhere
    /\ from' = [from EXCEPT ![c] = Nowhere]
    /\ fails' = [fails EXCEPT ![a] = {}]
    /\ log' = [log EXCEPT ![a] = <<>>]
    /\ UNCHANGED <<clock, peak>>

LimiterTick ==
    /\ clock < MaxTicks
    /\ clock' = clock + 1
    /\ UNCHANGED <<fails, from, log, peak>>

LimiterNext ==
    \/ \E c \in Callers, a \in Addrs : Allow(c, a) \/ Deny(c, a)
    \/ \E c \in Callers : BadRequest(c) \/ Fail(c) \/ Succeed(c)
    \/ LimiterTick

LimiterSpec == LimiterInit /\ [][LimiterNext]_limiterVars

-----------------------------------------------------------------------------

\* Every variable has its type, and the kept failures are failures.
LimiterTypeOK ==
    /\ clock \in 0..MaxTicks
    /\ log \in [Addrs -> Seq(0..MaxTicks)]
    /\ fails \in [Addrs -> SUBSET Nat] /\ \A a \in Addrs : fails[a] \subseteq DOMAIN log[a]
    /\ from \in [Callers -> Addrs \cup {Nowhere}]
    /\ peak \in [Addrs -> 0..Cardinality(Callers)]

\* The failures that the window, its end included, still holds.
Recent(a) == {i \in DOMAIN log[a] : clock - log[a][i] <= Window}

\* The limit can be overrun only by logins that overlapped: an address has
\* at most MaxFails failures in a window, and one more for each further
\* login that was under way at the same time, because allow and fail are
\* separate critical sections (auth.go:170-182).
OverrunByOverlap ==
    \A a \in Addrs :
        Cardinality(Recent(a)) + Cardinality(UnderWay(a))
            <= MaxFails - 1 + (IF peak[a] = 0 THEN 1 ELSE peak[a])

\* Nobody is refused without cause, and nobody with cause is admitted: the
\* pruned list decides as the full history of failures since the last
\* success would, although it is pruned at some calls only and a success
\* may come between an admission and its failure.  So an address that
\* stops is admitted again after the window.
RefusedWithCause ==
    \A a \in Addrs : Admits(Prune(a)) <=> Cardinality(Recent(a)) < MaxFails
=============================================================================
