------------------------------- MODULE Service -------------------------------
(***************************************************************************)
(* The program from its start to its end: cmd/kiosk-display/main.go and    *)
(* internal/server/servers.go, composed of the two things it keeps in the  *)
(* data directory and writes in place, the certificate and its key         *)
(* (TlsFiles) and the list of links (LinksStore).                          *)
(*                                                                         *)
(* A start readies the certificate, then the list, and then has the two    *)
(* servers load the pair in goroutines of their own; until they have,      *)
(* nobody can ask for anything, and if one cannot, log.Fatalf ends the     *)
(* process, whatever the other is doing.  A signal cancels the root        *)
(* context, which ends the browser, and the servers are shut down one      *)
(* after the other: each stops listening and waits for the requests it     *)
(* has, both within the same five seconds.                                 *)
(***************************************************************************)
EXTENDS TlsFiles, LinksStore

CONSTANT Manager \* the server of Listeners that takes the saves; the others serve the kiosk

ASSUME ManagerAssumption == Manager \in Listeners

VARIABLES
    closing, \* the server main is shutting down: "none", "display" or "manager"
    late     \* the five seconds are over

stopVars    == <<closing, late>>
serviceVars == <<vars, linksVars, stopVars>>

ServiceInit == Init /\ LinksInit /\ closing = "none" /\ late = FALSE

\* The kiosk's browser is running: its server has answered, no signal has come.
KioskUp == closing = "none" /\ listening \ {Manager} # {}

\* The process is gone, and what it was doing.
Gone ==
    /\ closing' = "none" /\ late' = FALSE
    /\ IF up THEN Crash ELSE UNCHANGED linksVars

-----------------------------------------------------------------------------
(* main and GoListenTLS. *)

\* loadTLSFiles: EnsureSelfSigned, step by step.
LoadFiles ==
    /\ \/ Start \/ Check \/ RemoveCert \/ RemoveKey \/ RemoveFails
       \/ OpenCert \/ WriteCert \/ OpenKey \/ WriteKey
    /\ UNCHANGED <<linksVars, stopVars>>

\* loadTLSClient and loadLinksStore.
LoadStores(e, c) ==
    /\ LoadClient
    /\ StartLinks(e, c)
    /\ UNCHANGED stopVars

\* The list cannot be written: log.Fatalf.
LoadFails(e) ==
    /\ pc = "client"
    /\ Break
    /\ StartBreaks(e)
    /\ UNCHANGED stopVars

\* A server loads the pair, unless it has been told to shut down by then.
ServeOrDie(s) ==
    /\ closing = "none" \/ (closing = "display" /\ s = Manager)
    /\ Listen(s)
    /\ IF pc' = "down" THEN Gone ELSE UNCHANGED <<linksVars, stopVars>>

\* The process is killed, or something fails that main does not survive.
Die == Break /\ Gone

-----------------------------------------------------------------------------
(* The signal and Servers.Shutdown. *)

\* The signal: the browser ends, and the kiosk's server stops listening.
Signalled ==
    /\ closing = "none" /\ closing' = "display"
    /\ Close(listening \cap {Manager})
    /\ UNCHANGED <<linksVars, late>>

\* Its requests are done, or the time is over.  The manager stops listening, and
\* goes on with the requests it has received.
DisplayClosed ==
    /\ closing = "display"
    /\ closing' = "manager"
    /\ UNCHANGED <<vars, linksVars, late>>

TimeOver ==
    /\ closing # "none" /\ ~late
    /\ late' = TRUE
    /\ UNCHANGED <<vars, linksVars, closing>>

\* (Fault) main returns at the signal.
ExitsAtOnce ==
    /\ closing # "none"
    /\ Stop
    /\ Gone

\* The manager's requests are done, or the time is over: main returns.
Exit ==
    /\ closing = "manager"
    /\ late \/ \A s \in Savers : step[s] = "idle"
    /\ Stop
    /\ Gone

-----------------------------------------------------------------------------
(* What the servers do meanwhile. *)

Save(s) ==
    /\ \/ Manager \in listening /\ BeginSave(s)
       \/ EndSave(s) \/ SaveFails(s) \/ AskAsleep(s)
       \/ KioskUp /\ (AskLocation(s) \/ Reload(s))
       \/ Unanswered(s)
    /\ UNCHANGED <<vars, stopVars>>

Kiosk ==
    /\ KioskUp
    /\ Fetch \/ GoBack \/ Judge \/ Sleep \/ (\E place \in HomePages \cup {"link"} : Visit(place))
    /\ UNCHANGED <<vars, stopVars>>

ServiceNext ==
    \/ LoadFiles
    \/ \E e \in BOOLEAN : LoadFails(e) \/ \E c \in Lists : LoadStores(e, c)
    \/ \E s \in Listeners : ServeOrDie(s)
    \/ Die
    \/ Signalled \/ DisplayClosed \/ TimeOver \/ Exit
    \/ \E s \in Savers : Save(s)
    \/ Kiosk

ServiceSpec == ServiceInit /\ [][ServiceNext]_serviceVars

-----------------------------------------------------------------------------

\* A save that is under way when the signal comes, or that the manager still
\* takes while the kiosk's server is being shut down, is written to its end, unless
\* the write fails, the process is killed, or the five seconds are used up,
\* be it by the other server's requests.
\* Code: Shutdown in servers.go, which main waits for.
StopSparesSaves ==
    [][ closing # "none" /\ lock # Nobody /\ lock' = Nobody
            => file' = list[lock] \/ late \/ faults' # faults \/ breaks' # breaks ]_serviceVars
=============================================================================
