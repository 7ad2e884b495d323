------------------------------ MODULE NavSource ------------------------------
(***************************************************************************)
(* Who is said to have navigated: the marks of internal/kiosk/controller.go*)
(* (MarkRemoteNav, MarkRemoteInput, ClearRemoteNav, NavSource, InputSource,*)
(* RecordNav), the handlers that set and clear them (manager/remote.go) and*)
(* the events of the browser that read them (kiosk/browser_session.go).    *)
(*                                                                         *)
(* The browser does not say who made it navigate.  A handler leaves a mark *)
(* before it asks: for a host, or after a click for any host, and for some *)
(* seconds; and the event of a navigation is booked as remote if it finds a*)
(* mark that fits.  There is one mark for all requests, which others       *)
(* replace, a failed request removes, and a navigation elsewhere removes;  *)
(* a request that has been given up may still make the browser navigate.   *)
(***************************************************************************)
EXTENDS Naturals, Sequences, SequencesExt

CONSTANTS
    Requests,  \* requests POST /api/remote/navigate that can be under way at once
    Hosts,     \* hosts of pages
    MaxEvents  \* bound: navigations the browser has yet to report

ASSUME NamesAssumption == {"none", "input"} \cap Hosts = {} /\ {"touch", "screen"} \cap Requests = {}
ASSUME MaxEventsAssumption == MaxEvents \in Nat

VARIABLES
    mark,    \* Controller.remoteHost, "input" for none, or "none" when remoteUntil is over
    handler, \* handler[r]: what the request does next
    command, \* command[r]: its Cmd, which the session may still have when r has gone
    reports, \* navigations to be reported: who caused them, where, whether they are allowed
    asleep,  \* Controller.asleep
    wakeLog, \* the source of the last "Display wake" in the audit log
    \* history variables
    asked,   \* asked[r]: the host of its last mark
    lost     \* lost[p]: p has set no mark, or it has expired, or was removed or replaced

remoteVars  == <<handler, command>>
displayVars == <<asleep, wakeLog>>
historyVars == <<asked, lost>>
navVars        == <<mark, remoteVars, reports, displayVars, historyVars>>

\* Those who act from afar.
Parties == Requests \cup {"touch"}

Event == [by : Parties \cup {"screen"}, host : Hosts, ok : BOOLEAN,
          source : {"?", "remote", "screen"}, left : {"?", "none", "input"} \cup Hosts]

NavTypeOK ==
    /\ mark \in {"none", "input"} \cup Hosts
    /\ handler \in [Requests -> {"idle", "marked", "waits", "failed"}]
    /\ command \in [Requests -> {"none", "queued", "loaded", "denied", "late"}]
    /\ asleep \in BOOLEAN
    /\ reports \in Seq(Event) /\ Len(reports) <= MaxEvents
    /\ wakeLog \in {"none", "remote", "screen"}
    /\ asked \in [Requests -> Hosts]
    /\ lost \in [Parties -> BOOLEAN]

NavInit ==
    /\ mark = "none"
    /\ handler = [r \in Requests |-> "idle"] /\ command = [r \in Requests |-> "none"]
    /\ reports = <<>>
    /\ asleep = FALSE /\ wakeLog = "none"
    /\ asked \in [Requests -> Hosts]
    /\ lost = [p \in Parties |-> TRUE]

\* The browser navigates; what it will report is not booked yet.
Navigates(by, host, ok) ==
    /\ Len(reports) < MaxEvents
    /\ reports' = Append(reports, [by |-> by, host |-> host, ok |-> ok, source |-> "?", left |-> "?"])

\* InputSource("screen"): whom a wake is booked to.
InputSource == IF mark = "none" THEN "screen" ELSE "remote"

AllLost    == [p \in Parties |-> TRUE]
Pending(r) == \E i \in DOMAIN reports : reports[i].by = r

-----------------------------------------------------------------------------
(* POST /api/remote/navigate *)

\* MarkRemoteNav.  The mark of another request stays good if it is for this host.
MarkNav(r, host) ==
    /\ handler[r] = "idle" /\ command[r] = "none" /\ ~Pending(r)
    /\ handler' = [handler EXCEPT ![r] = "marked"]
    /\ mark' = host
    /\ asked' = [asked EXCEPT ![r] = host]
    /\ lost' = [p \in Parties |->
                    p # r /\ (lost[p] \/ p = "touch" \/ asked[p] # host)]
    /\ UNCHANGED <<command, reports, displayVars>>

\* Request: the display is awake by then, and the queue takes the command.
Enqueue(r) ==
    /\ handler[r] = "marked"
    /\ handler' = [handler EXCEPT ![r] = "waits"]
    /\ command' = [command EXCEPT ![r] = "queued"]
    /\ asleep' = FALSE
    /\ wakeLog' = IF asleep THEN InputSource ELSE wakeLog
    /\ UNCHANGED <<mark, reports, historyVars>>

\* (Fault) The mark is left behind.
FailsQuietly(r) ==
    /\ handler[r] # "idle"
    /\ handler' = [handler EXCEPT ![r] = "idle"]
    /\ lost' = [lost EXCEPT ![r] = TRUE]
    /\ UNCHANGED <<mark, command, reports, displayVars, asked>>

\* The display cannot be woken, the queue is full, the time is over, the caller
\* has gone, or the browser reports an error: ClearRemoteNav, whosever mark it is.
Fails(r) ==
    /\ handler[r] # "idle"
    /\ handler' = [handler EXCEPT ![r] = "idle"]
    /\ mark' = "none"
    /\ lost' = AllLost
    /\ UNCHANGED <<command, reports, displayVars, asked>>

\* The session runs the commands one at a time; a redirection may lead elsewhere,
\* and to a page that is not allowed.
Load(r, host, ok) ==
    /\ command[r] = "queued" /\ \A q \in Requests : command[q] \notin {"loaded", "denied"}
    /\ command' = [command EXCEPT ![r] = IF ok THEN "loaded" ELSE "denied"]
    /\ Navigates(r, host, ok)
    /\ UNCHANGED <<mark, handler, displayVars, historyVars>>

Answer(r, result) ==
    /\ command' = [command EXCEPT ![r] = "none"]
    /\ handler' = [handler EXCEPT ![r] = IF @ = "waits" THEN result ELSE @]
    /\ UNCHANGED <<mark, reports, displayVars, historyVars>>

\* The browser answers when it has loaded the page, and reports it before.
Loaded(r) ==
    /\ command[r] \in {"loaded", "denied"} /\ ~Pending(r)
    /\ \E result \in {"idle", "failed"} :
          /\ command[r] = "denied" => result = "failed"
          /\ Answer(r, result)

LoadFails(r) == command[r] = "queued" /\ Answer(r, "failed")

\* runCmd's 20 seconds are over, but the browser goes on loading.
LoadTimesOut(r) ==
    /\ command[r] = "queued"
    /\ command' = [command EXCEPT ![r] = "late"]
    /\ handler' = [handler EXCEPT ![r] = IF @ = "waits" THEN "failed" ELSE @]
    /\ UNCHANGED <<mark, reports, displayVars, historyVars>>

LateLoad(r, host, ok) ==
    /\ command[r] = "late"
    /\ command' = [command EXCEPT ![r] = "none"]
    /\ Navigates(r, host, ok)
    /\ UNCHANGED <<mark, handler, displayVars, historyVars>>

\* A URL the policy does not allow: no mark, and an entry of its own ("blocked
\* (remote)"), which wakes the display like any entry and so books that wake to
\* whoever the mark names.  The wakes of the other remote commands are the same.
RefuseURL ==
    /\ asleep
    /\ asleep' \in BOOLEAN
    /\ wakeLog' = IF asleep' THEN wakeLog ELSE InputSource
    /\ UNCHANGED <<mark, remoteVars, reports, historyVars>>

-----------------------------------------------------------------------------
(* The other remote handlers, the person at the screen, time. *)

\* MarkRemoteInput, of a click, a text, the start or the end of a touch.
MarkInput ==
    /\ mark' = "input"
    /\ lost' = [lost EXCEPT !["touch"] = FALSE]
    /\ UNCHANGED <<remoteVars, reports, displayVars, asked>>

\* What was clicked makes the page navigate, when it has reached the page.
TouchNavigates(host, ok) ==
    /\ Navigates("touch", host, ok)
    /\ UNCHANGED <<mark, remoteVars, displayVars, historyVars>>

ScreenNavigates(host, ok) ==
    /\ Navigates("screen", host, ok)
    /\ UNCHANGED <<mark, remoteVars, displayVars, historyVars>>

\* remoteUntil: 8 seconds after a navigation, 3 seconds after an input.
Expire ==
    /\ mark # "none" /\ mark' = "none"
    /\ lost' = AllLost
    /\ UNCHANGED <<remoteVars, reports, displayVars, asked>>

Sleep ==
    /\ ~asleep /\ asleep' = TRUE
    /\ UNCHANGED <<mark, remoteVars, reports, wakeLog, historyVars>>

-----------------------------------------------------------------------------
(* The events of the browser. *)

\* The frames of the page are reported one after the other; a request that is
\* paused and denied has a goroutine of its own.
InTurn(i) == reports[i].ok => \A j \in 1..(i - 1) : ~reports[j].ok

\* NavSource's answer.
Source(host) == IF mark \in {"input", host} THEN "remote" ELSE "screen"

Book(i, left) ==
    /\ reports[i].source = "?" /\ InTurn(i)
    /\ reports' = [reports EXCEPT ![i].source = Source(reports[i].host), ![i].left = left]
    /\ mark' = left
    /\ lost' = IF mark \in {"none", "input", reports[i].host} THEN lost ELSE AllLost
    /\ UNCHANGED <<remoteVars, displayVars, asked>>

\* (Fault) A mark that fits is used up.
BookOnce(i) == Book(i, IF mark \in {"input", reports[i].host} THEN "none" ELSE mark)

\* (Fault) A mark that does not fit is kept.
BookKeeps(i) == Book(i, mark)

\* NavSource: a mark for another host is removed.
BookSource(i) == Book(i, IF mark \in {"input", reports[i].host} THEN mark ELSE "none")

\* RecordNav, which wakes the display, if that works, and books that as well
\* (InputSource).
Record(i) ==
    /\ reports[i].source # "?"
    /\ reports' = RemoveAt(reports, i)
    /\ asleep' \in {FALSE, asleep}
    /\ wakeLog' = IF asleep = asleep' THEN wakeLog ELSE InputSource
    /\ UNCHANGED <<mark, remoteVars, historyVars>>

NavNext ==
    \/ \E r \in Requests :
          \/ \E host \in Hosts : MarkNav(r, host)
          \/ \E host \in Hosts, ok \in BOOLEAN : Load(r, host, ok) \/ LateLoad(r, host, ok)
          \/ Enqueue(r) \/ Fails(r) \/ Loaded(r) \/ LoadFails(r) \/ LoadTimesOut(r)
    \/ RefuseURL \/ MarkInput
    \/ \E host \in Hosts, ok \in BOOLEAN : TouchNavigates(host, ok) \/ ScreenNavigates(host, ok)
    \/ Expire \/ Sleep
    \/ \E i \in DOMAIN reports : BookSource(i) \/ Record(i)

NavSpec == NavInit /\ [][NavNext]_navVars

-----------------------------------------------------------------------------

\* Event i is booked for source.
BookedAs(i, source) ==
    /\ Len(reports') = Len(reports)
    /\ reports[i].source = "?" /\ reports'[i].source = source

\* What somebody far away made the browser do is booked as remote, however many
\* navigations it takes and whoever else is busy, unless the mark had been
\* lost by then: it expired, a request for another host replaced it, a
\* request that failed or a navigation elsewhere removed it; or unless the
\* page was not on the host that was asked for.
\* Code: NavSource, and the only mark that all requests share.
RemoteNamed ==
    [][ \A i \in DOMAIN reports : LET e == reports[i] IN
            e.by # "screen" /\ BookedAs(i, "screen")
                => lost[e.by] \/ (e.by # "touch" /\ asked[e.by] # e.host) ]_navVars

\* What the person at the screen did is booked as remote only for a few
\* seconds after an input from afar, or after a request for the same host
\* that has not failed, with no other failure or navigation elsewhere since.
\* Code: ClearRemoteNav after an error, and NavSource.
ScreenNamed ==
    [][ \A i \in DOMAIN reports : LET e == reports[i] IN
            e.by = "screen" /\ BookedAs(i, "remote")
                => ~lost["touch"] \/ \E r \in Requests : ~lost[r] /\ asked[r] = e.host ]_navVars

\* A navigation that wakes the display is booked to the same side as the wake,
\* though the two ask different questions of the mark, unless the mark has
\* changed in between.  Code: RecordNav's InputSource after NavSource.
WakeAgrees ==
    [][ \A i \in DOMAIN reports :
            Record(i) /\ asleep /\ ~asleep'
                => wakeLog' = reports[i].source \/ mark # reports[i].left ]_navVars
=============================================================================
