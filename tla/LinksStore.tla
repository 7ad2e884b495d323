----------------------------- MODULE LinksStore -----------------------------
(***************************************************************************)
(* The list of links: internal/links/store.go, its handlers in             *)
(* manager/mux.go and display/mux.go, and the kiosk's home page, which     *)
(* reads the list when it is loaded (web-display/js/main.js).              *)
(*                                                                         *)
(* links.json is written in place under the store's mutex.  A save goes on *)
(* after the mutex was given back: it asks whether the display is asleep,  *)
(* where the browser is, and has the home page loaded again; meanwhile     *)
(* others save, the kiosk's user moves about, and the page reads the list  *)
(* at a moment of its own.  A write can fail or be cut off by the end of   *)
(* the process, a request to the browser can be refused or given up.       *)
(*                                                                         *)
(* A list is a number; the list of a configuration counts as one.          *)
(***************************************************************************)
EXTENDS Integers

CONSTANTS
    Savers,   \* requests PUT /api/links that can be under way at once
    MaxLists, \* bound: different lists
    MaxFaults \* bound: failed writes

ASSUME LinksBoundsAssumption == MaxLists \in Nat \ {0} /\ MaxFaults \in Nat
ASSUME SaversAssumption == "nobody" \notin Savers

VARIABLES
    up,       \* the program runs
    editable, \* config AllowEditLinks, of the present or last start
    config,   \* config Links, of the present or last start
    startsAt, \* the place of HomePages where homeURL leads, of the present or last start
    file,     \* links.json: a list, or Missing, or Torn
    lock,     \* the saver that holds Store.mu and writes, or Nobody
    step,     \* step[s]: what the save does next
    list,     \* list[s]: what it saves
    asleep,   \* Controller.IsAsleep
    at,       \* where the kiosk's main page is
    shown,    \* the links on the home page: a list, or Loading, or Failed
    newest,   \* bound counter: lists so far
    faults,   \* bound counter
    \* history variables
    cutOff,     \* a write has been cut off
    missed,   \* the home page may be older than the list, for one of the named reasons
    sentHome   \* a page was sent home because the list could not be read

linksVars == <<up, editable, config, startsAt, file, lock, step, list, asleep, at, shown,
          newest, faults, cutOff, missed, sentHome>>

program == <<up, editable, config, startsAt>>
kiosk   == <<asleep, at, shown>>

Nobody  == "nobody"
Missing == -1
Torn    == -2
Loading == -3
Failed  == -4
Lists   == 1..MaxLists

\* The home page under a URL that sameHomePage takes for homeURL, and under
\* any other: without the port 443, as /index.html, or at localhost.
HomePages == {"home", "alias"}

\* The data directory is new, or holds the list of an earlier run.
LinksInit ==
    /\ up = FALSE
    /\ editable = FALSE /\ config = 1 /\ newest = 1
    /\ file \in {Missing, 1}
    /\ lock = Nobody
    /\ step = [s \in Savers |-> "idle"] /\ list = [s \in Savers |-> 1]
    /\ asleep = FALSE /\ startsAt \in HomePages /\ at = startsAt /\ shown = Loading
    /\ faults = 0
    /\ cutOff = FALSE /\ missed = FALSE /\ sentHome = FALSE

Fault == faults < MaxFaults /\ faults' = faults + 1

Readable == file \in Lists

\* The home page is loaded: it will read the list as it is by then.
LoadHome(page) == at' = page /\ shown' = Loading /\ missed' = FALSE

-----------------------------------------------------------------------------
(* Starts and ends of the program. *)

\* (Fault) The configured list is written at every start.
KeepsNone(e) == FALSE

\* ensureDefaults keeps the file: only when links may be edited, and
\* without looking into it.
Keeps(e) == e /\ file # Missing

\* The program is started, with the configuration as it was or changed.
StartLinks(e, c) ==
    /\ ~up
    /\ c \in {config, newest + 1} \cap Lists
    /\ newest' = IF c > newest THEN c ELSE newest
    /\ up' = TRUE /\ editable' = e /\ config' = c
    /\ file' = IF Keeps(e) THEN file ELSE c
    /\ asleep' = FALSE
    /\ startsAt' \in HomePages \* whether Display.Port is 443
    /\ LoadHome(startsAt')
    /\ UNCHANGED <<lock, step, list, faults, cutOff, sentHome>>

\* The write of ensureDefaults is cut off: the program does not start.
StartBreaks(e) ==
    /\ ~up /\ ~Keeps(e)
    /\ Fault
    /\ editable' = e
    /\ file' = Torn /\ cutOff' = TRUE
    /\ UNCHANGED <<up, config, startsAt, lock, step, list, kiosk, newest, missed, sentHome>>

\* The program ends, whatever it was doing; its browser with it.
Crash ==
    /\ up /\ up' = FALSE
    /\ lock' = Nobody
    /\ step' = [s \in Savers |-> "idle"]
    /\ cutOff' = IF lock = Nobody THEN cutOff ELSE TRUE
    /\ UNCHANGED <<editable, config, startsAt, file, list, kiosk, newest, faults, missed, sentHome>>

-----------------------------------------------------------------------------
(* PUT /api/links *)

\* Save takes the mutex, and os.WriteFile empties the file.
BeginSave(s) ==
    /\ up /\ editable
    /\ step[s] = "idle" /\ lock = Nobody
    /\ newest < MaxLists /\ newest' = newest + 1
    /\ list' = [list EXCEPT ![s] = newest + 1]
    /\ lock' = s
    /\ file' = Torn
    /\ step' = [step EXCEPT ![s] = "write"]
    /\ UNCHANGED <<program, kiosk, faults, cutOff, missed, sentHome>>

EndSave(s) ==
    /\ step[s] = "write"
    /\ file' = list[s]
    /\ lock' = Nobody
    /\ step' = [step EXCEPT ![s] = "asleep?"]
    /\ UNCHANGED <<program, list, kiosk, newest, faults, cutOff, missed, sentHome>>

\* The write fails: the handler answers 500 and leaves the page alone.
SaveFails(s) ==
    /\ step[s] = "write"
    /\ Fault
    /\ lock' = Nobody
    /\ step' = [step EXCEPT ![s] = "idle"]
    /\ cutOff' = TRUE /\ missed' = TRUE
    /\ UNCHANGED <<program, file, list, kiosk, newest, sentHome>>

\* reloadHomeIfNeeded: a display that is asleep is left as it is.
AskAsleep(s) ==
    /\ step[s] = "asleep?"
    /\ step' = [step EXCEPT ![s] = IF asleep THEN "idle" ELSE "location"]
    /\ missed' = (missed \/ asleep)
    /\ UNCHANGED <<program, file, lock, list, kiosk, newest, faults, cutOff, sentHome>>

\* sameHomePage compares the URLs as strings: a home page under another one is
\* left as it is.  Both requests wake a display that has been sent to sleep since.
AskLocation(s) ==
    /\ step[s] = "location"
    /\ step' = [step EXCEPT ![s] = IF at = "home" THEN "reload" ELSE "idle"]
    /\ asleep' = FALSE
    /\ missed' = (missed \/ at = "alias")
    /\ UNCHANGED <<program, file, lock, list, at, shown, newest, faults, cutOff, sentHome>>

\* (Fault) The page is not loaded again.
ReloadForgotten(s) ==
    /\ step[s] = "reload"
    /\ step' = [step EXCEPT ![s] = "idle"]
    /\ asleep' = FALSE
    /\ UNCHANGED <<program, file, lock, list, at, shown, newest, faults, cutOff, missed, sentHome>>

\* The browser loads the page again, which need not be the home page still.
Reload(s) ==
    /\ step[s] = "reload"
    /\ step' = [step EXCEPT ![s] = "idle"]
    /\ asleep' = FALSE
    /\ IF at \in HomePages THEN LoadHome(at) ELSE UNCHANGED <<at, shown, missed>>
    /\ UNCHANGED <<program, file, lock, list, newest, faults, cutOff, sentHome>>

\* Either request is refused, fails, or is given up with the page that saved.
Unanswered(s) ==
    /\ step[s] \in {"location", "reload"}
    /\ step' = [step EXCEPT ![s] = "idle"]
    /\ missed' = TRUE
    /\ UNCHANGED <<program, file, lock, list, kiosk, newest, faults, cutOff, sentHome>>

-----------------------------------------------------------------------------
(* The kiosk. *)

\* GET /api/links of the home page, once for each time it is loaded.
Fetch ==
    /\ up /\ lock = Nobody /\ at \in HomePages /\ shown = Loading
    /\ shown' = IF Readable THEN file ELSE Failed
    /\ UNCHANGED <<program, file, lock, step, list, asleep, at, newest, faults, cutOff, missed, sentHome>>

\* The page goes to a link, or home again, by any of the URLs.
Visit(place) ==
    /\ up
    /\ IF place \in HomePages THEN LoadHome(place) ELSE at' = place /\ UNCHANGED <<shown, missed>>
    /\ UNCHANGED <<program, file, lock, step, list, asleep, newest, faults, cutOff, sentHome>>

\* The browser goes back, and shows the home page as it was left some time ago.
GoBack ==
    /\ up /\ at = "link"
    /\ at' \in HomePages /\ shown' \in 1..newest
    /\ missed' = TRUE
    /\ UNCHANGED <<program, file, lock, step, list, asleep, newest, faults, cutOff, sentHome>>

\* pageURLAllowed ignores the error of Load and judges by an empty list: a
\* page that only a link allows is sent home.  (Every list allows it here.)
Judge ==
    /\ up /\ lock = Nobody /\ at = "link" /\ ~Readable
    /\ sentHome' = TRUE
    /\ LoadHome(startsAt)
    /\ UNCHANGED <<program, file, lock, step, list, asleep, newest, faults, cutOff>>

Sleep ==
    /\ up
    /\ asleep' = ~asleep
    /\ UNCHANGED <<program, file, lock, step, list, at, shown, newest, faults, cutOff, missed, sentHome>>

LinksNext ==
    \/ \E e \in BOOLEAN : StartBreaks(e) \/ (\E c \in Lists : StartLinks(e, c))
    \/ Crash
    \/ \E s \in Savers :
          \/ BeginSave(s) \/ EndSave(s) \/ SaveFails(s)
          \/ AskAsleep(s) \/ AskLocation(s) \/ Reload(s) \/ Unanswered(s)
    \/ Fetch \/ GoBack \/ Judge \/ Sleep
    \/ \E place \in HomePages \cup {"link"} : Visit(place)

LinksSpec == LinksInit /\ [][LinksNext]_linksVars

-----------------------------------------------------------------------------

\* Every variable has its type; while a save writes, nobody else does.
LinksTypeOK ==
    /\ up \in BOOLEAN /\ editable \in BOOLEAN /\ config \in Lists /\ startsAt \in HomePages
    /\ file \in Lists \cup {Missing, Torn}
    /\ lock \in Savers \cup {Nobody}
    /\ step \in [Savers -> {"idle", "write", "asleep?", "location", "reload"}]
    /\ \A s \in Savers : step[s] = "write" => lock = s
    /\ list \in [Savers -> Lists]
    /\ asleep \in BOOLEAN /\ at \in HomePages \cup {"link"}
    /\ shown \in Lists \cup {Loading, Failed}
    /\ newest \in Lists /\ faults \in 0..MaxFaults
    /\ cutOff \in BOOLEAN /\ missed \in BOOLEAN /\ sentHome \in BOOLEAN

\* When no save is under way, the home page shows the list that is stored,
\* however saves, loads and moves of the page have interleaved.  It may
\* show an older one only when it was left alone: the display was asleep,
\* the browser did not answer, the write was cut off, the page goes by a URL
\* that is not spelled like homeURL, or the browser brought it back from its
\* own memory.  (Waking the display does not load the page again.)
HomeFollowsStore ==
    up /\ at \in HomePages /\ shown # Loading /\ ~missed /\ (\A s \in Savers : step[s] = "idle") =>
        shown = IF Readable THEN file ELSE Failed

\* Nobody reads a list that is being written: the home page shows an error,
\* and a page is sent home for want of a list, only if a write was cut off.
ReadsAreWhole == shown = Failed \/ sentHome => cutOff

\* Where links may not be edited, a program that runs has the configured
\* list, whatever was stored or cut off before.
FixedLinks == up /\ ~editable => file = config

\* An edited list outlives ends and starts of the program, and changes of
\* the configured list: only another save replaces it, or a start that
\* does not allow edits.
EditsSurvive ==
    [][Readable /\ file' # file => editable' = FALSE \/ lock' # Nobody]_linksVars
=============================================================================
