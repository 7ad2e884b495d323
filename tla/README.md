# kiosk-display: a model of the display, its browser and its remote control

`kiosk-display` is a Go program that shows one Chromium page on a screen, keeps
that page inside a policy, and lets an operator watch and control it from a
second, authenticated web server. This directory holds TLA+ models of the parts
of the program whose behaviour depends on the order of things: concurrent HTTP
handlers, browser callbacks, the session loop, a browser that dies, a file that
is cut short. TLC checks the models on small instances; TLAPS proves every
property of the runs but the liveness properties for all instances.

## 1. Inventory

All paths are below `src/internal/` unless they start with `cmd/`.

| component | source | state it keeps | operations | interacts with |
|---|---|---|---|---|
| display power | `kiosk/controller.go`, `display.go`, `browser_wait.go` | `asleep`, `WakeCh`, the screen itself | `SleepDisplay`, `WakeDisplay`, `SetAsleep`, `ensureAwake`, `waitForDisplay` | called by both HTTP servers, by `RecordNav` from browser callbacks and by every remote command; broadcasts on the hub, writes the audit log, wakes the session loop |
| frame hub | `kiosk/hub.go` | set of clients, two bounded channels each | `Subscribe`, `Unsubscribe`, `Broadcast`, `BroadcastStatus` | fed by the event callback, the session loop and `SetAsleep`; drained by the stream handlers |
| remote stream and page | `server/manager/stream.go`, `assets/web-manager/js/remote.js`, `auth.js`, `main.js` | one connection per viewer; the page's streams, picture, display status and mode of its text field | upgrade, snapshot, forward, ping; dial, retry, decode; the page's status requests | reads `asleep`, the hub |
| command queue | `kiosk/controller.go`, `commands.go` | `cmds` (64), a result channel per command | `Request`, `Enqueue`, `runCmd` | HTTP handlers on one side, the session loop on the other |
| session loop | `kiosk/browser_session.go` | `reapplyCh`, `denyCh`, `lastPassword`, the tickers | the cases of the `select` in `run` | everything above |
| single tab | `kiosk/browser_session.go`, `browser_guards.go` | `mainID`, pages of the browser | `onBrowserEvent`, `handleExtraPage`, `closeExtraTarget`, `enforceSingleTab`, `resolveMainID` | URL policy, audit log |
| browser lifecycle | `kiosk/browser.go`, `browser_wait.go` | one browser process at a time | `ManageBrowser`, `runBrowser` | starts sessions, runs the wake commands |
| screencast | `kiosk/browser_cast.go` | `casting`, `lastFrame` | `sync`, `fallback`, `stop` | `asleep`, number of viewers, hub, session loop |
| remote input | `kiosk/commands.go`, `input.go`, `server/manager/remote.go`, `assets/web-manager/js/remote.js` | `touchActive` (a global), the page's drag, the finger in the browser | click, touch start/move/end/cancel, wheel, type | command queue |
| navigation attribution | `kiosk/controller.go` 62-139 | `remoteUntil`, `remoteHost` | `MarkRemoteNav`, `MarkRemoteInput`, `ClearRemoteNav`, `NavSource`, `InputSource` | handlers set, browser callbacks read |
| audit log | `audit/log.go` | list in memory, `nextID`, `audit.jsonl` | `Open`, `Add`, `List`, pruning | every component reports to it |
| manager sessions | `server/manager/auth.go`, `oidc.go`, `assets/web-manager/js/auth.js`, `api.js` | the one session, pending logins; the browser's cookie; each page's token | `create`, `valid`, `take`; `put`, `take`; the page's login, logout and load | all handlers of the manager |
| login limiter | `server/manager/auth.go` 118-196 | times of failures per address | `allow`, `fail`, `success` | the login handler |
| links store | `links/store.go`, `server/manager/mux.go`, `server/display/mux.go`, `assets/web-display/js/main.js` | `links.json`; what the home page shows | `Load`, `Save`, `ensureDefaults`, `reloadHomeIfNeeded` | policy, both servers, the command queue |
| URL policy | `policy/url.go` | none; reads configuration, links and the resolver | `NavURLAllowed`, `PageURLAllowed`, `ExactLinkLabel` | single tab, remote handlers |
| TLS files | `utils/tls.go`, `cmd/kiosk-display/main.go`, `server/servers.go` | `tls.crt`, `tls.key` | `EnsureSelfSigned`, loading by the servers | start-up, launch options |
| start, servers, shutdown | `cmd/kiosk-display/main.go`, `server/servers.go` | two listeners, the context of the process, five seconds to stop | `GoListenTLS`, `Shutdown` | owns the TLS files and the links store, ends the browser |
| configuration, handlers, launch options, profile, extension, web pages, password hashing | `config`, `server/common`, `kiosk/browser_opts.go`, `browser_prefs.go`, `extension.go`, `assets`, `authpass` | constants of a run, or none | read once, route, render | |

What is hard, and where the properties below are aimed (`PROJECT.json` lists
each hazard with its line):

* **Check, then act.** `SleepDisplay` and `WakeDisplay` test a flag, run shell
  commands for as long as they take, and then set the flag.
* **Bounded channels that drop.** `WakeCh`, `reapplyCh`, `denyCh`, the viewers'
  channels and `Enqueue` all drop when full. Each drop must lose a repetition
  and never the news itself.
* **Work after an unlock.** The status broadcast and the audit entry follow the
  flag without the mutex that protected it.
* **Callers that leave.** A request may time out or be cancelled with its
  command in the channel; the browser may die with a command in hand.
* **A view of the browser that is late.** Events arrive after what they report,
  the poll works through an old list of pages, and goroutines act on a page
  they looked at earlier.
* **Files written in place.** Writes of the audit log may fail or be cut short
  and are ignored; `links.json` and the two TLS files are opened, emptied and
  written again. The next start has to live with what is there.
* **One fact in several places.** A session is in the server's map, the cookie
  of a browser and the token of each page; a finger is in the page's drag, in
  `touchActive` and in Chromium. The copies change at different moments, and a
  reply that is lost leaves them apart.
* **Admission and outcome apart.** The limiter admits a login on a count that
  other logins under way will change.
* **Belief and fact.** The session believes the browser casts; the page believes
  it has a stream; the loop believes the viewers know the mode of a field. Each
  belief saves work, and each can be wrong.
* **One mark for all.** Everybody far away shares one record of who navigated
  last, which expires, is replaced, and is cleared by whoever failed.
* **An end with a deadline.** Two servers stop one after the other within the
  same five seconds, with a save still writing.
* **A decision made again.** A page is judged at each poll, by links and DNS
  answers that have changed since it was opened.

What makes each component right: the display never ends up dark (or lit) behind
a flag that prevents its repair; viewers get the newest message, in order, and
never block a producer; a page shows the state of the display; whoever watches
gets a picture, and a page keeps its stream; commands run in
order, at most once, and what is answered is true; the kiosk shows exactly one
page and never closes its own; the log loses no more than it must and repeats
nothing; whoever is signed in can work until a limit or a later login ends it,
and one login gives one session; a finger is known to the program and does not
stay down; a start is refused only over files that nothing else would mend; the
home page shows the stored list; a stop does not cut a save off; the log names
who navigated; the policy does not depend on how a host is
written.

## 2. Modules

| module | models | uses |
|---|---|---|
| `DisplaySignal` | what the session can count on of the display | |
| `DisplayPower` | display power, step by step | refines `DisplaySignal` |
| `RemoteStream` | the way of the display status to a page | extends `DisplayPower` |
| `DisplayPowerProofs` | theorems of both, the refinement included | `RemoteStream` |
| `LiveView` | browser lifecycle, screencast, the cases of the loop about the picture | extends `DisplaySignal` |
| `LiveViewProofs` | its theorems | `LiveView` |
| `FrameHub` | frame hub | |
| `PageView` | a page's streams, picture and text field; those who broadcast | extends `FrameHub` |
| `FrameHubProofs` | theorems of both, the refinement included | `PageView` |
| `CommandService` | what the command queue promises | |
| `CommandQueue` | command queue, session loop, restarts | refines `CommandService` |
| `CommandQueueProofs` | its theorems, the refinement included | `CommandQueue` |
| `SingleTab` | single tab | |
| `NavSource` | navigation attribution | |
| `AuditLog` | audit log | |
| `SessionProofs` | theorems of these three | `SingleTab`, `NavSource`, `AuditLog` |
| `ManagerAuth` | manager sessions, with the pages' part | |
| `LoginLimiter` | login limiter | |
| `ManagerAuthProofs` | theorems of both | `ManagerAuth`, `LoginLimiter` |
| `RemoteTouch` | remote input: touch, click, wheel | |
| `RemoteTouchProofs` | its theorems | `RemoteTouch` |
| `TlsFiles` | TLS files | |
| `LinksStore` | links store, with the home page | |
| `Service` | start, servers, shutdown | extends and refines `TlsFiles` and `LinksStore` |
| `UrlPolicy` | URL policy | |
| `ServiceProofs` | theorems of all four, both refinements included | `Service`, `UrlPolicy` |
| `MC*` | instances for TLC | one for each run |

Where an abstract specification and the code that implements it stand side by side:
`DisplayPower` implements `DisplaySignal`, which is all `LiveView` knows of the
display; `CommandQueue` implements `CommandService`; and the compositions
`PageView` and `Service` implement the parts they are made of, so that what is
proved of a part is true in the whole.

An operator whose comment begins with `(Fault)` stands beside the operator it
distorts: it is a plausible mistake in that piece of code, and every property
of a run is violated when one of them takes its original's place. Faults are no
part of `Next`.

### DisplayPower

State: `asleep` and `wakeCh` are the fields of `Controller`; `power` is what the
screen does; `pc`, `op` and `was` are the position and the locals of each
goroutine inside `SleepDisplay` or `WakeDisplay`. A call is six steps, one for
each stretch of code that another goroutine can observe as a unit: `Begin` (the
test), `RunDone`/`RunFailed` (the shell commands), `SetFlag` (under the mutex),
`Publish` (the broadcast), `Signal` (the send on `WakeCh`), `Record` (the audit
entry). `DisplaySignal` keeps of all this the flag, the channel and `owing`, the
goroutines between `SetFlag` and `Signal`. `DrainWake` is the case of the session
loop, `WaitForDisplay` the wake commands before a browser starts. A command list is one step, because only its
end matters to anyone: it succeeds, or it fails with the screen switched or not.
A call whose test says there is nothing to do is a stuttering step.

The flag and the screen *can* end up in disagreement. The properties say
exactly when: `NeverStuckDark` and `NeverStuckLit` name the causes (overlapping
calls, a command list that failed half-way, a restart of the browser, a screen
that was off when the process started) and TLC and TLAPS show that there is no
other.

### FrameHub

A broadcast is a sequence of attempts under the mutex: `Lock`, then for each
client, in any order, `TrySend`, and when the channel is full `Evict` and
`Retry`, then `Unlock`. Viewers `Receive` without the mutex at any moment.
`Subscribe` and `Unsubscribe` are critical sections. `Broadcast` and
`BroadcastStatus` are one definition, with the channel as its parameter.

### PageView

A viewer of the hub is one connection of the page, which goes from `unused`
through `dialing` and `open` to `closed`; the page dials another (`Retry800`)
when one has ended. `Accept` and `HandlerEnds` are the handler's two ends of it,
`Hangup` the page's; a failed ping, the read deadline of 60 seconds and the write
deadline of 10 are an end of the handler at any moment. `SignIn` is `showApp`,
which dials unless `started` is set; `SignOut` is what the logout and a reply 401
do; `LoadPage` forgets everything. `ApplyFrame`, `Decoded` and `DecodeFails` are
`applyFrame` and its two callbacks: every image under way remembers the picture
that was shown when it came, and `urls` are the blob URLs not revoked yet.
`FocusAsk`, `FocusEnds` and `FocusTell` are `publishFocus` around its question to
the browser, with `told` for `lastPassword`. `Frame`, `Power` and `FocusTell`
begin the broadcasts, `Spread` is any step of one. `missed` are the connections
that the last news passed by; `crossed` and `leaked` say whether two images were
loading at once.

Two consequences are worth knowing. A sign-in after a logout
opens a second stream when the first is still connected, because nothing closes
it: `StreamForEachStart` counts one stream for each sign-in. And the loop does not
repeat itself: a viewer who connects later, or whose channel lost the news, keeps
the wrong mode until the focus moves between fields of different kinds, or until
the next click, text or navigation from afar.

### RemoteStream

`DisplayPower` with the status channel of the hub, the stream handler and the
page behind it. `PublishStep` is `Publish` with its broadcast; a broadcast is a
single step here, `FrameHub` shows what its steps add up to. The handler goes
through `Connect`, `Subscribe`, `Snapshot` and then `Forward`; the page takes
"awake" at its word and answers "asleep" with a request (`Handle`). `FocusStart` and
`FocusPublish` are `publishFocus` with the question to the browser in between:
password messages share the channel.

Messages are not all that tells a page. Every request of three kinds ends in
`setAsleepUI`: `status` is `syncDisplayStatus`; `tap` is `wakeDisplayOnly`, which makes
the page bright before the server has agreed (`Tap`) and asks for the status when
it fails (`Resync`); `post` stands for the clicks, touches and turns of the wheel,
whose replies carry the flag (`remoteOK`, `applyRemoteState`), and for `#wake` and
`#sleep`, whose success says what the flag now is. `Answer` is the moment at which the handler
reads, sets or tests the flag, `Apply` the reply on the page, `Show` what both it and
a message do there. A failed click, end of a touch or wheel asks for the status
(`Resync`), a failed button or another phase of a touch does not (`PostFails`). Any reply
may be shown after something newer.

The properties name the races that may deceive a page: two broadcasts that
changed places (`reordered`), a message pushed out of the channel with nothing newer behind
it (`lostNews`), a reply that was shown after the page had been told something newer and
true (`overtaken`), a status request that failed (`failed`). The last two end as soon as the
page is told the truth again. A reply of `#sleep` that arrives after the message
"woke" is one of them: the code has no means against it, and the page stays dark
until something else tells it.

### LiveView

`stage` is where `ManageBrowser` and `runBrowser` are, `loop` what the session
loop does next: each request to the browser is a step of its own, since the
display, the viewers and the browser move on meanwhile. `casting` is the
session's belief, `real` what the browser does; `fresh` is whether `lastFrame` is
less than 800 ms old. `SyncStep` is `sync` up to the requests it needs, `StopCast`
and `StartCast` are those requests with every outcome, `Fallback` and `Screenshot`
the picture the loop takes itself. A browser may die, or hang: it lives and
answers nothing. Only the screenshot has a time limit, so a loop that waits for
another answer of a hung browser waits until the process stops; no code replaces
a browser that hangs, and the properties name that case.
`view` says who waits for a picture: whoever has just connected, and everyone
after a wake.

### NavSource

`mark` is `remoteHost` while it has not expired, `"input"` for the mark of an
input. A request is its `handler` and its `command`, which part when the handler
gives up. `events` are navigations the browser has made and not reported; `Book`
is `NavSource` in the callback, `Record` the entry and the wake after it, which
asks the mark again (`InputSource`, as `Enqueue` and `RefuseURL` do when they wake the
display). `LoadTimesOut` is a navigation that `runCmd` has given up after its 20 seconds,
`LateLoad` the browser that goes there all the same. The history `lost[p]` says that the mark of party `p` has
expired, been replaced by another host's or been removed since it was set; the
properties say that nothing else changes what the log says.

### CommandQueue and CommandService

A call goes through `Awake` (or `WakeFails`), `Send` (or `Busy`, `CancelSend`),
and `Answered` or `Abandon`; `Enqueue` is `EnqueuePut` or `EnqueueDrop`. The
session goes through `Take`, `Exec`, `Reply` and `After`, and `Reapply` when it
is asked to; it ends with the browser or the process (`SessionEnd`) and
`SessionStart` is the next `runBrowser`, which goes on with the same channel.
`runCmd` is an action with an outcome and with or without an effect: with an
error, either is possible. `stale` and `loading` follow the page's documents
for `GuardsReapplied`.

A move of a touch that cannot be sent is dropped without a word: `Enqueue` returns
nothing and the handler answers "ok". Its call ends as `"dropped"` here, which is
`Drop` of the service: the caller has been promised nothing, and the command never runs.

`CommandService` is the promise without channel, timers and restarts: commands
are accepted in some order and dealt with in that order, one at a time; refused
ones are never run; a caller told "ok" can rely on the effect; a caller that
gave up knows nothing. The refinement maps `processed` to the commands that have
left the channel and the hand of the session, `applied` to those with an effect,
and `told` to how each call ended.

### SingleTab

`url` is what each page shows, in four classes: blank, allowed, refused, or not
there. The user, the pages and Chromium act through `OpenTab`, `NavigateTab` and
`CloseTab`, each leaving an event. `HandleEvent` is `onBrowserEvent`; the
goroutines it starts are `closers` (before their test of `mainID`), `condemned`
(after it) and `adopts`. `Poll` takes the list of pages and decides, and
`CloseDoomed` and `EndEnforce` carry out, with everything else in between.
`startedOn` is the page `resolveInitialMainID` chose: it takes the first page of
the list, which need not be the attached one. `NeverClosesItself` holds only when
it is (its premise): without the premise TLC finds a start with two pages in
which the event of the attached page makes the kiosk close it.
Another page that is open already when the session starts is blank, as Chromium
opens one; one that shows something would be found by the poll, though no event
reports it. `CloseFails` and `NavigateFails` are requests to the browser that fail.

`LostIsGivenUp` is the liveness property of `resolveMainID` and `lostTab`: a session whose
page is gone ends, whatever `mainID` says by then and whichever pages are left.

### AuditLog

Operations hold one mutex, so each is an action. Of the file the model keeps what
`load` can read: `disk` are the entries of its complete lines, `cut` says that a
line without its newline follows, and `tail` is the entry this line says, if it
lacks no more than the newline. What is appended to a cut line makes it
unreadable, so `tail` and the new entry are both lost to a reader. `Only` is the
loop with which `pruneLocked` and `List` select entries.
`AppendOutcomes` and `RewriteOutcomes` are what the writes can leave behind,
`Restart` is `Open`. `Crash`, `ClockBack` and `Tick` are the environment's.
A start that cannot open the file, or meets a line of a megabyte, is refused and
changes nothing, so it is no step here.
Pagination (`ListPage`) is a function of the list and is checked in every state, with
pages before the first and past the last.

`OneEntryPerId` says what an ID can be relied on for. `nextID` is rebuilt from the
lines that can be read, so an ID is given again if the entry that had it left no
trace: its line was never written and the process ended, or the whole log has
expired by the next start. No two entries that can be seen together ever share one.

### ManagerAuth

The three places of a session are `sessions` (the server's map), `cookie` (one
per browser, shared by its pages) and `csrf` (one per page). A session and its
CSRF token have the same number, because `create` draws both together. A request
is `Send`, one of the `Serve` actions (the handler; the store's critical section
is all that others see of it), and one of the `Got` actions (what the page's
script does with the reply). `Lose` is a lost request or reply, and `GotLoginCut`
a reply of which only the headers arrive: `doLogin` then shows the app with an
empty token. A login over OIDC is `BeginLogin` (the redirect), `Callback` up to
`take`, and `Grant` or `Refuse` for the exchange; `Again` is a callback that is
loaded twice, whose first handler goes on without a page. A page has one request
under way at a time. `TurnedAway` is a callback with the provider's error, or without
code or state: the pending login stays until it expires. The password version is a constant of the process, since the
configuration is read once, so its comparison is left out. `swapped` excuses the
pages that the properties cannot promise anything to: those whose browser's
session another of its pages has changed, or whose login reply broke off.

### LoginLimiter

`allow`, `fail` and `success` each hold the mutex and are an action each; between
them a login is in `from`. `log` is the history against which the pruned list is
compared, `peak` the greatest number of logins that were under way at once.

### RemoteTouch

`drag`, `point` and `busy` are the page's `drag`, `pendingMove` and `moveBusy`;
`touchActive` is the global of `input.go`; `finger` is whether Chromium has a
touch point. `Release` takes what `endDrag` decides from the distances (a tap, a
drop or a cancelled pointer), and `EndDrag` its requests, which wait for the
start. `Enter` and `EnterMove` are `Request` and `Enqueue`, `Exec` runs one
command; the operators `Start`, `Lift`, `Move`, `Click` and `Navigate` say what
each command does to a `Hand`, in all the ways its dispatches may end. A dispatch
that fails, or times out, may have been carried out. The channel is that of
`CommandQueue` with nothing but order, capacity and outcomes.

### TlsFiles

A file is what a reader can make of it: absent, cut, a certificate that is no
trust anchor, or whole with the number of its pair. One action stands for each
step that may be the last: the tests, each removal, each open (which empties) and
each write. `Break` is the end of the process or a failed step after which `main`
gives up, `RemoveFails` an ignored error. What a completed write has put in a file
is taken to be there at the next start: losses in the operating system's caches
are not modelled.

### LinksStore

A list is a number, and the list of a configuration counts as one. `BeginSave`,
`EndSave` and `SaveFails` are `Store.Save` under the mutex; `AskAsleep`,
`AskLocation` and `Reload` are `reloadHomeIfNeeded` after it. `Fetch` is the home
page's request, `Judge` is `pageURLAllowed` when the list cannot be read (it
ignores the error). `sameHomePage` compares strings: `"home"` is the home page under
a URL that it takes for `homeURL`, `"alias"` the same page under any other, which is how
the browser names it when `Display.Port` is 443 (it leaves the port out), as `/index.html`,
or at `localhost`. After a save the page is loaded again only at `"home"`. `GoBack` is the
browser's history, which shows a home page as it was. Every list allows the page of the link here; what an allowed
list decides is the matter of `UrlPolicy`. `missed` says that the page was left
alone although the list may have changed: the display slept, the browser did not
answer, the write was cut off, the page went by an alias, or was brought back from
the history.

### Service

`LoadFiles`, `LoadStores` and `ServeOrDie` are the start: the certificate, the
list, and two servers in goroutines of their own, one of which may end the
process while the other runs. `Signalled`, `DisplayClosed`, `TimeOver` and `Exit`
are the end: the display's server is shut down first, then the manager's, within
the same five seconds, and `main` returns. `Save` and `Kiosk` are the actions of
`LinksStore` with what they need: a server that takes them, a browser that runs.
`Die` is the end of the process at any point.

### UrlPolicy

Each function of `url.go` is an operator of the same name. A host is a name, which
is a sequence of labels, in a spelling: upper case or not, and the dots at its
end. Parsing is abstracted to that; `normalizeHost` is what it does, which removes
one dot. Addresses are hosts as well (`Loopback` has 127.0.0.1 and ::1). The position of a link stands for its label. Links and DNS answers change
(`Edit`, `Resolve`); the reference (`MayBeShown`) is stated on names alone.

## 3. Runs

One run for each module that has a behaviour. Numbers of distinct states are for
the configuration as it is.

| run | instance | states | what it shows |
|---|---|---|---|
| `remote_stream` | 2 callers, 3 calls, both command lists configured; 1 viewer with 2 requests, status capacity 2, 2 password messages | 4.2 million | when flag and screen may disagree; which races deceive a page, and that no others do |
| `live_view` | 2 viewers, 1 waker, 2 troubles with the browser | 44 000 | whoever watches gets a picture, casts end, wakes are noticed (liveness) |
| `page_view` | 2 connections, capacity 1, 2 broadcasts of either kind | 1.0 million | streams, picture and mode of a page through ends, retries, sign-ins and lost messages |
| `command_queue` | a navigation and 2 touch moves, capacity 1, one death | 148 000 | refinement of `CommandService`, guards asked for, the channel is served |
| `single_tab` | 3 pages, 2 moves, 1 failed request | 857 000 | never closes itself, events suffice, a lost page is given up, a refused page leaves |
| `nav_source` | 2 requests, 2 hosts, 2 navigations unreported at a time | 755 000 | what can book a navigation to the wrong side |
| `remote_touch` | 2 gestures on 1 or 2 pages, capacity 2, 2 faults | 762 000 | no click with a finger down, and what can leave a finger down |
| `service` | 2 servers, 3 pairs, 3 breaks; 2 savers, 4 lists, 2 failed writes | 2.6 million | which interruptions leave files no start gets past; edits survive; the home page follows; a stop spares saves |
| `audit_log` | 2 keys, 3 entries kept, retention 3, window 2, 5 ticks, 5 entries, 3 troubles | 355 000 | what an ID names, duplicates, losses, pages |
| `manager_auth` | 2 pages in 1 or 2 browsers, 2 sessions, 1 login over OIDC, limits of 1 and 2 ticks | 747 000 | whoever is signed in can work; one login, one session; both limits hold |
| `login_limiter` | 3 logins from 2 addresses, 2 failures within 2 ticks, 3 ticks | 248 000 | what overruns the limit, and that nobody is refused without cause |
| `url_policy` | every configuration, every list of 2 links, every resolver of a small world | 124 000 | the code decides as a policy on names does |

`DisplayPower`, `FrameHub`, `TlsFiles` and `LinksStore` have no run of their own:
each is checked inside the composition that extends it (`remote_stream`,
`page_view`, `service`).

**What is kept out of the runs because it is proved** for every instance
(section 4): the type invariants of all modules; `NoLostWake` and the refinement
of `DisplaySignal`; `BeliefHolds`; `NeverPanics`, `NewestKept` and `InOrder`;
`AtMostOnce` and `LoopNeverBlocks`; `FingerKnown` and `StaleTouchCostsOne`;
`RefusedForGood` and `PairKept`; `ReadsAreWhole` and `FixedLinks`. What a run
checks, it checks because it was found true there before it was proved, and
because its mutants are run against it.

**Bounds and why they are enough.** In `remote_stream` two callers and three
calls let a sleeper overlap with a waker and a later call meet the result; a
command list that fails half-way, a restart of the browser and a screen that was
off at the start need one call each. The safety of the display is proved for any
number of both. A capacity of 1 or 2 in place of 2, 4 and 64 makes full channels,
evictions and refusals the common case; nothing in the code depends on the
number. `StatusCap` 2 with two password messages can push out any display
message, which is what `SleepReachesPage` is about.

In `live_view` two viewers are one that stays and one that comes and goes, two
troubles are a failed launch and a browser that dies or hangs. Sleeps, wakes,
casts that stall and requests that fail are not bounded. In `page_view` two
connections are one and its successor, or two at once; two broadcasts through a
channel of one fill it, and evict, and put two images under way at once, which
is all that `PictureSettles` and `ModeFollows` are about. Hangups, retries,
sign-ins, loads of the page, questions about the focus and browser deaths are
bounded by the two connections only; `StreamForEachStart` is proved for any
number.

Three commands with a channel of one are one in hand, one waiting and one
refused or dropped; the safety properties of `CommandQueue` are proved for every
size. One death is enough to leave a command behind for a second session. In
`SingleTab` two moves open a page and change or close another while one
enforcement is under way, with three pages the poll has two to close, and one
failed request is repaired by a later poll. In `nav_source` two requests are the
fewest that replace and clear each other's mark, two hosts the fewest that
differ, and two unreported navigations the fewest that are booked out of order; how many
there are in all is not bounded, since a request starts again when its navigation
has been reported. Retention 3 is longer than
Window 2, as in the code (the proofs need it to be no shorter), and five entries exceed the three that are kept, so both
kinds of pruning happen.

Three logins at once overrun a limit of two failures, and three ticks let a
window pass in full. Two sessions let one replace another while two pages
hold tokens of either; one login over OIDC can be loaded twice, run out, or
finish after a password login; three ticks reach both limits of a session, and
`Idle` 1 is shorter than `MaxAge` 2, as in the code. Two gestures are the fewest
that interfere, and two faults the fewest that combine a lost reply or a new
browser with a failed dispatch. Three breaks leave an old key, cut a new
certificate and end one more start. Four lists are the configured one, one for
each of two saves, and one for a changed configuration. The world of
`url_policy` has a name and one below it, addresses of every kind the code tells
apart, and hosts in three spellings; nothing in the code compares more than two
hosts at a time.

**Symmetry and views.** Callers, status requests, connections, requests and hosts
of navigations, savers, gestures, pages and browsers of the manager and callers
of the limiter are interchangeable; symmetry is used in runs without liveness
properties only. Four instances have a view, which removes
what neither a guard nor a property can see any more. `MCRemoteStream`: the screen once two
calls have overlapped, and before that everything about it but whether its state is
excused; the last call of an idle caller; which of the two excuses a page has; what
was dropped from a channel, or written to a page, that is not subscribed. Its next-state
relation has one restriction besides: the last two steps of a call, the send on
`WakeCh` and the audit entry, come before anything else. They touch nothing that any
page, message or property of this run looks at, so every behaviour differs from one of
these in the place of such steps only. `MCPageView`: the channels of connections that
have ended, the content of messages that nobody will receive, the URLs once one was
left over. `MCNavSource`: the entry of the last wake, and the host of a lost mark.
`MCService`: the state of a kiosk that does not run, and what a page shows while that
is excused.

**Deadlock** is checked where the program cannot stop (`nav_source`,
`login_limiter` and `url_policy`: inputs, attempts to sign in and lookups are
always possible) and not where a bound or the end of the process stops the model.

**Fairness.** Always the weakest the code justifies, and only where a liveness
property is checked.
`LiveView`: the goroutine of `ManageBrowser`, which is also the session loop, runs
on, unless a hung browser leaves it waiting; a waker sends its token; 800 ms pass.
Strong fairness for `Tick`, `WakeCase` and `SessionEnd`, since Go's select chooses
at random among the ready cases; for `Launch`, since a browser that is started
every time again starts sooner or later, and for `Screenshot` likewise. Nothing is
assumed of viewers, wakes, sleeps, deaths, the browser's own frames, or of the
requests that start and stop casting, which may fail every time.
`CommandQueue`: the timers of a request; the loop's steps; strong
fairness for `Take` and `Reapply`, since Go's select chooses at random among the
ready cases, so one that is ready again and again is chosen; the browser manager
starts a new session; load events are delivered. Nothing is assumed of
cancellations, stops or deaths. `SingleTab`: the ticker fires and the list of pages is had sooner or later (strong
fairness of `Poll`, which competes with the other cases of the select and with
failures), and the loop comes back from what it does (weak fairness of `Enforce`): closing
a page has a limit of two seconds, while `chromedp.Navigate` has none, so this assumes
that the main page loads or fails in the end. Nothing is assumed of events and their
goroutines (the poll alone must do), or of users, pages or failures, which are bounded.

**What the properties excuse.** Some properties name causes and say that there is no
other. The causes are behaviour of the code which nothing in it prevents or repairs;
the properties do not forbid them, and a reader should know them:

* display: calls of `SleepDisplay` and `WakeDisplay` that overlap, a command list that fails
  half-way, a screen that was off at the start, wake commands run by a restart of the
  browser (`NeverStuckDark`, `NeverStuckLit`);
* page: overtaken replies, failed status requests, lost or reordered messages
  (`NeverStuckAsleepPage`, `SleepReachesPage`, `StreamConverges`); viewers the mode was not
  told to (`ModeFollows`); two images that load at once (`PictureSettles`);
* touch: a dispatch that failed or was not confirmed, a second pointer, a page that
  closed, a start carried out late, a cancel that did not get through
  (`NoFingerLeftDown`, `ClickWithoutFinger`);
* single tab: a session that started with another page as `mainID`
  (`NeverClosesItself`, `EventsSuffice`);
* log: a clock that was set back (`RecordedUnlessRecent`), an ID that left no trace
  (`OneEntryPerId`), a mark that was lost (`RemoteNamed`, `ScreenNamed`);
* files: the list whose own write was cut off (`EditsSurvive`), the home page that was left
  alone or goes by another spelling of its URL (`HomeFollowsStore`), a stop whose five
  seconds are used up (`StopSparesSaves`), interrupted writes of a key
  (`UnusableOnlyIfTorn`);
* sessions: another page of the same browser that signed in or out, a login reply that
  broke off (`SignedInWorks`); logins that overlap (`OverrunByOverlap`).

**A remark on the documentation.** README.md:53 of the repository says that
`auto_allow_link_hosts` and `auto_allow_subdomains` "Expand allowlist from
configured links". `policy/url.go` applies the second flag to the entries of
`allowed_hosts` only (lines 132 and 139): hosts of links are compared for
equality, so with both flags set a host below that of a link stays refused.
`UrlPolicy` models what the code does, and `MayBeShown` says so (`ByLinks`
compares names for equality, `ByHosts` alone looks below them).

## 4. Theorems

Every invariant and every action property of the runs, and the refinements, are
theorems here: what TLC finds on a small instance holds for every value of the
constants. Eight modules hold the proofs. Each follows one pattern: an inductive
invariant, checked by TLC before it was proved, that the initial states satisfy
and each action keeps, one lemma for each action that takes more than a few
steps; then the properties, which follow from it.

`DisplayPowerProofs`, for every set of callers, every configuration and every
number of calls; and for any number of pages, requests and password messages:

* `TypeCorrect`, `NoLostWakeHolds`, `NeverStuckDarkHolds`, `NeverStuckLitHolds`,
  and `RefinesSignal`: `DisplayPower` implements `DisplaySignal`, with `owing` the
  callers that have cleared the flag and not sent.
* `NoLostWake` is inductive by itself, given the types. The two others are not:
  they speak only of states in which no call is between its test and its
  `SetFlag`. `PowerInv` adds what holds in between: with no overlap so far there
  is at most one such call, its target is the opposite of the flag, and the
  screen already has that target only after its commands have run.
* `DisplayInStream`: `RemoteStream` is the display with pages around it, so the
  above holds there too. `StreamTypeCorrect`, `StreamConvergesHolds`,
  `NeverStuckAsleepPageHolds` and `SleepReachesPageHolds`.
* `StreamInv` says for each page where the last news of the display is.
  `OneNews`: as long as no two publications changed places, at most one is still to
  come, and it says what the flag says. `OnItsWay`: once no broadcast is under way, the last
  news in the page's channel says what the flag says, or the channel holds none
  and the stream has written that, unless one of the races that the property names
  has happened. `WakeComing` and `SleepComing` are the same for the two
  directions, since a page believes "awake" and asks back about "asleep"; both end in
  `Sure`, which is about the page itself: it shows the flag and every
  reply under way that says otherwise counts as overtaken, or a request is under way
  that will tell it, or it is known to have been misled.
  `SleepReachesPageHolds` has `StatusCap > 1` as its hypothesis (the code has
  4): in a channel of one, a password message alone may push the news out.

`LiveViewProofs`, for any viewers, wakers and troubles:

* `LiveTypeCorrect`, `BeliefHoldsAlways` (what casts is known as casting, unless
  the last request failed), and `DisplayUnchanged`: `LiveSpec => SignalSpec`. With
  `RefinesSignal` this says that the display `LiveView` assumes is the one the code
  provides.

`FrameHubProofs`, for any producers, viewers, capacities and broadcasts:

* `TypeCorrect`, `NeverPanicsHolds`, `InOrderHolds`, `NewestKeptHolds`.
* The inductive invariant `HubInv` says what the mutex gives: one broadcast at a
  time, whose clients are all still subscribed (so none of its sends meets a
  closed channel) and whose message is newer than anything they hold or have
  received (`ServesNewer`, from which the order follows). `RoomMade` is the
  argument for `NewestKept`: between the two attempts viewers only receive, so
  the second attempt finds the room the eviction made. `BelowNewest` is needed
  for a viewer that receives: what it takes last is the newest message.
* `HubImplemented`: `PageSpec => Spec`. The page and the broadcasters of `PageView`
  use the hub as `FrameHub` says, so all four results hold in the composition.
* `StreamForEachStartHolds`, for any finite number of connections. `LineInv`
  adds that `started` is set exactly while the app is shown, so that every sign-in
  dials; `OneMore` is the fact about cardinalities that each dial needs.
* `PageTypeCorrect`, `PictureSettlesHolds`, `ModeFollowsHolds`, from `PageInv`: an
  image that is loading has a URL of its own and a frame later than all before, and
  what the page shows is the newest it has decoded (`PictureInv`, `ShowsNewest`);
  the mode told last is the last news in a viewer's channel, or about to be put
  there, or what the page already goes by, unless a broadcast has missed that
  viewer (`NewsKnown`, `ModeTold`).

`CommandQueueProofs`, for every set of commands, every capacity and every number
of deaths:

* `TypeCorrect`, `AtMostOnceHolds`, `LoopNeverBlocksHolds`,
  `GuardsReappliedHolds`, and `ServiceImplemented`: `Spec => ImplementsService`.
* The inductive invariant `QueueInv` ties the channel to the sequence of all
  accepted commands: the channel is the end of that sequence, the command in
  hand is the one before it, no command is in the sequence twice, effects exist
  only for commands before that point and results only for those already
  answered. At-most-once follows because the command in hand has no effect yet
  (`FirstEffect`), and the loop does not block because it has no result yet.
* The refinement maps the initial state to the initial state and each step to
  one of the service or to none: refusals to `Refuse`, moves that were not sent to `Drop`, puts to `Accept`, `Exec`
  to `Process`, the two ways a waiting call returns to `Tell`.

`SessionProofs`, for any tabs, requests, hosts, keys, limits and faults:

* Of `SingleTab`: `TypeCorrect`, `OwnPageKept` (`NeverClosesItself`),
  `EventsAreEnough` (`EventsSuffice`).
  `TabInv` is the reason for the second: while the attached page is open,
  `mainID` names it and it is in no list of pages to be closed; a page that is
  gone does not come back. `EventInv` is the reason for the last: whatever
  the session has not noticed yet, an event about it waits (`LossKnown`,
  `ExtraKnown`, `RefusedKnown`), or a goroutine or a poll is under way that
  looks at it.
* Of `NavSource`: `NavTypeCorrect`, `RemoteIsNamed`, `ScreenIsNamed`,
  `WakeIsNamedAlike`. These are action properties; each follows from the
  actions one by one, with the types and two invariants about the log: `MarkInv`
  (until it has been lost, the mark is the one set at the last dispatch) and
  `BookedInv` (the source that a report has been given is the one that the mark
  it left behind stands for).
* Of `AuditLog`: `AuditTypeCorrect`, `OneEntryPerIdHolds`,
  `RecordedUnlessRecentHolds`, `LossBoundedHolds`, `FileFollowsMemoryHolds`,
  `PagesPartitionHolds`, all but the last from `AuditInvariant`. `AuditInv` treats
  the memory and the file as two selections of what was recorded: both in the order of their
  IDs (`IdsInv`), and while the clock was not set back also in that of their
  times, with duplicates a window apart in each (`TimesInv`). `ShadowInv` is what a
  restart needs: an entry that the file still has and the memory has not is
  older than the retention, or was dropped from a list that is still full. So an
  event is never compared with less than the memory that the process would have
  had without the restart. `LossInv` strengthens `LossBounded` by what a cut line
  will still cost: with `Cost`, every failure pays for two entries in advance.
  `OneEntryPerIdHolds` needs two more facts: an ID that both lists have is one entry's
  (`NameInv`), and while nothing was lost the entry recorded last is still there
  (`NumberInv`), since it is the last that pruning would take.
* `Only` is a recursive function. That it is what its equation says, and leaves a
  selection in order (`OnlyExists`, `OnlyPicks`), is proved without a rule
  of induction: the lengths at which it would fail form a set of natural numbers,
  and `Least` gives a least one.

`ManagerAuthProofs`, for any pages, browsers, sessions, logins and limits:

* `TypeCorrect`, `LoginUsedOnce` (`OneSessionPerLogin`), `AcceptedInTime`
  (`ServedInTime`), `SessionOfThePage` (`SignedInWorks`).
* `LoginInv`: a login over OIDC is open, or in one exchange, or over. `SeatInv`:
  the session in the store is the newest, created when the history says. `PageInv`
  follows the number of a session from the reply that brings it to the cookie and
  to the page: while the server has the session of a page that nobody has excused,
  the page's token and its browser's cookie are that session's, or the reply
  that will make them so is under way.
* `LimiterTypeCorrect`, `OverrunHolds` (`OverrunByOverlap`) and
  `RefusedWithCauseHolds`, for any finite set of callers. `LimiterInv`: what the
  limiter keeps contains every failure of the window, and `peak` bounds the
  logins under way, so the failures admitted on one count number no more than
  these (`OverrunByOverlap` is about cardinalities of both).

`RemoteTouchProofs`, for any gestures, pages, capacity and faults:

* `TypeCorrect`, `FingerKnownHolds`, `ClickWithoutFingerHolds`,
  `StaleTouchCostsOneHolds`, `NoFingerLeftDownHolds`.
* `RunSound` is the heart: what one command may make of `touchActive` and the
  finger, in every way its dispatches may end. `TouchInv` adds `StaleOnce` to
  the three properties: after the one command that a stale touch has cost,
  `touchActive` implies the finger again, until the next fault.
* The types need `Owned`: whatever is under way belongs to a gesture that has a
  page, so that an answer finds the record it is about.
* `LiftInv` finds for a finger that is down the one who will lift it: a gesture
  whose page is still dragging or whose last request is on its way (`Lifting`),
  or a command that lifts in the channel (`LiftQueued`).

`ServiceProofs`, for any servers, savers, pairs, lists and faults:

* Of `TlsFiles`: `TypeCorrect`, `UnusableOnlyIfTornHolds`, and the two action
  properties `RefusedForGoodHolds` and `PairKeptHolds`. The properties speak of
  what is on the disk when no process runs. `FilesInv` says what is there at each
  step of `EnsureSelfSigned`: how far the old pair has been taken away, and that an
  old key which is still there next to a new certificate belongs to an older pair
  than the one being written.
* Of `LinksStore`: `LinksTypeCorrect` (with the mutual exclusion of writers),
  `ReadsAreWholeHolds`, `FixedLinksHolds`, `HomeFollowsStoreHolds`, and the action
  property `EditsSurviveHolds`. `StoreInv` adds the states inside the critical
  section: a file is torn exactly while a save holds the mutex, in a program that
  runs and allows edits, or for good once a write has been cut off.
  `HomeFollowsStore` is inductive with it.
* Of `Service`: `LinksImplemented` and `FilesImplemented` (the program, with its
  start, its servers and its end, implements `LinksStore` and `TlsFiles`),
  `ServiceEditsSurvive`, which carries a result of the store over, and
  `StopSparesSavesHolds`: a stop does not cut a save off, unless the five seconds
  run out.
* Of `UrlPolicy`: `PolicyTypeCorrect`, `OffTheLanHolds`, `FollowsPolicyHolds`,
  `LabelledOpensHolds`, for any names, addresses, spellings, links and resolvers.
  These are facts about the operators, since the links and the answers of the
  resolver may be anything of their types: `normalizeHost` maps hosts to names
  alike, up to one dot at the end, and the code's tests on hosts are then the
  policy's on names.

The assumptions are those the modules name, on constants alone
(`ConfiguredAssumption`, `MaxCallsAssumption`, `StatusCapAssumption`,
`MaxFocusAssumption`, `MaxDeathsAssumption`, `CapAssumption`, `MaxMsgsAssumption`,
`MaxTotalAssumption`, `FiniteAssumption`, `ProducersAssumption`, `KindsAssumption`,
`SubsetAssumption`, `BoundAssumption`, `AttachedAssumption`, `NothingAssumption`,
`MaxEventsAssumption`, `KeysAssumption`, `LimitAssumption`, `AuditBoundsAssumption`,
`TimesAssumption`, `BoundsAssumption`, `LimitsAssumption`, `MaxTicksAssumption`,
`CallersAssumption`, `NowhereAssumption`, `LinksBoundsAssumption`,
`NamesAssumption`, `SaversAssumption`, `ManagerAssumption`, `AddressesAssumption`,
`InputsAssumption`); TLC evaluates them in every run. They are bounds that are
numbers, capacities and limits that are positive, as the constants in the code
are, and names that are kept apart (a caller that is called "nobody"). Only
`LimitAssumption` compares two: the window of the duplicates is no longer than the
retention, 1500 ms and 7 days in the code.

Only model-checked: the liveness properties `ViewersServed`, `CastEnds`,
`WakeNoticed`, `QueueServed`, `LostIsGivenUp` and `RefusedPageLeaves`. Liveness under fairness is
outside the reach of the proof system as it is installed, and the bounds of the
models are then part of what is checked.

## 5. Not modelled, and why

* Password hashing (`authpass`): cryptography.
* `config`: read once at the start, defaults and checks of single values, no state.
* Handlers and routing (`server/common`, `display/mux.go` and the like): each
  parses a request and calls one of the components; the calls are modelled where
  they go. Coordinates, key names and limits on lengths are conversions that
  no property here is about.
* `browser_opts.go`, `browser_prefs.go`, `extension.go`: command-line options and
  files written before a browser starts, from constants of the run; nothing reads
  them while they are written.
* `links.js`, `audit.js`, `tabs.js` of the manager: an editor of a list, which
  sends the whole list and so overwrites what another page has saved since it was
  loaded, and a table whose replies may come out of order. Both are last-write-wins
  by design and have no repair that could go wrong.
* `content.js` and `background.js` of the extension: an overlay with timers of
  its own, and a request to wake the display at most once a second; a wake is the
  environment's in `LiveView` and `RemoteStream`, and may come at any time.
* Whether the guards took effect in the browser after `applyGuards` returned an
  error: the code ignores the error and nothing follows from it.
* A hung browser: `LiveView` has it, and every promise excepts it, because no code
  detects it.

Proofs still worth having: the six liveness properties, with a proof system that
can reason about `ENABLED`; and an abstract specification for `AuditLog` (a log
that only forgets), which its invariants describe without stating it as a
refinement.
