------------------------------- MODULE PageView -------------------------------
(***************************************************************************)
(* A manager page that watches: its connections to the remote stream, the  *)
(* picture it shows and the mode of its text field                         *)
(* (assets/web-manager/js/remote.js, auth.js, main.js), with the handlers  *)
(* of its connections (server/manager/stream.go), the hub behind them      *)
(* (FrameHub), and those who broadcast: the callback of the screencast, the*)
(* session loop (kiosk/browser_session.go) and SetAsleep.                  *)
(*                                                                         *)
(* A viewer of the hub is one connection here, and the page dials a new one*)
(* when one ends.  Each frame is decoded on its own, and the page shows    *)
(* whichever is ready.  The loop tells the viewers whether the field with  *)
(* the focus takes a password, but only when the answer is another one     *)
(* than it told last.                                                      *)
(***************************************************************************)
EXTENDS FrameHub, FiniteSets

CONSTANT MaxTotal   \* bound: broadcasts of both kinds together

ASSUME MaxTotalAssumption == MaxTotal \in Nat
ASSUME FiniteAssumption == IsFiniteSet(Viewers)
ASSUME ProducersAssumption == {"callback", "loop", "display"} \subseteq Producers
ASSUME KindsAssumption == Kinds = {"frames", "status"}

VARIABLES
    \* the session loop
    focus,    \* in publishFocus, past its test for viewers
    told,     \* lastPassword: {} for nil, or the set of its value
    what,     \* what[n]: the n-th status message is {TRUE} or {FALSE}, or {} for SetAsleep's
    \* the page
    visible,  \* isAppVisible
    started,  \* auth.js: started
    line,     \* line[v]: the connection as the page sees it
    retries,  \* timeouts of 800 ms that will dial again
    picture,  \* screen.src and prevFrameURL
    decoding, \* images that are being loaded, each with the prev of its applyFrame
    urls,     \* blob URLs that have not been revoked
    mode,     \* the field for texts masks what is typed
    \* history variables
    starts,   \* sign-ins since the page was loaded
    missed,   \* connections that the last news of the focus has passed by
    crossed,  \* two images were loading at once, or one failed, and no other since
    leaked    \* two images were loading at once since the page was loaded

loopVars    == <<focus, told, what>>
lineVars    == <<visible, started, line, retries, starts>>
pictureVars == <<picture, decoding, urls, crossed, leaked>>
pageVars    == <<loopVars, lineVars, pictureVars, mode, missed>>
allVars     == <<vars, pageVars>>

NoPicture == <<"none", 0>>
Reload    == <<"reload", 0>>   \* the screenshot that the reload button asks for
Urls      == (Viewers \X (1..MaxMsgs)) \cup {Reload}
Answers   == {{TRUE}, {FALSE}}

PageTypeOK ==
    /\ focus \in BOOLEAN
    /\ told \in {{}} \cup Answers
    /\ what \in Seq({{}} \cup Answers) /\ Len(what) = sent["status"]
    /\ visible \in BOOLEAN /\ started \in BOOLEAN
    /\ line \in [Viewers -> {"unused", "dialing", "open", "closed"}]
    /\ retries \in Nat /\ starts \in Nat
    /\ picture \in Urls \cup {NoPicture} /\ urls \subseteq Urls
    /\ decoding \subseteq [url : Urls, prev : Urls \cup {NoPicture}]
    /\ mode \in BOOLEAN /\ crossed \in BOOLEAN /\ leaked \in BOOLEAN
    /\ missed \subseteq Viewers

PageInit ==
    /\ Init
    /\ focus = FALSE /\ told = {} /\ what = <<>>
    /\ visible = FALSE /\ started = FALSE /\ retries = 0 /\ starts = 0
    /\ line = [v \in Viewers |-> "unused"]
    /\ picture = NoPicture /\ decoding = {} /\ urls = {} /\ crossed = FALSE /\ leaked = FALSE
    /\ mode = FALSE /\ missed = {}

-----------------------------------------------------------------------------
(* Those who broadcast. *)

\* The bound.
More == sent["frames"] + sent["status"] < MaxTotal

LoopFree == ~focus /\ job["loop"].step = "idle"

\* A frame of the screencast, or the loop's own screenshot.  (Their tests for
\* viewers and sleep are LiveView's: a frame may or may not come, as it likes.)
Frame(p) ==
    /\ p = "callback" \/ (p = "loop" /\ LoopFree)
    /\ More /\ Lock(p, "frames")
    /\ UNCHANGED pageVars

\* SetAsleep.
Power ==
    /\ More /\ Lock("display", "status")
    /\ what' = Append(what, {})
    /\ UNCHANGED <<focus, told, lineVars, pictureVars, mode, missed>>

\* publishFocus up to the question to the browser, unless nobody watches or the
\* display sleeps; after a command that may move the focus, lastPassword is
\* forgotten first.
FocusAsk(forget) ==
    /\ LoopFree /\ mu = {}
    /\ told' = IF forget THEN {} ELSE told
    /\ focus' \in {FALSE, clients # {}}
    /\ UNCHANGED <<vars, what, lineVars, pictureVars, mode, missed>>

\* (Fault) lastPassword is assigned before the answer is known.
FocusEndsEarly ==
    /\ focus /\ focus' = FALSE
    /\ told' \in Answers
    /\ UNCHANGED <<vars, what, lineVars, pictureVars, mode, missed>>

\* The browser reports an error, or what has been told already.
FocusEnds ==
    /\ focus /\ focus' = FALSE
    /\ UNCHANGED <<vars, told, what, lineVars, pictureVars, mode, missed>>

\* The answer is news.
FocusTell(answer) ==
    /\ focus /\ focus' = FALSE
    /\ told # answer /\ told' = answer
    /\ More /\ Lock("loop", "status")
    /\ what' = Append(what, answer)
    /\ UNCHANGED <<lineVars, pictureVars, mode, missed>>

\* The browser has died, and the next session knows of nothing.
NewSession ==
    /\ job["loop"].step = "idle"
    /\ focus' = FALSE /\ told' = {}
    /\ UNCHANGED <<vars, what, lineVars, pictureVars, mode, missed>>

News(n) == what[n] # {}

\* The connections that the steps of a broadcast keep the last news from: it is
\* taken out with nothing newer behind it.
Passed(p) ==
    LET q == chan["status"][job[p].cur] IN
    IF /\ job[p].step = "evict" /\ job[p].kind = "status" /\ q # <<>>
       /\ News(Head(q)) /\ ~News(job[p].msg) /\ \A i \in 2..Len(q) : ~News(q[i])
    THEN {job[p].cur} ELSE {}

\* The connections that get news, which makes up for what they have missed.
Served(p) ==
    IF job[p].kind = "status" /\ News(job[p].msg) THEN job[p].todo \ job'[p].todo ELSE {}

Spread(p) ==
    /\ Broadcasting(p)
    /\ missed' = (missed \cup Passed(p)) \ Served(p)
    /\ UNCHANGED <<loopVars, lineVars, pictureVars, mode>>

-----------------------------------------------------------------------------
(* The connections. *)

\* connectStream.
Dial(v) == line[v] = "unused" /\ line' = [line EXCEPT ![v] = "dialing"]

\* The session is accepted: showApp.
SignIn ==
    /\ ~visible /\ visible' = TRUE /\ started' = TRUE
    /\ starts' = starts + 1
    /\ IF started THEN UNCHANGED line ELSE \E v \in Viewers : Dial(v)
    /\ UNCHANGED <<vars, loopVars, retries, pictureVars, mode, missed>>

\* (Fault) The login is shown, and the next sign-in starts nothing.
SignOutKeeps ==
    /\ visible /\ visible' = FALSE
    /\ UNCHANGED <<vars, loopVars, started, line, retries, starts, pictureVars, mode, missed>>

\* The logout button, or a reply 401: what is connected stays so.
SignOut ==
    /\ visible /\ visible' = FALSE /\ started' = FALSE
    /\ UNCHANGED <<vars, loopVars, line, retries, starts, pictureVars, mode, missed>>

\* serveRemoteStream upgrades the connection and subscribes.  (RemoteStream
\* separates the two, and has the snapshot of the display that follows.)
Accept(v) ==
    /\ line[v] = "dialing" /\ line' = [line EXCEPT ![v] = "open"]
    /\ Subscribe(v)
    /\ missed' = IF told = {} THEN missed ELSE missed \cup {v}
    /\ UNCHANGED <<loopVars, visible, started, retries, starts, pictureVars, mode>>

\* onclose: of a connection that was refused, ended or lost.
Hangup(v) ==
    /\ line[v] \in {"dialing", "open"} /\ line' = [line EXCEPT ![v] = "closed"]
    /\ retries' = IF visible THEN retries + 1 ELSE retries
    /\ UNCHANGED <<vars, loopVars, visible, started, starts, pictureVars, mode, missed>>

\* The handler returns: the peer has gone, is silent, or takes no more.
HandlerEnds(v) ==
    /\ Unsubscribe(v)
    /\ UNCHANGED pageVars

\* 800 ms later.
Retry800 ==
    /\ retries > 0 /\ retries' = retries - 1
    /\ IF visible THEN \E v \in Viewers : Dial(v) ELSE UNCHANGED line
    /\ UNCHANGED <<vars, loopVars, visible, started, starts, pictureVars, mode, missed>>

\* The page is loaded again.
LoadPage ==
    /\ visible' = FALSE /\ started' = FALSE /\ retries' = 0 /\ starts' = 0
    /\ picture' = NoPicture /\ decoding' = {} /\ urls' = {} /\ crossed' = FALSE /\ leaked' = FALSE
    /\ mode' = FALSE
    /\ line' = [v \in Viewers |-> IF line[v] = "unused" THEN "unused" ELSE "closed"]
    /\ UNCHANGED <<vars, loopVars, missed>>

-----------------------------------------------------------------------------
(* The picture and the mode. *)

\* applyFrame.
ApplyFrame(url) ==
    /\ decoding' = decoding \cup {[url |-> url, prev |-> picture]}
    /\ urls' = urls \cup {url}
    /\ crossed' = (decoding # {} \/ url = Reload) /\ leaked' = (leaked \/ decoding # {})
    /\ UNCHANGED picture

\* The handler writes a message, which the page handles if it still listens.
Write(v, k) ==
    /\ Receive(v, k)
    /\ LET n == Head(chan[k][v]) IN
       /\ IF k = "frames" /\ line[v] = "open"
          THEN ApplyFrame(<<v, n>>) ELSE UNCHANGED pictureVars
       /\ mode' = IF k = "status" /\ line[v] = "open" /\ News(n) THEN TRUE \in what[n] ELSE mode
    /\ UNCHANGED <<loopVars, lineVars, missed>>

\* refreshScreen: its screenshot may be older than what the stream brought.
Refresh ==
    /\ visible /\ Reload \notin urls /\ \A f \in decoding : f.prev # Reload
    /\ ApplyFrame(Reload)
    /\ UNCHANGED <<vars, loopVars, lineVars, mode, missed>>

\* (Fault) onload does not revoke the picture before.
DecodedForgets(f) ==
    /\ f \in decoding /\ decoding' = decoding \ {f}
    /\ picture' = f.url
    /\ UNCHANGED <<vars, loopVars, lineVars, urls, crossed, leaked, mode, missed>>

\* onload.
Decoded(f) ==
    /\ f \in decoding /\ decoding' = decoding \ {f}
    /\ picture' = f.url
    /\ urls' = urls \ {f.prev}
    /\ UNCHANGED <<vars, loopVars, lineVars, crossed, leaked, mode, missed>>

\* onerror.
DecodeFails(f) ==
    /\ f \in decoding /\ decoding' = decoding \ {f}
    /\ urls' = urls \ {f.url}
    /\ crossed' = TRUE
    /\ UNCHANGED <<vars, loopVars, lineVars, picture, leaked, mode, missed>>

PageNext ==
    \/ Frame("callback") \/ Frame("loop") \/ Power \/ NewSession
    \/ \E forget \in BOOLEAN : FocusAsk(forget)
    \/ FocusEnds \/ \E answer \in Answers : FocusTell(answer)
    \/ \E p \in Producers : Spread(p)
    \/ SignIn \/ SignOut \/ Retry800 \/ LoadPage \/ Refresh
    \/ \E v \in Viewers :
          \/ Accept(v) \/ Hangup(v) \/ HandlerEnds(v)
          \/ \E k \in Kinds : Write(v, k)
    \/ \E f \in decoding : Decoded(f) \/ DecodeFails(f)

PageSpec == PageInit /\ [][PageNext]_allVars

-----------------------------------------------------------------------------
(* Properties. *)

Streams == {v \in Viewers : line[v] \in {"dialing", "open"}}

\* A page that is signed in always has a stream, or will dial one: whatever ended
\* the last one, also while the login was shown.  And it has one for each
\* sign-in at most, however hangups, timeouts and logouts fall together.  (A
\* sign-in opens a second one when the first has survived the logout.)
\* Code: onclose in remote.js, started in auth.js.
StreamForEachStart ==
    /\ visible => Streams # {} \/ retries > 0
    /\ Cardinality(Streams) + retries <= starts

\* The only stream of a page that was signed in once.
OnlyStream(v) == starts = 1 /\ line[v] = "open" /\ v \in clients

\* The picture is one that can be shown, and when all is loaded the only one that
\* is kept, unless two images have been loading at once; and it is then the
\* newest frame of the stream, unless the last frame failed, was overtaken
\* while loading, or was the answer to the reload button.
\* Code: applyFrame, which remembers the picture before it loads the next.
PictureSettles ==
    /\ picture # NoPicture => picture \in urls
    /\ decoding = {} /\ ~leaked => urls \subseteq {picture}
    /\ \A v \in Viewers :
          (/\ OnlyStream(v) /\ Idle("frames") /\ chan["frames"][v] = <<>>
           /\ decoding = {} /\ ~crossed /\ newest["frames"][v] > 0)
              => picture = <<v, newest["frames"][v]>>

\* What is typed is masked on the page if and only if the loop has told so
\* last, across deaths of the browser, commands and full channels; except in a
\* connection that was made later, or whose news was pushed out by the
\* display's: the loop does not repeat itself, until a command or a new
\* session makes it forget.
\* Code: lastPassword in publishFocus.
ModeFollows ==
    \A v \in Viewers :
        (/\ OnlyStream(v) /\ v \notin missed /\ told # {}
         /\ Idle("status") /\ chan["status"][v] = <<>>)
            => told = {mode}
=============================================================================
