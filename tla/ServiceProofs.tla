---------------------------- MODULE ServiceProofs ----------------------------
(***************************************************************************)
(* Proofs about Service and its two parts, TlsFiles and LinksStore, for    *)
(* any number of servers, pairs, saves, lists and failures, and about      *)
(* UrlPolicy, which judges every page by the list and the configuration.   *)
(*                                                                         *)
(* The files.  The properties speak of what is on the disk when the        *)
(* process is down.  FilesInv says what is there at each step of           *)
(* EnsureSelfSigned: how far the old pair has been taken away, and that an *)
(* old key which is still there next to a new certificate is older than    *)
(* the pair being written.                                                 *)
(*                                                                         *)
(* The list.  What readers and starts may rely on holds between critical   *)
(* sections only.  StoreInv adds the states inside: the file is torn       *)
(* exactly while a save holds the mutex, or for good once a write has been *)
(* cut off.                                                                *)
(*                                                                         *)
(* The program.  Main composes the two without getting into either: every  *)
(* step of the service is, for the files and for the list, one of their    *)
(* own steps or none, so what is proved of them holds of the whole program.*)
(* What is new, that an orderly stop spares the saves under way, needs to  *)
(* be strengthened by SaveServed: whoever holds the mutex is in the middle *)
(* of its write, and its server has loaded the certificate, so that none   *)
(* of the ways in which main gives up can cut it off.                      *)
(*                                                                         *)
(* The policy.  Its properties compare two ways to decide in one state and *)
(* follow from the types.  The lemmas say what is left of a spelled host   *)
(* after each normalization, and that the tests of url.go for local and    *)
(* loopback addresses are tests of the name and what it stands for.        *)
(***************************************************************************)
EXTENDS Service, UrlPolicy, TLAPS

-----------------------------------------------------------------------------
(* The certificate and its key: TlsFiles. *)

Excused ==
    \/ "writeKey" \in torn
    \/ "removeKey" \in torn /\ torn \cap {"writeCert", "openKey"} # {}

\* Whenever no pair is being written, unusable files have their cause.
CausedBetween == pc \in {"down", "check", "client", "listen"} /\ Unusable => Excused

\* A pair is replaced only if its certificate was no trust anchor, or one
\* of the files was missing.
OldPairGoes ==
    /\ pc = "removeCert" => cert.is = "leaf"
    /\ pc = "removeKey" => cert.is \in {"absent", "leaf"}
    /\ pc = "openCert" => key.is = "absent" \/ cert.is \in {"absent", "leaf"}

\* A key without a certificate, or one that is there while the certificate
\* is written, was left by an interrupted removal.
KeyLeftOver ==
    /\ pc \in {"down", "check"} /\ cert.is = "absent" /\ key.is # "absent" => "removeKey" \in torn
    /\ pc \in {"openCert", "writeCert", "openKey"} /\ key.is # "absent" => "removeKey" \in torn

\* What the writes have produced so far.
Progress ==
    /\ pc = "writeCert" => cert.is = "cut"
    /\ pc \in {"openKey", "writeKey"} => cert.is = "whole" /\ cert.of = pair
    /\ pc = "writeKey" => key.is = "cut"
    /\ pc \in {"client", "listen"} => cert.is = "whole" /\ key.is # "absent"

\* A key on the disk belongs to a pair generated before.
KeyIsOlder ==
    /\ key.of <= pair
    /\ pc \in {"writeCert", "openKey"} => key.of < pair

RefusedIsUnusable == refused => pc = "down" /\ Unusable

FilesInv ==
    /\ TypeOK
    /\ CausedBetween
    /\ OldPairGoes
    /\ KeyLeftOver
    /\ Progress
    /\ KeyIsOlder
    /\ RefusedIsUnusable

-----------------------------------------------------------------------------
\* The files there can be.
LEMMA FileTypes ==
    /\ Absent \in File /\ Cut \in File /\ Leaf \in File
    /\ \A n \in 0..MaxPairs : Whole(n) \in File
<1>1. 0 \in 0..MaxPairs
  BY BoundsAssumption
<1> QED
  BY <1>1 DEF Absent, Cut, Leaf, Whole, File

\* A first start, and a start with the files of an earlier run, satisfy it.
LEMMA FilesInvInit == Init => FilesInv
<1> SUFFICES ASSUME Init PROVE FilesInv
  OBVIOUS
<1>1. 0 \in 0..MaxPairs /\ 0 \in 0..MaxBreaks
  BY BoundsAssumption
<1>2. TypeOK
  BY <1>1, FileTypes DEF Init, TypeOK, Steps
<1>3. CASE cert = Absent /\ key = Absent
  BY <1>2, <1>3 DEF Init, FilesInv, CausedBetween, OldPairGoes, KeyLeftOver, Progress, KeyIsOlder,
                    RefusedIsUnusable, Unusable, Absent
<1>4. CASE cert \in {Whole(0), Leaf} /\ key = Whole(0)
  BY <1>2, <1>4 DEF Init, FilesInv, CausedBetween, OldPairGoes, KeyLeftOver, Progress, KeyIsOlder,
                    RefusedIsUnusable, Unusable, Matching, Leaf, Whole
<1> QED
  BY <1>3, <1>4 DEF Init

\* Types, one action at a time.
LEMMA NextTypeOK == TypeOK /\ [Next]_vars => TypeOK'
<1> SUFFICES ASSUME TypeOK, [Next]_vars PROVE TypeOK'
  OBVIOUS
<1> USE BoundsAssumption, FileTypes DEF TypeOK, Steps, Writing, Go, files
<1>1. CASE Start
  BY <1>1 DEF Start
<1>2. CASE Check
  BY <1>2 DEF Check
<1>3. CASE RemoveCert
  BY <1>3 DEF RemoveCert
<1>4. CASE RemoveKey
  BY <1>4 DEF RemoveKey
<1>5. CASE RemoveFails
  <2>1. torn' \subseteq Writing
    BY <1>5 DEF RemoveFails
  <2> QED
    BY <1>5, <2>1 DEF RemoveFails
<1>6. CASE OpenCert
  BY <1>6 DEF OpenCert
<1>7. CASE WriteCert
  BY <1>7 DEF WriteCert
<1>8. CASE OpenKey
  BY <1>8 DEF OpenKey
<1>9. CASE WriteKey
  BY <1>9 DEF WriteKey
<1>10. CASE LoadClient
  BY <1>10 DEF LoadClient
<1>11. CASE Break
  BY <1>11 DEF Break
<1>12. ASSUME NEW s \in Listeners, Listen(s) PROVE TypeOK'
  BY <1>12 DEF Listen
<1>13. CASE UNCHANGED vars
  BY <1>13 DEF vars
<1>14. ASSUME NEW rest \in SUBSET listening, Close(rest) PROVE TypeOK'
  BY <1>14 DEF Close
<1>15. CASE Stop
  BY <1>15 DEF Stop
<1> QED
  BY <1>1, <1>2, <1>3, <1>4, <1>5, <1>6, <1>7, <1>8, <1>9, <1>10, <1>11, <1>12, <1>13, <1>14, <1>15
     DEF Next

\* The rest of the invariant.
LEMMA FilesInvNext == FilesInv /\ [Next]_vars => FilesInv'
<1> SUFFICES ASSUME FilesInv, [Next]_vars PROVE FilesInv'
  OBVIOUS
<1>0. TypeOK'
  BY NextTypeOK DEF FilesInv
<1> DEFINE Rest == CausedBetween /\ OldPairGoes /\ KeyLeftOver /\ Progress /\ KeyIsOlder /\ RefusedIsUnusable
<1> SUFFICES Rest'
  BY <1>0 DEF FilesInv
<1> USE BoundsAssumption
    DEF FilesInv, TypeOK, CausedBetween, OldPairGoes, KeyLeftOver, Progress, KeyIsOlder,
        RefusedIsUnusable, Excused, Unusable, Matching, File, Absent, Cut, Whole, Writing, Go, files
<1>1. CASE Start
  BY <1>1 DEF Start
<1>2. CASE Check
  BY <1>2 DEF Check, BothExist, Kept
<1>3. CASE RemoveCert
  BY <1>3 DEF RemoveCert
<1>4. CASE RemoveKey
  BY <1>4 DEF RemoveKey
<1>5. CASE RemoveFails
  BY <1>5 DEF RemoveFails
<1>6. CASE OpenCert
  BY <1>6 DEF OpenCert
<1>7. CASE WriteCert
  BY <1>7 DEF WriteCert
<1>8. CASE OpenKey
  BY <1>8 DEF OpenKey
<1>9. CASE WriteKey
  BY <1>9 DEF WriteKey
<1>10. CASE LoadClient
  BY <1>10 DEF LoadClient
<1>11. CASE Break
  <2>1. pc' = "down" /\ torn \subseteq torn' /\ (pc \in Writing => pc \in torn')
    BY <1>11 DEF Break
  <2>2. UNCHANGED <<cert, key, pair, refused>> /\ ~refused
    BY <1>11 DEF Break
  <2>3. pc \in Steps
    OBVIOUS
  <2> HIDE DEF TypeOK, File
  <2>4. KeyLeftOver'
    BY <2>1, <2>2, <2>3, <1>11 DEF Steps, Break
  <2>5. ASSUME Unusable PROVE Excused'
    <3>1. CASE pc \in {"check", "client", "listen"}
      BY <2>1, <2>5, <3>1
    <3>2. CASE pc \in {"writeCert", "openKey"}
      <4>1. "removeKey" \in torn' /\ pc \in torn'
        BY <2>1, <2>5, <3>2
      <4> QED
        BY <3>2, <4>1
    <3>3. CASE pc = "writeKey"
      BY <2>1, <3>3
    <3>4. pc \notin {"down", "removeCert", "removeKey", "openCert"}
      BY <2>5, <1>11 DEF Break
    <3> QED
      BY <2>3, <3>1, <3>2, <3>3, <3>4 DEF Steps
  <2>6. CausedBetween'
    BY <2>2, <2>5
  <2> QED
    BY <2>1, <2>2, <2>4, <2>6
<1>12. ASSUME NEW s \in Listeners, Listen(s) PROVE Rest'
  BY <1>12 DEF Listen
<1>13. CASE UNCHANGED vars
  BY <1>13 DEF vars
<1>14. ASSUME NEW rest \in SUBSET listening, Close(rest) PROVE Rest'
  BY <1>14 DEF Close
<1>15. CASE Stop
  BY <1>15 DEF Stop
<1> QED
  BY <1>1, <1>2, <1>3, <1>4, <1>5, <1>6, <1>7, <1>8, <1>9, <1>10, <1>11, <1>12, <1>13, <1>14, <1>15
     DEF Next

LEMMA FilesInvHolds == Spec => []FilesInv
BY FilesInvInit, FilesInvNext, PTL DEF Spec

-----------------------------------------------------------------------------
\* The files, the process and the servers keep their types; a server listens
\* in a running process only.
THEOREM TypeCorrect == Spec => []TypeOK
<1>1. FilesInv => TypeOK
  BY DEF FilesInv
<1> QED
  BY <1>1, FilesInvHolds, PTL

\* EnsureSelfSigned leaves unusable files behind only if the write of a key
\* was interrupted, or the removal of an old one and then a write as well.
THEOREM UnusableOnlyIfTornHolds == Spec => []UnusableOnlyIfTorn
<1>1. FilesInv => UnusableOnlyIfTorn
  BY DEF FilesInv, CausedBetween, UnusableOnlyIfTorn, Excused
<1> QED
  BY <1>1, FilesInvHolds, PTL

\* A start that nothing disturbed is refused only for unusable files, and no
\* start touches them.
THEOREM RefusedForGoodHolds == Spec => RefusedForGood
<1>1. FilesInv /\ [Next]_vars =>
        [(refused => Unusable) /\ (Unusable /\ pc \notin Writing => UNCHANGED files)]_vars
  <2> SUFFICES ASSUME FilesInv, Next, Unusable, pc \notin Writing PROVE UNCHANGED files
    BY DEF FilesInv, RefusedIsUnusable
  <2> QED
    BY DEF Next, FilesInv, OldPairGoes, Unusable, Writing, files, Start, Check, RemoveCert, RemoveKey,
           RemoveFails, OpenCert, WriteCert, OpenKey, WriteKey, LoadClient, Break, Listen, Close, Stop
<1> QED
  BY <1>1, FilesInvHolds, PTL DEF Spec, RefusedForGood

\* A pair of files that works is never touched again.
THEOREM PairKeptHolds == Spec => PairKept
<1>1. FilesInv /\ [Next]_vars => [Matching => UNCHANGED files]_vars
  <2> SUFFICES ASSUME FilesInv, Next, Matching PROVE UNCHANGED files
    OBVIOUS
  <2> QED
    BY BoundsAssumption
       DEF Next, FilesInv, TypeOK, File, OldPairGoes, Progress, KeyIsOlder, Matching, files, Start, Check,
           RemoveCert, RemoveKey, RemoveFails, OpenCert, WriteCert, OpenKey, WriteKey, LoadClient, Break, Listen, Close, Stop
<1> QED
  BY <1>1, FilesInvHolds, PTL DEF Spec, PairKept

-----------------------------------------------------------------------------
(* The list of links: LinksStore. *)

\* A save under way has the mutex, in a program that allows edits.
SaveInside == lock # Nobody => up /\ editable /\ file = Torn

\* Outside, a torn file is the trace of a write that was cut off.
TornOutside == file = Torn /\ lock = Nobody => cutOff

\* A program that runs has a file.
FileThere == up => file # Missing

StoreInv ==
    /\ LinksTypeOK
    /\ SaveInside
    /\ TornOutside
    /\ FileThere
    /\ ReadsAreWhole
    /\ FixedLinks

-----------------------------------------------------------------------------
\* A new data directory, and one with the list of an earlier run, satisfy it.
LEMMA StoreInvInit == LinksInit => StoreInv
<1> SUFFICES ASSUME LinksInit PROVE StoreInv
  OBVIOUS
<1>1. 1 \in Lists /\ 0 \in 0..MaxFaults
  BY LinksBoundsAssumption DEF Lists
<1>2. LinksTypeOK
  BY <1>1 DEF LinksInit, LinksTypeOK, Loading
<1> QED
  BY <1>1, <1>2 DEF LinksInit, StoreInv, SaveInside, TornOutside, FileThere, ReadsAreWhole, FixedLinks,
                    Missing, Torn, Loading, Failed

\* Types, one action at a time.
LEMMA LinksNextTypeOK == LinksTypeOK /\ [LinksNext]_linksVars => LinksTypeOK'
<1> SUFFICES ASSUME LinksTypeOK, [LinksNext]_linksVars PROVE LinksTypeOK'
  OBVIOUS
<1> USE LinksBoundsAssumption, SaversAssumption
    DEF LinksTypeOK, program, kiosk, HomePages, LoadHome, Fault, Lists, Nobody
<1>1. ASSUME NEW e \in BOOLEAN, StartBreaks(e) PROVE LinksTypeOK'
  BY <1>1 DEF StartBreaks, Keeps
<1>2. ASSUME NEW e \in BOOLEAN, NEW c \in Lists, StartLinks(e, c) PROVE LinksTypeOK'
  BY <1>2 DEF StartLinks, Keeps
<1>3. CASE Crash
  <2>1. /\ up' = FALSE /\ lock' = Nobody /\ step' = [s \in Savers |-> "idle"]
        /\ UNCHANGED <<editable, config, startsAt, file, list, asleep, at, shown, newest, faults, missed, sentHome>>
    BY <1>3 DEF Crash
  <2>2. cutOff' = IF lock = Nobody THEN cutOff ELSE TRUE
    BY <1>3 DEF Crash
  <2>3. cutOff' \in BOOLEAN
    BY ONLY LinksTypeOK, <2>2 DEF LinksTypeOK
  <2>4. step' \in [Savers -> {"idle", "write", "asleep?", "location", "reload"}]
    BY ONLY <2>1
  <2>5. \A s \in Savers : step'[s] = "write" => lock' = s
    BY ONLY <2>1
  <2>6. faults' \in 0..MaxFaults
    BY ONLY LinksTypeOK, <2>1, LinksBoundsAssumption DEF LinksTypeOK
  <2>7. up' \in BOOLEAN /\ lock' \in Savers \cup {Nobody}
    BY ONLY <2>1
  <2> QED
    BY ONLY LinksTypeOK, <2>1, <2>3, <2>4, <2>5, <2>6, <2>7 DEF LinksTypeOK
<1>4. ASSUME NEW s \in Savers, BeginSave(s) PROVE LinksTypeOK'
  BY <1>4 DEF BeginSave
<1>5. ASSUME NEW s \in Savers, EndSave(s) PROVE LinksTypeOK'
  BY <1>5 DEF EndSave
<1>6. ASSUME NEW s \in Savers, SaveFails(s) PROVE LinksTypeOK'
  BY <1>6 DEF SaveFails
<1>7. ASSUME NEW s \in Savers, AskAsleep(s) PROVE LinksTypeOK'
  BY <1>7 DEF AskAsleep
<1>8. ASSUME NEW s \in Savers, AskLocation(s) \/ Reload(s) PROVE LinksTypeOK'
  BY <1>8 DEF AskLocation, Reload
<1>9. ASSUME NEW s \in Savers, Unanswered(s) PROVE LinksTypeOK'
  BY <1>9 DEF Unanswered
<1>10. CASE Fetch \/ Judge
  BY <1>10 DEF Fetch, Judge, Readable
<1>11. CASE Sleep
  BY <1>11 DEF Sleep
<1>12. ASSUME NEW place \in HomePages \cup {"link"}, Visit(place) PROVE LinksTypeOK'
  BY <1>12 DEF Visit
<1>13. CASE UNCHANGED linksVars
  BY <1>13 DEF linksVars
<1>14. CASE GoBack
  <2>1. shown' \in Lists \cup {Loading, Failed}
    BY <1>14 DEF GoBack
  <2> QED
    BY <1>14, <2>1 DEF GoBack
<1> QED
  BY <1>1, <1>2, <1>3, <1>4, <1>5, <1>6, <1>7, <1>8, <1>9, <1>10, <1>11, <1>12, <1>13, <1>14 DEF LinksNext

\* The rest of the invariant.
LEMMA StoreInvNext == StoreInv /\ [LinksNext]_linksVars => StoreInv'
<1> SUFFICES ASSUME StoreInv, [LinksNext]_linksVars PROVE StoreInv'
  OBVIOUS
<1>0. LinksTypeOK'
  BY LinksNextTypeOK DEF StoreInv
<1> DEFINE Rest == SaveInside /\ TornOutside /\ FileThere /\ ReadsAreWhole /\ FixedLinks
<1> SUFFICES Rest'
  BY <1>0 DEF StoreInv
<1> USE LinksBoundsAssumption, SaversAssumption
    DEF StoreInv, LinksTypeOK, SaveInside, TornOutside, FileThere, ReadsAreWhole, FixedLinks,
        program, kiosk, LoadHome, Lists, Readable, Nobody, Missing, Torn, Loading, Failed
<1>1. ASSUME NEW e \in BOOLEAN, StartBreaks(e) PROVE Rest'
  BY <1>1 DEF StartBreaks
<1>2. ASSUME NEW e \in BOOLEAN, NEW c \in Lists, StartLinks(e, c) PROVE Rest'
  BY <1>2 DEF StartLinks, Keeps
<1>3. CASE Crash
  <2>1. cutOff' \in BOOLEAN
    <3>1. CASE lock = "nobody"
      BY <1>3, <3>1, cutOff' = cutOff DEF Crash
    <3>2. CASE lock # "nobody"
      BY <1>3, <3>2, cutOff' = TRUE DEF Crash
    <3> QED
      BY <3>1, <3>2
  <2> QED
    BY <1>3, <2>1 DEF Crash
<1>4. ASSUME NEW s \in Savers, BeginSave(s) PROVE Rest'
  BY <1>4 DEF BeginSave
<1>5. ASSUME NEW s \in Savers, EndSave(s) PROVE Rest'
  BY <1>5 DEF EndSave
<1>6. ASSUME NEW s \in Savers, SaveFails(s) PROVE Rest'
  BY <1>6 DEF SaveFails
<1>7. ASSUME NEW s \in Savers, AskAsleep(s) \/ AskLocation(s) PROVE Rest'
  BY <1>7 DEF AskAsleep, AskLocation
<1>8. ASSUME NEW s \in Savers, Reload(s) \/ Unanswered(s) PROVE Rest'
  BY <1>8 DEF Reload, Unanswered
<1>9. CASE Fetch \/ GoBack
  BY <1>9 DEF Fetch, GoBack
<1>10. CASE Judge
  BY <1>10 DEF Judge
<1>11. CASE Sleep
  BY <1>11 DEF Sleep
<1>12. ASSUME NEW place \in HomePages \cup {"link"}, Visit(place) PROVE Rest'
  BY <1>12 DEF Visit
<1>13. CASE UNCHANGED linksVars
  BY <1>13 DEF linksVars
<1> QED
  BY <1>1, <1>2, <1>3, <1>4, <1>5, <1>6, <1>7, <1>8, <1>9, <1>10, <1>11, <1>12, <1>13 DEF LinksNext

LEMMA StoreInvHolds == LinksSpec => []StoreInv
BY StoreInvInit, StoreInvNext, PTL DEF LinksSpec

-----------------------------------------------------------------------------
\* Every variable keeps its type, and one save at a time writes.
THEOREM LinksTypeCorrect == LinksSpec => []LinksTypeOK
<1>1. StoreInv => LinksTypeOK
  BY DEF StoreInv
<1> QED
  BY <1>1, StoreInvHolds, PTL

\* Store.mu keeps readers from lists that are being written: what cannot be
\* read has been cut off.
THEOREM ReadsAreWholeHolds == LinksSpec => []ReadsAreWhole
<1>1. StoreInv => ReadsAreWhole
  BY DEF StoreInv
<1> QED
  BY <1>1, StoreInvHolds, PTL

\* The home page is loaded again after each save unless it cannot be, or has gone
\* elsewhere meanwhile: a save under way always has the loading still to do.
\* Code: reloadHomeIfNeeded in manager/mux.go.
THEOREM HomeFollowsStoreHolds == LinksSpec => []HomeFollowsStore
<1>1. LinksInit => HomeFollowsStore
  BY DEF LinksInit, HomeFollowsStore
<1>2. StoreInv /\ HomeFollowsStore /\ [LinksNext]_linksVars => HomeFollowsStore'
  <2> SUFFICES ASSUME StoreInv, HomeFollowsStore, [LinksNext]_linksVars PROVE HomeFollowsStore'
    OBVIOUS
  <2> DEFINE AllIdle == \A s \in Savers : step[s] = "idle"
             Shows == shown = IF Readable THEN file ELSE Failed
  <2>0. LinksTypeOK /\ (up /\ at \in HomePages /\ shown # Loading /\ ~missed /\ AllIdle => Shows)
    BY DEF StoreInv, HomeFollowsStore
  <2> SUFFICES ASSUME up', at' \in HomePages, shown' # Loading, ~missed', AllIdle'
               PROVE  Shows'
    BY DEF HomeFollowsStore, Loading
  <2>1. ASSUME UNCHANGED <<up, at, shown, missed, step, file>> PROVE Shows'
    BY <2>0, <2>1 DEF Readable, Failed, Lists
  <2>2. ASSUME NEW s \in Savers, BeginSave(s) \/ EndSave(s) PROVE FALSE
    BY <2>0, <2>2 DEF BeginSave, EndSave, LinksTypeOK
  <2>3. ASSUME NEW s \in Savers, SaveFails(s) \/ Unanswered(s) PROVE FALSE
    BY <2>3 DEF SaveFails, Unanswered
  <2>4. ASSUME NEW s \in Savers, AskAsleep(s) \/ AskLocation(s) PROVE FALSE
    BY <2>0, <2>4 DEF AskAsleep, AskLocation, LinksTypeOK, HomePages, kiosk
  <2>5. ASSUME NEW s \in Savers, Reload(s) PROVE FALSE
    BY <2>5 DEF Reload, LoadHome, HomePages
  <2>6. CASE Fetch
    BY <2>6 DEF Fetch, Readable, Failed, Lists
  <2>7. ASSUME Judge \/ (\E e \in BOOLEAN : StartBreaks(e) \/ \E c \in Lists : StartLinks(e, c)) \/ Crash
        PROVE  FALSE
    BY <2>7 DEF Judge, StartBreaks, StartLinks, Crash, LoadHome
  <2>8. ASSUME NEW place \in HomePages \cup {"link"}, GoBack \/ Visit(place) PROVE FALSE
    BY <2>8 DEF GoBack, Visit, LoadHome, HomePages
  <2>9. CASE Sleep \/ UNCHANGED linksVars
    BY <2>1, <2>9 DEF Sleep, linksVars, program
  <2> QED
    BY <2>2, <2>3, <2>4, <2>5, <2>6, <2>7, <2>8, <2>9 DEF LinksNext
<1> QED
  BY <1>1, <1>2, StoreInvHolds, PTL DEF LinksSpec

\* ensureDefaults brings back the configured list wherever edits are not
\* allowed, also over a file that was cut off.
THEOREM FixedLinksHolds == LinksSpec => []FixedLinks
<1>1. StoreInv => FixedLinks
  BY DEF StoreInv
<1> QED
  BY <1>1, StoreInvHolds, PTL

\* Nothing but a save, or a start without edits, replaces a stored list.
THEOREM EditsSurviveHolds == LinksSpec => EditsSurvive
<1>1. StoreInv /\ [LinksNext]_linksVars =>
        [Readable /\ file' # file => editable' = FALSE \/ lock' # Nobody]_linksVars
  <2> SUFFICES ASSUME StoreInv, LinksNext, Readable, file' # file PROVE editable' = FALSE \/ lock' # Nobody
    OBVIOUS
  <2> USE LinksBoundsAssumption, SaversAssumption
      DEF StoreInv, LinksTypeOK, SaveInside, Readable, Lists, Nobody, Missing, Torn
  <2>1. ASSUME NEW e \in BOOLEAN, StartBreaks(e) PROVE editable' = FALSE
    BY <2>1 DEF StartBreaks, Keeps
  <2>2. ASSUME NEW e \in BOOLEAN, NEW c \in Lists, StartLinks(e, c) PROVE editable' = FALSE
    BY <2>2 DEF StartLinks, Keeps
  <2>3. ASSUME NEW s \in Savers, BeginSave(s) PROVE lock' # Nobody
    BY <2>3 DEF BeginSave
  <2>4. ASSUME NEW s \in Savers, EndSave(s) PROVE FALSE
    BY <2>4 DEF EndSave
  <2> QED
    BY <2>1, <2>2, <2>3, <2>4
       DEF LinksNext, Crash, SaveFails, AskAsleep, AskLocation, Reload, Unanswered,
           Fetch, GoBack, Judge, Sleep, Visit
<1> QED
  BY <1>1, StoreInvHolds, PTL DEF LinksSpec, EditsSurvive

-----------------------------------------------------------------------------
(* The program: Service. *)

SaveServed == lock # Nobody => Manager \in listening /\ step[lock] = "write"

\* The end of the process is, for the list, its crash or nothing.
LEMMA GoneIsCrash == Gone => [LinksNext]_linksVars
<1> QED
  BY DEF Gone, LinksNext

\* What the service does, one action at a time, to the list.
LEMMA ServiceLinksStep == [ServiceNext]_serviceVars => [LinksNext]_linksVars
<1> SUFFICES ASSUME [ServiceNext]_serviceVars PROVE [LinksNext]_linksVars
  OBVIOUS
<1>1. CASE LoadFiles
  BY <1>1 DEF LoadFiles
<1>2. ASSUME NEW e \in BOOLEAN, LoadFails(e) PROVE [LinksNext]_linksVars
  BY <1>2 DEF LoadFails, LinksNext
<1>3. ASSUME NEW e \in BOOLEAN, NEW c \in Lists, LoadStores(e, c) PROVE [LinksNext]_linksVars
  BY <1>3 DEF LoadStores, LinksNext
<1>4. ASSUME NEW s \in Listeners, ServeOrDie(s) PROVE [LinksNext]_linksVars
  BY <1>4, GoneIsCrash DEF ServeOrDie
<1>5. CASE Die \/ Exit
  BY <1>5, GoneIsCrash DEF Die, Exit
<1>6. CASE Signalled \/ DisplayClosed \/ TimeOver
  BY <1>6 DEF Signalled, DisplayClosed, TimeOver
<1>7. ASSUME NEW s \in Savers, Save(s) PROVE [LinksNext]_linksVars
  BY <1>7 DEF Save, LinksNext
<1>8. CASE Kiosk
  BY <1>8 DEF Kiosk, LinksNext
<1>9. CASE UNCHANGED serviceVars
  BY <1>9 DEF serviceVars
<1> QED
  BY <1>1, <1>2, <1>3, <1>4, <1>5, <1>6, <1>7, <1>8, <1>9 DEF ServiceNext

\* And to the certificate and its key.
LEMMA ServiceFilesStep == TypeOK /\ [ServiceNext]_serviceVars => [Next]_vars
<1> SUFFICES ASSUME TypeOK, [ServiceNext]_serviceVars PROVE [Next]_vars
  OBVIOUS
<1>1. CASE LoadFiles
  BY <1>1 DEF LoadFiles, Next
<1>2. ASSUME NEW e \in BOOLEAN, LoadFails(e) PROVE [Next]_vars
  BY <1>2 DEF LoadFails, Next
<1>3. ASSUME NEW e \in BOOLEAN, NEW c \in Lists, LoadStores(e, c) PROVE [Next]_vars
  BY <1>3 DEF LoadStores, Next
<1>4. ASSUME NEW s \in Listeners, ServeOrDie(s) PROVE [Next]_vars
  BY <1>4 DEF ServeOrDie, Next
<1>5. CASE Die \/ Exit
  BY <1>5 DEF Die, Exit, Next
<1>6. CASE Signalled
  <2>1. listening \cap {Manager} \in SUBSET listening
    OBVIOUS
  <2> QED
    BY <1>6, <2>1 DEF Signalled, Next
<1>7. CASE DisplayClosed \/ TimeOver
  BY <1>7 DEF DisplayClosed, TimeOver
<1>8. ASSUME NEW s \in Savers, Save(s) PROVE [Next]_vars
  BY <1>8 DEF Save
<1>9. CASE Kiosk
  BY <1>9 DEF Kiosk
<1>10. CASE UNCHANGED serviceVars
  BY <1>10 DEF serviceVars
<1> QED
  BY <1>1, <1>2, <1>3, <1>4, <1>5, <1>6, <1>7, <1>8, <1>9, <1>10 DEF ServiceNext

-----------------------------------------------------------------------------
\* The list of links in the running program is the one LinksStore describes.
THEOREM LinksImplemented == ServiceSpec => LinksSpec
<1>1. ServiceInit => LinksInit
  BY DEF ServiceInit
<1> QED
  BY <1>1, ServiceLinksStep, PTL DEF ServiceSpec, LinksSpec

\* The certificate and its key are those of TlsFiles.
THEOREM FilesImplemented == ServiceSpec => Spec
<1>1. ServiceInit => Init /\ TypeOK
  BY FilesInvInit DEF ServiceInit, FilesInv
<1>2. TypeOK /\ [ServiceNext]_serviceVars => TypeOK'
  BY ServiceFilesStep, NextTypeOK
<1> QED
  BY <1>1, <1>2, ServiceFilesStep, PTL DEF ServiceSpec, Spec

\* So an edited list outlives every stop, kill and failed start of the program,
\* those included that a certificate brings about.
THEOREM ServiceEditsSurvive == ServiceSpec => EditsSurvive
<1> QED
  BY LinksImplemented, EditsSurviveHolds, PTL

-----------------------------------------------------------------------------
\* Nobody holds the mutex of a program that has just been set up, and ...
LEMMA SaveServedInit == ServiceInit => SaveServed
<1> QED
  BY DEF ServiceInit, LinksInit, SaveServed

\* ... whoever takes it is served, until it gives it back.
LEMMA SaveServedNext ==
    StoreInv /\ SaveServed /\ [ServiceNext]_serviceVars => SaveServed'
<1> SUFFICES ASSUME StoreInv, SaveServed, [ServiceNext]_serviceVars PROVE SaveServed'
  OBVIOUS
<1> USE SaversAssumption DEF SaveServed, Nobody
<1>0. LinksTypeOK /\ SaveInside
  BY DEF StoreInv
<1>1. ASSUME UNCHANGED linksVars, UNCHANGED listening PROVE SaveServed'
  BY <1>1 DEF linksVars, program, kiosk
<1>2. ASSUME Gone PROVE SaveServed'
  <2>1. CASE up
    BY <1>2, <2>1 DEF Gone, Crash
  <2>2. CASE ~up
    BY <1>0, <1>2, <2>2 DEF Gone, SaveInside, linksVars
  <2> QED
    BY <2>1, <2>2
<1>3. CASE LoadFiles
  BY <1>1, <1>3
     DEF LoadFiles, Start, Check, RemoveCert, RemoveKey, RemoveFails, OpenCert, WriteCert, OpenKey,
         WriteKey
<1>4. ASSUME NEW e \in BOOLEAN, LoadFails(e) PROVE SaveServed'
  BY <1>0, <1>4 DEF LoadFails, StartBreaks, SaveInside
<1>5. ASSUME NEW e \in BOOLEAN, NEW c \in Lists, LoadStores(e, c) PROVE SaveServed'
  BY <1>0, <1>5 DEF LoadStores, StartLinks, SaveInside
<1>6. ASSUME NEW s \in Listeners, ServeOrDie(s) PROVE SaveServed'
  <2>1. CASE pc' = "down"
    BY <1>2, <1>6, <2>1 DEF ServeOrDie
  <2>2. CASE pc' # "down"
    <3>1. listening \subseteq listening'
      BY <1>6, <2>2 DEF ServeOrDie, Listen, Go
    <3>2. lock' = lock /\ step' = step
      BY <1>6, <2>2 DEF ServeOrDie, linksVars
    <3> QED
      BY <3>1, <3>2
  <2> QED
    BY <2>1, <2>2
<1>7. CASE Die \/ Exit
  BY <1>2, <1>7 DEF Die, Exit
<1>8. CASE Signalled
  BY <1>8 DEF Signalled, Close, linksVars
<1>9. CASE DisplayClosed \/ TimeOver
  BY <1>1, <1>9 DEF DisplayClosed, TimeOver, vars
<1>10. ASSUME NEW s \in Savers, Save(s) PROVE SaveServed'
  <2>0. listening' = listening
    BY <1>10 DEF Save, vars
  <2>1. CASE Manager \in listening /\ BeginSave(s)
    BY <1>0, <2>0, <2>1 DEF BeginSave, LinksTypeOK
  <2>2. CASE EndSave(s) \/ SaveFails(s)
    BY <2>2 DEF EndSave, SaveFails
  <2>3. CASE AskAsleep(s) \/ AskLocation(s) \/ Reload(s) \/ Unanswered(s)
    <3>1. lock' = lock /\ step[s] # "write" /\ \E to \in {"idle", "location", "reload"} :
              step' = [step EXCEPT ![s] = to]
      BY <2>3 DEF AskAsleep, AskLocation, Reload, Unanswered
    <3>2. lock # Nobody => lock \in Savers /\ lock # s
      BY <1>0, <3>1 DEF LinksTypeOK
    <3> QED
      BY <1>0, <2>0, <3>1, <3>2 DEF LinksTypeOK
  <2> QED
    BY <1>10, <2>1, <2>2, <2>3 DEF Save
<1>11. CASE Kiosk
  BY <1>11 DEF Kiosk, Fetch, GoBack, Judge, Sleep, Visit, vars
<1>12. CASE UNCHANGED serviceVars
  BY <1>1, <1>12 DEF serviceVars, vars
<1> QED
  BY <1>3, <1>4, <1>5, <1>6, <1>7, <1>8, <1>9, <1>10, <1>11, <1>12 DEF ServiceNext

\* What the steps that give the mutex back leave in the file.
LEMMA SparesStep ==
    TypeOK /\ StoreInv /\ SaveServed /\ [ServiceNext]_serviceVars
        => [ closing # "none" /\ lock # Nobody /\ lock' = Nobody
                => file' = list[lock] \/ late \/ faults' # faults \/ breaks' # breaks ]_serviceVars
<1> SUFFICES ASSUME TypeOK, StoreInv, SaveServed, ServiceNext,
                    closing # "none", lock # Nobody, lock' = Nobody, ~late
             PROVE  file' = list[lock] \/ faults' # faults \/ breaks' # breaks
  OBVIOUS
<1>0. LinksTypeOK /\ lock \in Savers /\ Manager \in listening /\ step[lock] = "write" /\ up
  BY DEF StoreInv, SaveServed, LinksTypeOK, SaveInside
<1>1. lock' # lock
  OBVIOUS
<1>2. ~LoadFiles /\ ~Kiosk /\ ~Signalled /\ ~DisplayClosed /\ ~TimeOver
  BY <1>1 DEF LoadFiles, Kiosk, Signalled, DisplayClosed, TimeOver, linksVars, Fetch, GoBack, Judge, Sleep,
              Visit
<1>3. \A e \in BOOLEAN : ~LoadFails(e) /\ \A c \in Lists : ~LoadStores(e, c)
  BY <1>0 DEF LoadFails, StartBreaks, LoadStores, StartLinks
<1>4. ~Exit
  BY <1>0 DEF Exit
<1>5. \A s \in Listeners : ~ServeOrDie(s)
  BY <1>0, <1>1 DEF ServeOrDie, Listen, linksVars
<1>6. CASE Die
  BY <1>6 DEF Die, Break, TypeOK
<1>7. ASSUME NEW s \in Savers, Save(s)
      PROVE  file' = list[lock] \/ faults' # faults
  <2>1. CASE EndSave(s)
    BY <1>0, <2>1 DEF EndSave, LinksTypeOK
  <2>2. CASE SaveFails(s)
    BY <1>0, <2>2 DEF SaveFails, Fault, LinksTypeOK
  <2>3. ~BeginSave(s) /\ ~AskAsleep(s) /\ ~AskLocation(s) /\ ~Reload(s) /\ ~Unanswered(s)
    BY <1>1 DEF BeginSave, AskAsleep, AskLocation, Reload, Unanswered
  <2> QED
    BY <1>7, <2>1, <2>2, <2>3 DEF Save
<1> QED
  BY <1>2, <1>3, <1>4, <1>5, <1>6, <1>7 DEF ServiceNext

\* A save under way at the signal is written to its end, whatever else the two
\* servers are doing, within the five seconds that they share.
THEOREM StopSparesSavesHolds == ServiceSpec => StopSparesSaves
<1>1. ServiceSpec => []TypeOK
  BY FilesImplemented, TypeCorrect, PTL
<1>2. ServiceSpec => []StoreInv
  BY LinksImplemented, StoreInvHolds, PTL
<1>3. ServiceSpec => []SaveServed
  BY <1>2, SaveServedInit, SaveServedNext, PTL DEF ServiceSpec
<1> QED
  BY <1>1, <1>2, <1>3, SparesStep, PTL DEF ServiceSpec, StopSparesSaves

-----------------------------------------------------------------------------
(* Where the kiosk may go: UrlPolicy. *)

\* A name as the configuration spells it: in lower case, no dot at the end.
Spelled(name) == [name |-> name, upper |-> FALSE, dots |-> 0]

\* Normal, field by field.
LEMMA NormalIs ==
    ASSUME NEW h \in Host
    PROVE  Normal(h) = [name |-> h.name, upper |-> FALSE,
                        dots |-> IF h.dots = 0 THEN 0 ELSE h.dots - 1]
<1> DEFINE d == IF h.dots = 0 THEN 0 ELSE h.dots - 1
           r == [h EXCEPT !.upper = FALSE, !.dots = d]
<1>1. d \in 0..2
  BY DEF Host
<1>2. Normal(h) = r
  BY DEF Host, Normal
<1> HIDE DEF d
<1>3. r \in Host /\ r.name = h.name /\ r.upper = FALSE /\ r.dots = d
  BY <1>1 DEF Host
<1> HIDE DEF r
<1>4. r = [name |-> r.name, upper |-> r.upper, dots |-> r.dots]
  BY <1>3 DEF Host
<1>5. r = [name |-> h.name, upper |-> FALSE, dots |-> d]
  BY <1>3, <1>4
<1> QED
  BY <1>2, <1>5 DEF d

LEMMA SpelledFacts ==
    ASSUME NEW n, NEW m
    PROVE  /\ Normal(Spelled(n)) = Spelled(n)
           /\ Spelled(n).name = n /\ Spelled(n).dots = 0
           /\ Spelled(n) = Spelled(m) <=> n = m
           /\ Literal(n) = Spelled(<<n>>)
<1> DEFINE r == Spelled(n)
<1>1. /\ r \in [name : {n}, upper : BOOLEAN, dots : 0..2]
      /\ r.name = n /\ r.upper = FALSE /\ r.dots = 0 /\ Spelled(m).name = m
  BY DEF Spelled
<1>2. Literal(n) = Spelled(<<n>>)
  BY DEF Literal, Spelled
<1>3. Spelled(n) = Spelled(m) <=> n = m
  BY <1>1
<1> HIDE DEF r
<1>4. Normal(r) = r
  BY <1>1 DEF Normal
<1> QED
  BY <1>1, <1>2, <1>3, <1>4 DEF r

\* Case and dots are gone after normalizing twice; once is enough for a
\* host that ends with one dot at most.
LEMMA NormalTwice ==
    ASSUME NEW h \in Host
    PROVE  /\ Normal(h) \in Host /\ Normal(h).name = h.name
           /\ Normal(Normal(h)) = Spelled(h.name)
           /\ h.dots <= 1 => Normal(h) = Spelled(h.name)
<1> DEFINE d == IF h.dots = 0 THEN 0 ELSE h.dots - 1
<1>1. d \in 0..1 /\ (h.dots <= 1 => d = 0) /\ h.name \in AllNames
  BY DEF Host
<1>2. Normal(h) = [name |-> h.name, upper |-> FALSE, dots |-> d]
  BY NormalIs
<1> HIDE DEF d
<1>3. Normal(h) \in Host /\ Normal(h).name = h.name /\ Normal(h).dots = d
  BY <1>1, <1>2 DEF Host
<1>4. Normal(Normal(h)) = [name |-> h.name, upper |-> FALSE, dots |-> IF d = 0 THEN 0 ELSE d - 1]
  BY <1>3, NormalIs
<1>5. (IF d = 0 THEN 0 ELSE d - 1) = 0
  BY <1>1
<1> QED
  BY <1>1, <1>2, <1>3, <1>4, <1>5 DEF Spelled

LEMMA PolicyTypeNext == PolicyTypeOK /\ [PolicyNext]_policyVars => PolicyTypeOK'
<1> SUFFICES ASSUME PolicyTypeOK, [PolicyNext]_policyVars PROVE PolicyTypeOK'
  OBVIOUS
<1>1. CASE Edit
  <2>1. PICK given \in BoundedSeq(LinkUrls, MaxLinks) : items' = cleanLinkItems(given)
    BY <1>1 DEF Edit
  <2>2. given \in Seq(LinkUrls)
    BY InputsAssumption DEF BoundedSeq, SeqOf
  <2>3. CASE \A i \in DOMAIN given : Http(given[i])
    <3>1. given \in Seq({link \in LinkUrls : Http(link)})
      BY <2>2, <2>3
    <3> QED
      BY <1>1, <2>1, <2>3, <3>1 DEF Edit, PolicyTypeOK, cleanLinkItems, configuration
  <2>4. CASE ~\A i \in DOMAIN given : Http(given[i])
    BY <1>1, <2>1, <2>4 DEF Edit, PolicyTypeOK, cleanLinkItems, configuration
  <2> QED
    BY <2>3, <2>4
<1>2. CASE Resolve
  BY <1>2 DEF Resolve, PolicyTypeOK, configuration
<1>3. CASE UNCHANGED policyVars
  BY <1>3 DEF policyVars, PolicyTypeOK, configuration
<1> QED
  BY <1>1, <1>2, <1>3 DEF PolicyNext

\* Type correctness, and the list holds HTTP links only: what cleanLinkItems
\* refuses never gets in.
THEOREM PolicyTypeCorrect == PolicySpec => []PolicyTypeOK
<1>1. PolicyInit => PolicyTypeOK
  BY DEF PolicyInit, PolicyTypeOK
<1> QED
  BY <1>1, PolicyTypeNext, PTL DEF PolicySpec

\* hostInList compares names, for entries as they are validated.
LEMMA InListIsByName ==
    ASSUME PolicyTypeOK, NEW name, NEW sub \in BOOLEAN
    PROVE  hostInList(Spelled(name), allowedHosts, sub) <=>
              \/ Listed(name)
              \/ sub /\ \E entry \in allowedHosts : IsStrictSuffix(entry.name, name)
<1>1. \A entry \in allowedHosts : Normal(entry) = Spelled(entry.name)
  BY NormalTwice, InputsAssumption DEF PolicyTypeOK
<1>2. \A entry \in allowedHosts :
         /\ Spelled(name) = Normal(entry) <=> entry.name = name
         /\ Normal(entry).name = entry.name
  BY <1>1, SpelledFacts
<1>3. Normal(Spelled(name)) = Spelled(name) /\ Spelled(name).dots = 0 /\ Spelled(name).name = name
  BY SpelledFacts
<1> QED
  BY <1>2, <1>3 DEF hostInList, Listed

LEMMA AddressListed ==
    ASSUME PolicyTypeOK, NEW a
    PROVE  lanIPExplicitlyAllowed(a) <=> Listed(<<a>>)
<1>1. hostInList(Spelled(<<a>>), allowedHosts, FALSE) <=> Listed(<<a>>)
  BY InListIsByName, Zenon
<1> QED
  BY <1>1, SpelledFacts DEF lanIPExplicitlyAllowed

\* The two tests for the local network, of an address and of a name, make
\* one test of the addresses a name stands for.
LEMMA LanTests ==
    ASSUME PolicyTypeOK, NEW h \in Host, h.name # <<"localhost">>
    PROVE  ~isBlockedLANHost(Normal(h)) /\ ~resolvesToDisallowedLAN(Normal(h))
              <=> Reachable(h.name)
<1> DEFINE n == Spelled(h.name)
<1>1. Normal(Normal(h)) = n /\ Normal(h).name = h.name /\ n.name = h.name /\ n.dots = 0
  BY NormalTwice, SpelledFacts
<1> HIDE DEF n
<1>2. /\ isBlockedLANHost(Normal(h)) <=> IsIP(n, Lan) /\ ~lanIPExplicitlyAllowed(h.name[1])
      /\ resolvesToDisallowedLAN(Normal(h)) <=>
            /\ ~IsIP(n, Addresses)
            /\ \/ dns[h.name] = {}
               \/ \E a \in dns[h.name] : a \in Lan /\ ~lanIPExplicitlyAllowed(a)
  BY <1>1 DEF isBlockedLANHost, resolvesToDisallowedLAN
<1>3. CASE h.name \in Names
  <2>1. ~IsIP(n, Lan) /\ ~IsIP(n, Addresses)
    BY <1>1, <1>3, AddressesAssumption DEF IsIP, Addresses
  <2>2. AddressesOf(h.name) = dns[h.name]
    BY <1>3 DEF AddressesOf
  <2> QED
    BY <1>2, <2>1, <2>2, AddressListed DEF Reachable
<1>4. CASE h.name \notin Names
  <2>1. PICK a \in Addresses : h.name = <<a>>
    BY <1>4 DEF Host, AllNames
  <2>2. AddressesOf(h.name) = {a}
    BY <1>4, <2>1 DEF AddressesOf
  <2>3. IsIP(n, Addresses) /\ (IsIP(n, Lan) <=> a \in Lan)
    BY <1>1, <2>1 DEF IsIP
  <2>4. h.name[1] = a
    BY <2>1
  <2> QED
    BY <1>2, <2>1, <2>2, <2>3, <2>4, AddressListed DEF Reachable
<1> QED
  BY <1>3, <1>4

\* Loopback names, in spellings that isLoopbackHost knows.
LEMMA LoopbackTest ==
    ASSUME NEW h \in Host, NEW name, name = h.name
    PROVE  /\ isLoopbackHost(h) => name \in {<<a>> : a \in Loopback \cup {"localhost"}}
           /\ h.dots = 0 => (isLoopbackHost(h) <=> name \in {<<a>> : a \in Loopback \cup {"localhost"}})
<1>1. Normal(h).name = h.name /\ (h.dots = 0 => Normal(h) = Spelled(h.name))
  BY NormalTwice DEF Host
<1>2. /\ Literal("localhost") = Spelled(<<"localhost">>) /\ Literal("127.0.0.1") = Spelled(<<"127.0.0.1">>)
      /\ Literal("::1") = Spelled(<<"::1">>)
  BY SpelledFacts
<1>3. {"127.0.0.1", "::1"} \subseteq Loopback
  BY AddressesAssumption
<1>4. /\ Spelled(<<"localhost">>).name = <<"localhost">> /\ Spelled(<<"127.0.0.1">>).name = <<"127.0.0.1">>
      /\ Spelled(<<"::1">>).name = <<"::1">>
  BY SpelledFacts
<1> QED
  BY <1>1, <1>2, <1>3, <1>4 DEF isLoopbackHost, IsIP

\* In any spelling, for any number of addresses, names, links and entries:
\* the kiosk stays off the local network except where allowed_hosts names
\* the address.
THEOREM OffTheLanHolds == PolicySpec => []OffTheLan
<1>1. PolicyTypeOK => OffTheLan
  <2> SUFFICES ASSUME PolicyTypeOK, Http(url), PageURLAllowed(url), ~IsDisplayUI(url),
                      NEW a \in AddressesOf(url.host.name) \cap Lan
               PROVE  Listed(<<a>>)
    BY DEF OffTheLan
  <2>1. url.host \in Host
    BY InputsAssumption DEF PolicyTypeOK, Url
  <2>2. ~isBlockedLANHost(Normal(url.host)) /\ ~resolvesToDisallowedLAN(Normal(url.host))
    BY DEF PageURLAllowed, NavURLAllowed, Http
  <2>3. url.host.name # <<"localhost">>
    <3> SUFFICES ASSUME url.host.name = <<"localhost">> PROVE FALSE
      OBVIOUS
    <3>1. isLoopbackHost(Normal(url.host))
      BY <2>1, NormalTwice, SpelledFacts DEF isLoopbackHost
    <3> QED
      BY <3>1 DEF PageURLAllowed, NavURLAllowed, Http
  <2>4. Reachable(url.host.name)
    BY <2>1, <2>2, <2>3, LanTests
  <2> QED
    BY <2>4 DEF Reachable
<1> QED
  BY <1>1, PolicyTypeCorrect, PTL

\* A name that is not a loopback name passes as no loopback host, however
\* often it is normalized.
LEMMA OffLoopback ==
    ASSUME NEW h \in Host, h.name \notin {<<a>> : a \in Loopback \cup {"localhost"}}
    PROVE  ~isLoopbackHost(h) /\ ~isLoopbackHost(Normal(h)) /\ h.name # <<"localhost">>
<1>1. Normal(h) \in Host /\ Normal(h).name = h.name
  BY NormalTwice
<1> QED
  BY <1>1, LoopbackTest

\* What is written of a link's host is decided by its name.
LEMMA LinkTests ==
    ASSUME PolicyTypeOK, Http(url), ~OnLoopback(url), Reachable(url.host.name),
           NEW i \in DOMAIN items, items[i].host.name = url.host.name
    PROVE  linkHostAllowed(url, items[i]) <=>
              /\ Normal(url.host) = Normal(items[i].host)
              /\ items[i].scheme = url.scheme /\ urlPort(items[i]) = urlPort(url)
<1>1. url \in Url /\ items[i] \in Url /\ Http(items[i])
  BY InputsAssumption DEF PolicyTypeOK
<1>2. url.host \in Host /\ items[i].host \in Host
  BY <1>1 DEF Url
<1>3. ~isLoopbackHost(Normal(items[i].host)) /\ items[i].host.name # <<"localhost">>
  BY <1>2, OffLoopback DEF OnLoopback
<1>4. ~isBlockedLANHost(Normal(items[i].host))
  BY <1>2, <1>3, LanTests
<1> QED
  BY <1>1, <1>3, <1>4 DEF linkHostAllowed

\* The code's tests of spelled hosts decide as the policy on names does.
THEOREM FollowsPolicyHolds == PolicySpec => []FollowsPolicy
<1>1. PolicyTypeOK => FollowsPolicy
  <2> SUFFICES ASSUME PolicyTypeOK, \A i \in DOMAIN items : items[i].host.dots <= 1,
                      url.host.dots <= 1,
                      ~(OnLoopback(url) /\ url.host.dots = 1 /\ ~isLoopbackHost(url.host))
               PROVE  PageURLAllowed(url) <=> MayBeShown(url)
    BY DEF FollowsPolicy
  <2> DEFINE name == url.host.name
  <2>1. url \in Url /\ url.host \in Host
    BY InputsAssumption DEF PolicyTypeOK, Url
  <2>2. Normal(url.host) = Spelled(name) /\ Normal(url.host) \in Host /\ Normal(url.host).name = name
    BY <2>1, NormalTwice
  <2>3. isLoopbackHost(url.host) <=> OnLoopback(url)
    <3>1. url.host.dots \in {0, 1}
      BY <2>1 DEF Host
    <3> QED
      BY <2>1, <3>1, LoopbackTest DEF OnLoopback
  <2>4. isLoopbackHost(Normal(url.host)) <=> OnLoopback(url)
    <3>1. Normal(url.host).dots = 0
      BY <2>2, SpelledFacts
    <3> QED
      BY <2>2, <3>1, LoopbackTest DEF OnLoopback
  <2>5. CASE ~Http(url)
    BY <2>5 DEF PageURLAllowed, MayBeShown, NavURLAllowed
  <2>6. CASE Http(url) /\ OnLoopback(url)
    BY <2>3, <2>4, <2>6 DEF PageURLAllowed, MayBeShown, NavURLAllowed, IsDisplayUI, Http
  <2>7. CASE Http(url) /\ ~OnLoopback(url) /\ ~Reachable(name)
    <3>1. ~(~isBlockedLANHost(Normal(url.host)) /\ ~resolvesToDisallowedLAN(Normal(url.host)))
      BY <2>1, <2>7, OffLoopback, LanTests DEF OnLoopback
    <3> QED
      BY <2>3, <2>7, <3>1 DEF PageURLAllowed, MayBeShown, NavURLAllowed, IsDisplayUI, Http
  <2>8. CASE Http(url) /\ ~OnLoopback(url) /\ Reachable(name)
    <3>1. ~isBlockedLANHost(Normal(url.host)) /\ ~resolvesToDisallowedLAN(Normal(url.host))
      BY <2>1, <2>8, OffLoopback, LanTests DEF OnLoopback
    <3>2. hostAllowed(Normal(url.host)) <=> ByHosts(name)
      <4>1. Normal(Normal(url.host)) = Spelled(name)
        BY <2>1, NormalTwice
      <4>2. hostInList(Spelled(name), allowedHosts, autoAllowSubdomains) <=> ByHosts(name)
        BY InListIsByName DEF PolicyTypeOK, ByHosts
      <4> QED
        BY <2>2, <3>1, <4>1, <4>2 DEF hostAllowed
    <3>3. \A i \in DOMAIN items :
             linkHostAllowed(url, items[i]) <=>
                /\ items[i].host.name = name /\ items[i].scheme = url.scheme
                /\ urlPort(items[i]) = urlPort(url)
      <4> SUFFICES ASSUME NEW i \in DOMAIN items
                   PROVE  linkHostAllowed(url, items[i]) <=>
                             /\ items[i].host.name = name /\ items[i].scheme = url.scheme
                             /\ urlPort(items[i]) = urlPort(url)
        OBVIOUS
      <4>1. items[i].host \in Host
        BY InputsAssumption DEF PolicyTypeOK, Url
      <4>2. Normal(items[i].host) = Spelled(items[i].host.name)
        BY <4>1, NormalTwice
      <4>3. Normal(url.host) = Normal(items[i].host) <=> items[i].host.name = name
        <5>1. Spelled(name) = Spelled(items[i].host.name) <=> name = items[i].host.name
          BY SpelledFacts, Zenon
        <5> QED
          BY <2>2, <4>2, <5>1
      <4>4. linkHostAllowed(url, items[i]) => items[i].host.name = name
        BY <4>3 DEF linkHostAllowed
      <4> QED
        BY <2>8, <4>3, <4>4, LinkTests
    <3>4. (autoAllowLinkHosts /\ anyLinkAllows(url)) <=> ByLinks(url)
      BY <3>3 DEF anyLinkAllows, ByLinks
    <3> QED
      BY <2>3, <2>4, <2>8, <3>1, <3>2, <3>4
      DEF PageURLAllowed, MayBeShown, NavURLAllowed, IsDisplayUI, Http
  <2> QED
    BY <2>5, <2>6, <2>7, <2>8
<1> QED
  BY <1>1, PolicyTypeCorrect, PTL

\* A label names a link that matches.
LEMMA LabelMatches ==
    ASSUME PolicyTypeOK, ExactLinkLabel(url) # 0
    PROVE  \E i \in DOMAIN items : urlsMatchExact(url, items[i])
<1>1. DOMAIN items = 1..Len(items)
  BY DEF PolicyTypeOK
<1> QED
  BY <1>1 DEF ExactLinkLabel, SelectInSeq

\* The label under which the audit log files a page and the decision to
\* show it agree, in any spelling.
THEOREM LabelledOpensHolds == PolicySpec => []LabelledOpens
<1>1. PolicyTypeOK => LabelledOpens
  <2> SUFFICES ASSUME PolicyTypeOK, ExactLinkLabel(url) # 0, autoAllowLinkHosts, ~OnLoopback(url)
               PROVE  PageURLAllowed(url) <=> Reachable(url.host.name)
    BY DEF LabelledOpens
  <2>1. PICK i \in DOMAIN items : urlsMatchExact(url, items[i])
    BY LabelMatches
  <2>2. url.host \in Host /\ items[i].host \in Host
    BY InputsAssumption DEF PolicyTypeOK, Url
  <2>3. ~isLoopbackHost(url.host) /\ ~isLoopbackHost(Normal(url.host))
    BY <2>2, OffLoopback DEF OnLoopback
  <2>4. ~isBlockedLANHost(Normal(url.host)) /\ ~resolvesToDisallowedLAN(Normal(url.host))
           <=> Reachable(url.host.name)
    BY <2>2, OffLoopback, LanTests DEF OnLoopback
  <2>5. Reachable(url.host.name) => anyLinkAllows(url)
    <3> SUFFICES ASSUME Reachable(url.host.name) PROVE linkHostAllowed(url, items[i])
      BY DEF anyLinkAllows
    <3>1. Http(url) /\ Normal(url.host) = Normal(items[i].host)
          /\ items[i].scheme = url.scheme /\ urlPort(items[i]) = urlPort(url)
      BY <2>1 DEF urlsMatchExact
    <3>2. items[i].host.name = url.host.name
      BY <2>2, <3>1, NormalTwice
    <3> QED
      BY <3>1, <3>2, LinkTests
  <2> QED
    BY <2>1, <2>3, <2>4, <2>5 DEF urlsMatchExact, PageURLAllowed, NavURLAllowed, IsDisplayUI, Http
<1> QED
  BY <1>1, PolicyTypeCorrect, PTL
=============================================================================
