------------------------------ MODULE TlsFiles ------------------------------
(***************************************************************************)
(* The certificate and the key in the data directory: EnsureSelfSigned in  *)
(* internal/utils/tls.go, and what main.go and servers.go do with them.    *)
(*                                                                         *)
(* The two files are written in place, one after the other, and a start    *)
(* decides from their presence and from the certificate alone whether they *)
(* are used again.  The process may die between any two steps, and any     *)
(* write or removal may fail.  A file is what it can be read as: absent,   *)
(* cut (opened and not written to its end), an old certificate that is not *)
(* a trust anchor ("leaf", as earlier versions made it), or whole, with    *)
(* the number of the pair it belongs to.                                   *)
(***************************************************************************)
EXTENDS Naturals

CONSTANTS
    Listeners, \* the servers that load the pair: display and manager
    MaxPairs,  \* bound: pairs generated
    MaxBreaks  \* bound: deaths of the process, failed writes and removals

ASSUME BoundsAssumption == MaxPairs \in Nat /\ MaxBreaks \in Nat

VARIABLES
    cert,      \* tls.crt
    key,       \* tls.key
    pc,        \* what the process does next
    pair,      \* the pair generated last
    listening, \* the listeners that have loaded the pair
    breaks,    \* bound counter
    \* history variables
    torn,      \* the steps that did not come to their end
    refused    \* the files at hand ended a start (log.Fatalf) that nothing disturbed

vars == <<cert, key, pc, pair, listening, breaks, torn, refused>>

files == <<cert, key>>

File   == [is : {"absent", "cut", "leaf", "whole"}, of : 0..MaxPairs]
Absent == [is |-> "absent", of |-> 0]
Cut    == [is |-> "cut", of |-> 0]
Leaf   == [is |-> "leaf", of |-> 0]
Whole(n) == [is |-> "whole", of |-> n]

\* The steps during which a death of the process leaves a trace.
Writing == {"removeKey", "writeCert", "openKey", "writeKey"}
Steps   == {"down", "check", "removeCert", "openCert", "client", "listen"} \cup Writing

\* A first start, and starts with what a run of this version, or of one
\* whose certificates were no trust anchors, has left.
Init ==
    /\ \/ cert = Absent /\ key = Absent
       \/ cert \in {Whole(0), Leaf} /\ key = Whole(0)
    /\ pc = "down" /\ pair = 0 /\ listening = {} /\ breaks = 0
    /\ torn = {} /\ refused = FALSE

Go(step) == pc' = step

Start ==
    /\ pc = "down"
    /\ Go("check")
    /\ refused' = FALSE
    /\ UNCHANGED <<files, pair, listening, breaks, torn>>

-----------------------------------------------------------------------------
(* EnsureSelfSigned *)

\* tlsFilesExist
BothExist == cert.is # "absent" /\ key.is # "absent"

\* certIsTrustAnchor, TRUE: the files are used as they are.
Kept == cert.is = "whole"

\* The files are tested: a certificate that cannot be parsed is an error,
\* one that is no trust anchor is removed, and so is its key.
Check ==
    /\ pc = "check"
    /\ \/ ~BothExist /\ Go("openCert") /\ UNCHANGED refused
       \/ BothExist /\ cert.is = "cut" /\ Go("down") /\ refused' = TRUE
       \/ BothExist /\ cert.is # "cut" /\ UNCHANGED refused
          /\ Go(IF Kept THEN "client" ELSE "removeCert")
    /\ UNCHANGED <<files, pair, listening, breaks, torn>>

RemoveCert ==
    /\ pc = "removeCert"
    /\ cert' = Absent
    /\ Go("removeKey")
    /\ UNCHANGED <<key, pair, listening, breaks, torn, refused>>

\* (Fault) Only the certificate is removed.
RemoveKeyForgotten ==
    /\ pc = "removeKey"
    /\ Go("openCert")
    /\ UNCHANGED <<files, pair, listening, breaks, torn, refused>>

RemoveKey ==
    /\ pc = "removeKey"
    /\ key' = Absent
    /\ Go("openCert")
    /\ UNCHANGED <<cert, pair, listening, breaks, torn, refused>>

\* os.Remove fails; its error is ignored.
RemoveFails ==
    /\ pc \in {"removeCert", "removeKey"}
    /\ breaks < MaxBreaks /\ breaks' = breaks + 1
    /\ torn' = IF pc = "removeKey" THEN torn \cup {pc} ELSE torn
    /\ Go(IF pc = "removeCert" THEN "removeKey" ELSE "openCert")
    /\ UNCHANGED <<files, pair, listening, refused>>

\* generateSelfSigned, and writePEM opens the certificate and empties it.
OpenCert ==
    /\ pc = "openCert"
    /\ pair < MaxPairs /\ pair' = pair + 1
    /\ cert' = Cut
    /\ Go("writeCert")
    /\ UNCHANGED <<key, listening, breaks, torn, refused>>

WriteCert ==
    /\ pc = "writeCert"
    /\ cert' = Whole(pair)
    /\ Go("openKey")
    /\ UNCHANGED <<key, pair, listening, breaks, torn, refused>>

OpenKey ==
    /\ pc = "openKey"
    /\ key' = Cut
    /\ Go("writeKey")
    /\ UNCHANGED <<cert, pair, listening, breaks, torn, refused>>

WriteKey ==
    /\ pc = "writeKey"
    /\ key' = Whole(pair)
    /\ Go("client")
    /\ UNCHANGED <<cert, pair, listening, breaks, torn, refused>>

\* The process dies, or the step at hand fails and main gives up: files
\* stay as they are, and a file that was being written stays cut.
Break ==
    /\ pc # "down"
    /\ breaks < MaxBreaks /\ breaks' = breaks + 1
    /\ torn' = torn \cup ({pc} \cap Writing)
    /\ Go("down")
    /\ listening' = {}
    /\ UNCHANGED <<files, pair, refused>>

-----------------------------------------------------------------------------

\* loadTLSClient parses the certificate once more.
LoadClient ==
    /\ pc = "client"
    /\ Go("listen")
    /\ UNCHANGED <<files, pair, listening, breaks, torn, refused>>

Matching == cert.is = "whole" /\ key.is = "whole" /\ cert.of = key.of

\* ListenAndServeTLS of one server: a pair that does not match ends the process.
Listen(s) ==
    /\ pc = "listen" /\ s \notin listening
    /\ \/ Matching /\ listening' = listening \cup {s} /\ UNCHANGED <<pc, refused>>
       \/ ~Matching /\ listening' = {} /\ Go("down") /\ refused' = TRUE
    /\ UNCHANGED <<files, pair, breaks, torn>>

\* Shutdown of servers: they listen no more.
Close(rest) ==
    /\ pc = "listen" /\ rest \subseteq listening
    /\ listening' = rest
    /\ UNCHANGED <<files, pc, pair, breaks, torn, refused>>

\* main returns.
Stop ==
    /\ pc = "listen" /\ Go("down")
    /\ listening' = {}
    /\ UNCHANGED <<files, pair, breaks, torn, refused>>

Next ==
    \/ Start \/ Check \/ RemoveCert \/ RemoveKey \/ RemoveFails
    \/ OpenCert \/ WriteCert \/ OpenKey \/ WriteKey
    \/ LoadClient \/ Break
    \/ \E s \in Listeners : Listen(s)
    \/ (\E rest \in SUBSET listening : Close(rest)) \/ Stop

Spec == Init /\ [][Next]_vars

-----------------------------------------------------------------------------

\* Files that no start will get past and none will repair.
Unusable == cert.is \notin {"absent", "leaf"} /\ key.is # "absent" /\ ~Matching

\* Every variable has its type; a server listens in a running process only.
TypeOK ==
    /\ cert \in File /\ key \in File
    /\ pc \in Steps
    /\ pair \in 0..MaxPairs
    /\ listening \subseteq Listeners /\ (listening # {} => pc = "listen")
    /\ breaks \in 0..MaxBreaks
    /\ torn \subseteq Writing /\ refused \in BOOLEAN

\* What it takes to leave unusable files behind: the write of a key that
\* was begun and not finished, or a new certificate next to an old key,
\* for which two things must have gone wrong, since the old key is removed
\* before.  All other interruptions are repaired by the next start, those
\* of a certificate that is written for the first time among them.
UnusableOnlyIfTorn ==
    pc = "down" /\ Unusable =>
        \/ "writeKey" \in torn
        \/ "removeKey" \in torn /\ torn \cap {"writeCert", "openKey"} # {}

\* A start that nothing disturbed is refused only for unusable files, and
\* these stay refused, start after start, until someone removes them.
RefusedForGood == [][(refused => Unusable) /\ (Unusable /\ pc \notin Writing => UNCHANGED files)]_vars

\* A pair that works is never replaced, whatever starts and ends: the
\* browsers that trust it would not trust another.
PairKept == [][Matching => UNCHANGED files]_vars
=============================================================================
