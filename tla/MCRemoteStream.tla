--------------------------- MODULE MCRemoteStream ---------------------------
EXTENDS RemoteStream, TLC

CONSTANTS c1, c2, f1, f2

MCSymmetry == Permutations({c1, c2}) \cup Permutations({f1, f2})

\* The end of a call, its send on WakeCh and its audit entry, comes before any
\* other step.  Nothing else here reads or writes what these two change, but the
\* session, which no page, message or property hears of, and the caller's next
\* call, which has to wait for them: every behaviour differs from one of these in
\* the place of such steps only, which no property here can see.
Ending == {c \in Callers : pc[c] \in {"signal", "record"}}

MCNext ==
    IF Ending # {} THEN OtherDisplayStep /\ \E c \in Ending : pc'[c] # pc[c]
                   ELSE StreamNext

MCSpec == StreamInit /\ [][MCNext]_allVars

\* What the guards, steps and properties here can see of the variables: once two
\* calls overlapped, the screen itself is never looked at again, and before that
\* only whether who touched it last excuses its state; what an idle caller did
\* last does not matter; the two excuses of a page come and go together; what was
\* dropped from a channel or written to a page matters while it is subscribed, and
\* what was written only until two broadcasts changed places.
MCView ==
    <<asleep, overlapped,
      IF overlapped THEN <<>>
      ELSE <<power, powerBy \in (IF power = "off" THEN {"failed", "boot"}
                                                  ELSE {"failed", "restart"})>>,
      pc, [c \in Callers |-> IF pc[c] = "idle" THEN "wake" ELSE op[c]], calls,
      stage, queue, page, fetch, focusing, focused, reordered, overtaken \cup failed,
      [v \in Viewers |-> Subscribed(v) /\ lostNews[v] # {}],
      [v \in Viewers |-> stage[v] = "on" /\ ~reordered /\ view[v]]>>
=============================================================================
