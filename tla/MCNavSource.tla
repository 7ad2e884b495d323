----------------------------- MODULE MCNavSource -----------------------------
(* The instance of NavSource for TLC: requests and hosts are interchangeable; *)
(* no step looks at the audit log, or at the host of a mark that is lost.     *)
EXTENDS NavSource, TLC

MCSymmetry == Permutations(Requests) \cup Permutations(Hosts)

MCView == <<mark, remoteVars, reports, asleep, lost,
            [r \in Requests |-> IF lost[r] THEN "any" ELSE asked[r]]>>
=============================================================================
