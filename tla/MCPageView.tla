----------------------------- MODULE MCPageView -----------------------------
(* The instance of PageView for TLC: connections are interchangeable; nothing *)
(* looks at the channels of a connection that has ended, at a message that    *)
(* nobody will receive any more, or, once a URL was left over, at the others. *)
EXTENDS PageView, TLC

MCCap == [k \in Kinds |-> 1]

MCSymmetry == Permutations(Viewers)

OnTheWay(n) ==
    \/ \E p \in Producers : job[p].kind = "status" /\ job[p].msg = n
    \/ \E v \in clients : n \in ToSet(chan["status"][v])

MCView ==
    <<clients, closed, job, sent,
      [k \in Kinds |-> [v \in clients |-> <<chan[k][v], newest[k][v], last[k][v]>>]],
      focus, told,
      [n \in DOMAIN what |-> IF OnTheWay(n) THEN what[n] ELSE {}],
      lineVars, picture, decoding, IF leaked THEN picture \in urls ELSE urls, crossed, leaked,
      mode, missed \cap clients>>
=============================================================================
