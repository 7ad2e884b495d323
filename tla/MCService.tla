------------------------------ MODULE MCService ------------------------------
(* The instance of Service for TLC: savers are interchangeable, and of a   *)
(* kiosk that does not run, of a save that is over and of what a page     *)
(* shows that is excused until it is loaded again, nothing is looked at.   *)
EXTENDS Service, TLC

MCSymmetry == Permutations(Savers)

MCView ==
    <<cert, key, pc, pair, listening, breaks, torn, refused, closing, late,
      up, editable, config, file, lock, step, newest, faults, cutOff,
      [s \in Savers |-> IF step[s] = "write" THEN list[s] ELSE 0],
      IF up THEN <<asleep, at, startsAt, missed, IF missed THEN shown = Loading ELSE shown>>
            ELSE <<>> >>
=============================================================================
