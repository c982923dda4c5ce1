----------------------------- MODULE MCMotorLoop -----------------------------
(* Small instances of MotorLoop.  The goal values reachable from the       *)
(* speeds +-50 (goal +-32) with a ramp of 32 and a floor of 5 are few, so  *)
(* the whole state space is explored.                                      *)
EXTENDS MotorLoop, TLC

MCSpeeds == {-50, 0, 50}
MCCounts == {0, 30}

\* Tasks are interchangeable in the safety runs.
MCSymmetry == Permutations(Tasks)

=============================================================================
