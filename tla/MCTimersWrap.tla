---------------------------- MODULE MCTimersWrap ----------------------------
(* The instance of Timers for which AlwaysPunctual of TimersProofs holds.  *)
EXTENDS MCTimers

ASSUME LateAssumption == LagBound
=============================================================================
