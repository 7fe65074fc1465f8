------------------------------ MODULE MCTimers ------------------------------
(* Model checking instances of Timers.                                     *)
EXTENDS Timers, TLC

CONSTANTS u, s
Intervals == [n \in Timers |-> IF n \in Users THEN 1 ELSE 2]
ThreadsAlike == Permutations(Threads)
=============================================================================
