---------------------------- MODULE MCTimerManager ----------------------------
(* Instances of TimerManager for TLC. *)
EXTENDS TimerManager, TLC

ThreadSymmetry == Permutations(Threads)

=============================================================================
