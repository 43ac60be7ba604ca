----------------------------- MODULE MCScheduler -----------------------------
(* Scheduler for TLC: callbacks are interchangeable.                        *)
EXTENDS Scheduler, TLC

TaskSymmetry == Permutations(Tasks)

=============================================================================
