---------------------------- MODULE MCScheduler ----------------------------
(* Instances of the scheduler for TLC. *)
EXTENDS SchedulerPool, TLC

(* Threads, fibers and tasks are interchangeable as long as no task is     *)
(* pinned to a named thread.                                               *)
Symmetry ==
  Permutations(Workers) \cup Permutations(Fibers) \cup Permutations(Tasks)
=============================================================================
