---------------------------- MODULE MCTaskLedger ----------------------------
(* Model checking of TaskLedger: tasks are interchangeable. *)
EXTENDS TaskLedger, TLC

TaskSymmetry == Permutations(Tasks)
=============================================================================
