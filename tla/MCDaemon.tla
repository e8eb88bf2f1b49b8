------------------------------ MODULE MCDaemon ------------------------------
(* Model checking of Daemon: pids and requests are interchangeable. *)
EXTENDS Daemon, TLC

DaemonSymmetry == Permutations(Pids) \cup Permutations(Requests)
=============================================================================
