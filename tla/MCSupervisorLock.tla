--------------------------- MODULE MCSupervisorLock ---------------------------
(* The repository lock on small instances: the constants of its .cfg files. *)
EXTENDS SupervisorLock, TLC

ProcSymmetry == Permutations(Procs) \cup Permutations(Pids)
=============================================================================
