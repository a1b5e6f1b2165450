---------------------------- MODULE MCSupervisor ----------------------------
(* The supervisor on small instances: the constants of its .cfg files. *)
EXTENDS SupervisorProperties, TLC

TaskSymmetry == Permutations(Tasks)
=============================================================================
