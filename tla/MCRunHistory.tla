---------------------------- MODULE MCRunHistory ----------------------------
(* The supervisor and its phase history on a small instance. *)
EXTENDS RunHistory, MCSupervisor
=============================================================================
