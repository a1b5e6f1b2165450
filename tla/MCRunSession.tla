----------------------------- MODULE MCRunSession -----------------------------
(* The run session on a small instance: the constants of its .cfg files. *)
EXTENDS RunSession
=============================================================================
