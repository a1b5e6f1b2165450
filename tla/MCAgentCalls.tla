----------------------------- MODULE MCAgentCalls -----------------------------
(* The server and its calls on a small instance: the constants of its .cfg. *)
EXTENDS AgentCalls
=============================================================================
