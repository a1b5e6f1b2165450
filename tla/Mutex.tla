--------------------------------- MODULE Mutex ---------------------------------
(***************************************************************************)
(* What the repository lock promises: it has at most one holder, is taken  *)
(* only when it has none, and is lost by being given up or by its holder's *)
(* death, never to another process.                                        *)
(***************************************************************************)
CONSTANTS Procs, None

VARIABLE holder

Init == holder = None

Take(p) == holder = None /\ holder' = p

GiveUp == holder # None /\ holder' = None

Next == GiveUp \/ \E p \in Procs : Take(p)

Spec == Init /\ [][Next]_holder
=============================================================================
