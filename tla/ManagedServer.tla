----------------------------- MODULE ManagedServer -----------------------------
(***************************************************************************)
(* What a session needs of its OpenCode server: as long as a process may   *)
(* exist the server says so (owned), it starts another one only when none  *)
(* can, and it gives up its ownership only of processes that are gone.     *)
(***************************************************************************)
VARIABLES alive, owned

Init == ~alive /\ ~owned

Start == ~owned /\ ~alive /\ alive' /\ owned'

Dies == alive /\ ~alive' /\ UNCHANGED owned

Confirm == owned /\ ~owned' /\ ~alive'

Next == Start \/ Dies \/ Confirm

Spec == Init /\ [][Next]_<<alive, owned>>
=============================================================================
