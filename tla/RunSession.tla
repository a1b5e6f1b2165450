------------------------------ MODULE RunSession ------------------------------
(***************************************************************************)
(* A run session: the object that takes the repository lock, starts the    *)
(* OpenCode server, drives transitions, stops the server and releases the  *)
(* lock.  The driver is the thread of the `with' block; the helper is      *)
(* another thread, which may call close() and stop_server(), for the first *)
(* time while a transition is in flight.                                   *)
(*                                                                         *)
(* close() waits for the event _advance_done and only then takes           *)
(* _state_lock.  start_server() and stop_server() leave the outcome of     *)
(* their sweep (three attempts of server.stop()) to the next close().      *)
(*                                                                         *)
(* The lock file, the server's processes and the transitions are models of *)
(* their own (SupervisorLock, OpenCodeServer, Supervisor); here the lock   *)
(* is held or not, the server is alive or not, a transition is in flight   *)
(* or not.  Bounds: MaxTransitions transitions, MaxCalls calls of close    *)
(* and stop_server by each thread beyond those the `with' block makes.     *)
(***************************************************************************)
EXTENDS Naturals

CONSTANTS None,
          Faults,  \* what may go wrong: an entry of Faulty
          MaxTransitions, MaxCalls

Faulty == {"lock", "prepare", "start", "interrupt", "handoff", "transition",
           "stop", "release"}

Threads == {"driver", "helper"}

(* _CleanupOutcome, and whether close() may try again when it is a failure *)
Outcomes == [confirmed : BOOLEAN, retryable : BOOLEAN]

ASSUME SessionConstants ==
  /\ Faults \subseteq Faulty /\ MaxTransitions \in Nat /\ MaxCalls \in Nat
  /\ None \notin Threads \cup Outcomes

Terminal == {"closed", "failed"}

VARIABLES
  state,     \* SessionState
  lease,     \* "none" before there is one, "releasable" or "retained"
  lock,      \* the repository lock is held
  server,    \* an OpenCode process is "alive", or "none" is
  mayExist,  \* _server_may_exist
  pending,   \* _pending_cleanup with _pending_cleanup_retryable, or None
  done,      \* _advance_done
  mutex,     \* holder of _state_lock
  pc,        \* where each thread is
  failing,   \* the driver has an exception of the `with' block in hand
  n,         \* transitions begun
  calls,     \* calls of close and stop_server made by each thread
  awaited,   \* the transition in flight when a thread called close, or 0
  result,    \* how a thread's last close ended
  swept      \* the server was swept since the last transition ended

session == <<state, lease, lock, server, mayExist, pending>>
vars == <<session, done, mutex, pc, failing, n, calls, awaited, result, swept>>

InFlight == pc["driver"] = "transition"

Goto(t, step) == pc' = [pc EXCEPT ![t] = step]

(* _confirm_server_stopped: either confirmed, and nothing is alive, or not *)
Sweep(confirmed, after) ==
  \/ confirmed /\ after = "none"
  \/ "stop" \in Faults /\ ~confirmed /\ after \in {"none", server}

Init ==
  /\ state = "new" /\ lease = "none" /\ lock = FALSE
  /\ server = "none" /\ mayExist = FALSE /\ pending = None
  /\ done = TRUE /\ mutex = None
  /\ pc = [t \in Threads |-> IF t = "driver" THEN "new" ELSE "away"]
  /\ failing = FALSE /\ n = 0
  /\ calls = [t \in Threads |-> 0]
  /\ awaited = [t \in Threads |-> 0]
  /\ result = [t \in Threads |-> "none"]
  /\ swept = FALSE

-----------------------------------------------------------------------------
(* __enter__ : an exception it raises is not followed by __exit__ *)

AcquireLock ==
  /\ pc["driver"] = "new"
  /\ \/ /\ state' = "entering" /\ lease' = "releasable" /\ lock' = TRUE
        /\ Goto("driver", "prepare")
     \/ /\ "lock" \in Faults
        /\ state' = "failed" /\ Goto("driver", "out")
        /\ UNCHANGED <<lease, lock>>
  /\ UNCHANGED <<server, mayExist, pending, done, mutex, failing, n, calls, awaited, result, swept>>

Prepare ==
  /\ pc["driver"] = "prepare"
  /\ state' = "ready" /\ Goto("driver", "ready")
  /\ UNCHANGED <<lease, lock, server, mayExist, pending, done, mutex, failing, n, calls, awaited,
                 result, swept>>

PrepareFails ==
  /\ pc["driver"] = "prepare" /\ "prepare" \in Faults
  /\ \/ lock' = FALSE /\ state' = "failed"
     \/ "release" \in Faults /\ state' = "release_pending" /\ UNCHANGED lock
  /\ Goto("driver", "out")
  /\ UNCHANGED <<lease, server, mayExist, pending, done, mutex, failing, n, calls, awaited, result,
                 swept>>

-----------------------------------------------------------------------------
(* start_server *)

(* Mutant: the process is recorded only once it is up. *)
StartServerLate ==
  /\ pc["driver"] = "ready"
  /\ state' = "starting" /\ lease' = "retained"
  /\ Goto("driver", "start")
  /\ UNCHANGED <<lock, server, mayExist, pending, done, mutex, failing, n, calls, awaited, result,
                 swept>>

StartServer ==
  /\ pc["driver"] = "ready"
  /\ state' = "starting" /\ lease' = "retained" /\ mayExist' = TRUE
  /\ Goto("driver", "start")
  /\ UNCHANGED <<lock, server, pending, done, mutex, failing, n, calls, awaited, result, swept>>

ServerUp ==
  /\ pc["driver"] = "start"
  /\ server' = "alive"
  /\ \/ state' = "started" /\ Goto("driver", "body") /\ UNCHANGED failing
     \/ /\ "handoff" \in Faults   \* supervisor.runner = server
        /\ failing' = TRUE /\ Goto("driver", "body") /\ UNCHANGED state
  /\ UNCHANGED <<lease, lock, mayExist, pending, done, mutex, n, calls, awaited, result, swept>>

(* An ordinary exception: swept here, so that close() need not *)
StartFails ==
  /\ pc["driver"] = "start" /\ "start" \in Faults
  /\ \E confirmed \in BOOLEAN, left \in {"none", "alive"} :
       /\ confirmed => left = "none"
       /\ ~confirmed => "stop" \in Faults
       /\ server' = left
       /\ pending' = [confirmed |-> confirmed, retryable |-> FALSE]
  /\ swept' = TRUE /\ failing' = TRUE
  /\ Goto("driver", "body")
  /\ UNCHANGED <<state, lease, lock, mayExist, done, mutex, n, calls, awaited, result>>

(* KeyboardInterrupt or SystemExit: close() sweeps *)
StartInterrupted ==
  /\ pc["driver"] = "start" /\ "interrupt" \in Faults
  /\ server' \in {"none", "alive"}
  /\ failing' = TRUE
  /\ Goto("driver", "body")
  /\ UNCHANGED <<state, lease, lock, mayExist, pending, done, mutex, n, calls, awaited, result,
                 swept>>

-----------------------------------------------------------------------------
(* advance and run_to_completion *)

Begin(next) ==
  /\ pc["driver"] = "body" /\ ~failing
  /\ n < MaxTransitions
  /\ mutex = None /\ state = "started"
  /\ state' = next
  /\ done' = FALSE /\ n' = n + 1
  /\ Goto("driver", "transition")
  /\ UNCHANGED <<lease, lock, server, mayExist, pending, mutex, failing, calls, awaited, result,
                 swept>>

BeginAdvance == Begin("advancing")

(* run_to_completion leaves the state alone *)
BeginRun == Begin("started")

BeginRefused ==
  /\ pc["driver"] = "body" /\ ~failing
  /\ mutex = None /\ state # "started"
  /\ failing' = TRUE
  /\ UNCHANGED <<session, done, mutex, pc, n, calls, awaited, result, swept>>

(* Mutant: an exception of the transition skips the event. *)
TransitionEndsQuiet ==
  /\ pc["driver"] = "transition"
  /\ swept' = FALSE
  /\ \/ done' = TRUE /\ UNCHANGED failing
     \/ "transition" \in Faults /\ failing' = TRUE /\ UNCHANGED done
  /\ pc' = [t \in Threads |-> IF t = "driver" THEN "after"
                              ELSE IF done' /\ pc[t] = "closeWait" THEN "closeLock" ELSE pc[t]]
  /\ UNCHANGED <<session, mutex, n, calls, awaited, result>>

(* The supervisor returns or raises; the event is set either way and wakes *)
(* whoever waits for it, also if it is cleared again at once.              *)
TransitionEnds ==
  /\ pc["driver"] = "transition"
  /\ done' = TRUE /\ swept' = FALSE
  /\ \/ UNCHANGED failing
     \/ "transition" \in Faults /\ failing' = TRUE
  /\ pc' = [t \in Threads |-> IF t = "driver" THEN "after"
                              ELSE IF pc[t] = "closeWait" THEN "closeLock" ELSE pc[t]]
  /\ UNCHANGED <<session, mutex, n, calls, awaited, result>>

(* Mutant: the state is restored whatever it has become. *)
AfterTransitionAlways ==
  /\ pc["driver"] = "after" /\ mutex = None
  /\ state' = "started"
  /\ Goto("driver", "body")
  /\ UNCHANGED <<lease, lock, server, mayExist, pending, done, mutex, failing, n, calls, awaited,
                 result, swept>>

(* _restore_started_unless_closed; after a run there is nothing to restore *)
AfterTransition ==
  /\ pc["driver"] = "after" /\ mutex = None
  /\ state' = IF state = "advancing" THEN "started" ELSE state
  /\ Goto("driver", "body")
  /\ UNCHANGED <<lease, lock, server, mayExist, pending, done, mutex, failing, n, calls, awaited,
                 result, swept>>

-----------------------------------------------------------------------------
(* close *)

MayCall(t) ==
  \/ t = "driver" /\ pc[t] \in {"new", "ready", "body"}
  \/ t = "driver" /\ pc[t] = "out" /\ calls[t] < MaxCalls
  \/ t = "helper" /\ pc[t] = "away" /\ calls[t] < MaxCalls /\ (InFlight \/ calls[t] > 0)

(* Mutant: close() does not wait for the transition in flight. *)
BeginCloseAtOnce(t) ==
  /\ MayCall(t)
  /\ Goto(t, "closeLock")
  /\ awaited' = [awaited EXCEPT ![t] = IF done THEN 0 ELSE n]
  /\ result' = [result EXCEPT ![t] = "none"]
  /\ calls' = [calls EXCEPT ![t] = IF pc[t] \in {"out", "away"} THEN @ + 1 ELSE @]
  /\ UNCHANGED <<session, done, mutex, failing, n, swept>>

BeginClose(t) ==
  /\ MayCall(t)
  /\ Goto(t, IF done THEN "closeLock" ELSE "closeWait")
  /\ awaited' = [awaited EXCEPT ![t] = IF done THEN 0 ELSE n]
  /\ result' = [result EXCEPT ![t] = "none"]
  /\ calls' = [calls EXCEPT ![t] = IF pc[t] \in {"out", "away"} THEN @ + 1 ELSE @]
  /\ UNCHANGED <<session, done, mutex, failing, n, swept>>

(* The call ends: "silent", "raised", or, when it failed under an          *)
(* exception the driver has in hand, "noted" on that exception.  A retry   *)
(* in an except clause still has it in hand, one after the clause does not.*)
Ended(t, how) ==
  /\ result' = [result EXCEPT ![t] = IF how = "raised" /\ t = "driver" /\ failing THEN "noted"
                                     ELSE how]
  /\ IF t = "driver" THEN failing' \in {failing, FALSE} ELSE UNCHANGED failing
  /\ Goto(t, IF t = "driver" THEN "out" ELSE "away")

(* Mutant: a session that could not confirm the stop is taken for closed. *)
CloseNothingUnresolved(t) ==
  /\ pc[t] = "closeLock" /\ mutex = None
  /\ \/ state \in Terminal \cup {"cleanup_unresolved"} /\ UNCHANGED state
     \/ state \notin Terminal /\ lease = "none" /\ state' = "closed"
  /\ Ended(t, "silent")
  /\ UNCHANGED <<lease, lock, server, mayExist, pending, done, mutex, n, calls, awaited, swept>>

CloseNothing(t) ==
  /\ pc[t] = "closeLock" /\ mutex = None
  /\ \/ state \in Terminal /\ UNCHANGED state
     \/ state \notin Terminal /\ lease = "none" /\ state' = "closed"
  /\ Ended(t, "silent")
  /\ UNCHANGED <<lease, lock, server, mayExist, pending, done, mutex, n, calls, awaited, swept>>

EnterClose(t) ==
  /\ pc[t] = "closeLock" /\ mutex = None
  /\ state \notin Terminal /\ lease # "none"
  /\ mutex' = t /\ state' = "closing"
  /\ Goto(t, IF state # "release_pending" /\ mayExist THEN "confirm" ELSE "release")
  /\ UNCHANGED <<lease, lock, server, mayExist, pending, done, failing, n, calls, awaited, result,
                 swept>>

(* Mutant: an outcome left by someone else is taken for a success. *)
ConfirmCleanupAny(confirmed) ==
  /\ pending' = None
  /\ IF pending # None /\ (pending.confirmed \/ ~pending.retryable)
     THEN confirmed /\ UNCHANGED <<server, swept>>
     ELSE Sweep(confirmed, server') /\ swept' = TRUE

(* _confirm_cleanup: an outcome left by start_server or stop_server is     *)
(* taken as it is, unless it is a failure worth another try                *)
ConfirmCleanup(confirmed) ==
  /\ pending' = None
  /\ IF pending # None /\ (pending.confirmed \/ ~pending.retryable)
     THEN confirmed = pending.confirmed /\ UNCHANGED <<server, swept>>
     ELSE Sweep(confirmed, server') /\ swept' = TRUE

Confirmed(t) ==
  /\ pc[t] = "confirm"
  /\ ConfirmCleanup(TRUE)
  /\ lease' = "releasable"
  /\ Goto(t, "release")
  /\ UNCHANGED <<state, lock, mayExist, done, mutex, failing, n, calls, awaited, result>>

Unconfirmed(t) ==
  /\ pc[t] = "confirm"
  /\ ConfirmCleanup(FALSE)
  /\ state' = "cleanup_unresolved"
  /\ mutex' = None
  /\ Ended(t, "raised")
  /\ UNCHANGED <<lease, lock, mayExist, done, n, calls, awaited>>

Release(t) ==
  /\ pc[t] = "release"
  /\ lock' = (lease = "retained" /\ lock)
  /\ state' = "closed"
  /\ mutex' = None
  /\ Ended(t, "silent")
  /\ UNCHANGED <<lease, server, mayExist, pending, done, n, calls, awaited, swept>>

(* A LockError leaves the lock on disk; an interrupt leaves the state too *)
ReleaseFails(t) ==
  /\ pc[t] = "release" /\ lease = "releasable"
  /\ \/ "release" \in Faults /\ state' = "release_pending"
     \/ "interrupt" \in Faults /\ UNCHANGED state
  /\ mutex' = None
  /\ Ended(t, "raised")
  /\ UNCHANGED <<lease, lock, server, mayExist, pending, done, n, calls, awaited, swept>>

-----------------------------------------------------------------------------
(* stop_server, from the helper only: the driver is busy *)

BeginStop ==
  /\ MayCall("helper")
  /\ calls' = [calls EXCEPT !["helper"] = @ + 1]
  /\ Goto("helper", "stop")
  /\ UNCHANGED <<session, done, mutex, failing, n, awaited, result, swept>>

(* Mutant: the next close takes a failed sweep for the last word. *)
StopServerFinal ==
  /\ pc["helper"] = "stop" /\ mutex = None
  /\ \E confirmed \in BOOLEAN :
       /\ Sweep(confirmed, server')
       /\ pending' = IF pending # None /\ pending.confirmed /\ ~confirmed THEN pending
                     ELSE [confirmed |-> confirmed, retryable |-> FALSE]
  /\ swept' = TRUE
  /\ Goto("helper", "away")
  /\ UNCHANGED <<state, lease, lock, mayExist, done, mutex, failing, n, calls, awaited, result>>

(* A confirmed outcome is never replaced by a later failure *)
StopServer ==
  /\ pc["helper"] = "stop" /\ mutex = None
  /\ \E confirmed \in BOOLEAN :
       /\ Sweep(confirmed, server')
       /\ pending' = IF pending # None /\ pending.confirmed /\ ~confirmed THEN pending
                     ELSE [confirmed |-> confirmed, retryable |-> TRUE]
  /\ swept' = TRUE
  /\ Goto("helper", "away")
  /\ UNCHANGED <<state, lease, lock, mayExist, done, mutex, failing, n, calls, awaited, result>>

-----------------------------------------------------------------------------
CloseStep(t) ==
  CloseNothing(t) \/ EnterClose(t) \/ Confirmed(t) \/ Unconfirmed(t) \/ Release(t) \/ ReleaseFails(t)

Next ==
  \/ AcquireLock \/ Prepare \/ PrepareFails
  \/ StartServer \/ ServerUp \/ StartFails \/ StartInterrupted
  \/ BeginAdvance \/ BeginRun \/ BeginRefused \/ TransitionEnds \/ AfterTransition
  \/ BeginStop \/ StopServer
  \/ \E t \in Threads : BeginClose(t) \/ CloseStep(t)

(* A transition ends, because agent calls time out, and a thread inside a  *)
(* call goes on; nothing makes a thread call advance, close or stop_server.*)
Fairness ==
  /\ WF_vars(TransitionEnds) /\ WF_vars(AfterTransition) /\ WF_vars(StopServer)
  /\ \A t \in Threads : WF_vars(CloseStep(t))

Spec == Init /\ [][Next]_vars

FairSpec == Spec /\ Fairness

-----------------------------------------------------------------------------
(* Properties *)

(* While an OpenCode process is alive its session holds the repository     *)
(* lock: start_server's lease and close()'s order (ADR 0009).              *)
LockOutlivesServer == server = "alive" => lock

(* What SessionState says of the lock and the server holds in each state:  *)
(* nothing is held in a terminal state, only the release is left to do in  *)
(* release_pending, the lock in cleanup_unresolved, where the lease is     *)
(* retained for as long as a process is alive.                             *)
StatesMeanWhatTheySay ==
  /\ state \in Terminal => ~lock /\ server = "none"
  /\ state = "release_pending" => lock /\ server = "none" /\ lease = "releasable"
  /\ state = "cleanup_unresolved" => lock /\ (server = "alive" => lease = "retained")

(* A close() past its wait has seen the end of the transition that was in  *)
(* flight when it was called.                                              *)
CloseWaited ==
  \A t \in Threads :
    pc[t] \in {"closeLock", "confirm", "release"} => ~(InFlight /\ awaited[t] = n)

(* A close() that returns without an exception, its own or one it has put  *)
(* a note on, has left no lock behind: a failed retry never looks like a   *)
(* success.                                                                *)
RetentionReported == \A t \in Threads : result[t] = "silent" => ~lock

(* A terminal session stays terminal, whatever a transition that outlived  *)
(* the close does afterwards.                                              *)
TerminalStays == [][(state \in Terminal) => (state' = state)]_vars

(* Cleanup is declared unresolved only on a sweep made since the last      *)
(* transition ended, never on what stop_server found while it was blocked. *)
UnresolvedIsFresh ==
  [][state' = "cleanup_unresolved" /\ state # state' => swept']_vars

(* Every close() returns, however the transition it waits for ends.        *)
CloseReturns ==
  \A t \in Threads :
    pc[t] \in {"closeWait", "closeLock", "confirm", "release"} ~> pc[t] \in {"out", "away"}

(* What close() says of its wait: the lock is never released while a       *)
(* transition may still be mutating Git or the run's document.             *)
LockOutlivesTransition == InFlight => lock
=============================================================================
