--------------------------- MODULE RunSession_proofs ---------------------------
(***************************************************************************)
(* Proofs about RunSession, for every set of faults and every bound.  The  *)
(* properties follow from one inductive invariant: what each place of the  *)
(* driver before the first transition says of the session (EntryInv), what *)
(* the lease says of lock and server (LeaseInv), what a thread inside      *)
(* close() holds and has seen (CloseInv), and what a failed start leaves   *)
(* for it (PendingInv).                                                    *)
(***************************************************************************)
EXTENDS RunSession, TLAPS


(* Where a thread can be *)
Places == {"new", "prepare", "ready", "start", "body", "transition", "after", "out",
           "away", "stop", "closeWait", "closeLock", "confirm", "release"}

(* The types of the Boolean variables *)
FlagsOK == {lock, mayExist, done, failing, swept} \subseteq BOOLEAN

(* The types of the variables *)
TypeOK ==
  /\ state \in {"new", "entering", "ready", "starting", "started", "advancing", "closing",
                "cleanup_unresolved", "release_pending", "closed", "failed"}
  /\ lease \in {"none", "releasable", "retained"}
  /\ FlagsOK
  /\ server \in {"none", "alive"}
  /\ pending = None \/ pending \in Outcomes
  /\ mutex = None \/ mutex \in Threads
  /\ pc \in [Threads -> Places]
  /\ n \in Nat
  /\ calls \in [Threads -> Nat]
  /\ awaited \in [Threads -> Nat]
  /\ result \in [Threads -> {"none", "silent", "raised", "noted"}]

(* The driver's places before the server is up *)
Entry == {"new", "prepare", "ready", "start"}

(* What holds before the server is up, when the driver is alone *)
EntryInv ==
  /\ n = 0 => pc["helper"] = "away" /\ calls["helper"] = 0
  /\ pc["driver"] \in Entry =>
       n = 0 /\ server = "none" /\ pending = None /\ mutex = None /\ result["driver"] = "none" /\ done
  /\ n = 0 => result["helper"] = "none"
  /\ pc["driver"] = "new" => state = "new" /\ lease = "none" /\ ~lock /\ ~mayExist
  /\ pc["driver"] = "prepare" => state = "entering" /\ lease = "releasable" /\ lock /\ ~mayExist
  /\ pc["driver"] = "ready" => state = "ready" /\ lease = "releasable" /\ lock /\ ~mayExist
  /\ pc["driver"] = "start" => state = "starting" /\ lease = "retained" /\ lock /\ mayExist

(* What the lease says *)
LeaseInv ==
  /\ server = "alive" => lock /\ lease = "retained"
  /\ pending # None => (pending.confirmed => server = "none")
  /\ lease = "retained" => lock /\ mayExist
  /\ lease = "none" => ~lock /\ server = "none" /\ ~mayExist
  /\ state \in Terminal => ~lock /\ server = "none"
  /\ state \notin Terminal /\ lease # "none" => lock
  /\ state = "release_pending" => server = "none" /\ lease = "releasable"
  /\ state = "cleanup_unresolved" => lock

(* Who is inside close(), and past what *)
CloseInv ==
  /\ \A t \in Threads :
       /\ pc[t] \in {"confirm", "release"} => mutex = t /\ state = "closing" /\ lease # "none"
       /\ pc[t] = "release" => lease = "releasable"
       /\ awaited[t] <= n
       /\ pc[t] = "closeWait" => ~done
       /\ pc[t] \in {"closeLock", "confirm", "release"} => ~(InFlight /\ awaited[t] = n)
       /\ result[t] = "silent" => ~lock
  /\ InFlight <=> ~done
  /\ InFlight => n > 0
  /\ pc["driver"] \notin {"away", "stop"}
  /\ pc["helper"] \in {"away", "stop", "closeWait", "closeLock", "confirm", "release"}

(* What a failed start leaves for close(): no transition has run or will *)
PendingInv ==
  /\ pc["driver"] \in {"transition", "after"} => n > 0
  /\ pending # None /\ ~pending.retryable =>
       n = 0 /\ swept /\ (pc["driver"] = "body" => failing)

(* The inductive invariant *)
IInv == TypeOK /\ EntryInv /\ LeaseInv /\ CloseInv /\ PendingInv

USE SessionConstants DEF Threads, Outcomes, Terminal, InFlight, Entry, Places

(* A new session holds nothing. *)
LEMMA InitLemma == Init => IInv
<1> SUFFICES ASSUME Init PROVE IInv
  OBVIOUS
<1>1. TypeOK
  BY DEF Init, TypeOK, FlagsOK
<1>2. EntryInv
  BY DEF Init, EntryInv
<1>3. LeaseInv
  BY DEF Init, LeaseInv
<1>4. CloseInv
  BY DEF Init, CloseInv
<1>5. PendingInv
  BY DEF Init, PendingInv
<1> QED
  BY <1>1, <1>2, <1>3, <1>4, <1>5 DEF IInv

(* __enter__ takes the lock with a releasable lease, or fails without one. *)
LEMMA AcquireLockLemma == IInv /\ AcquireLock => IInv'
<1> SUFFICES ASSUME IInv, AcquireLock PROVE IInv'
  OBVIOUS
<1> USE DEF AcquireLock, session, Goto
<1>1. TypeOK'
  <2>1. pc' \in [Threads -> Places]
    BY DEF IInv, TypeOK
  <2>2. FlagsOK'
    BY DEF IInv, TypeOK, FlagsOK
  <2> QED
    BY <2>1, <2>2 DEF IInv, TypeOK
<1>2. EntryInv'
  BY DEF IInv, TypeOK, FlagsOK, EntryInv, LeaseInv, CloseInv
<1>3. LeaseInv'
  BY DEF IInv, TypeOK, FlagsOK, EntryInv, LeaseInv, CloseInv
<1>4. CloseInv'
  BY DEF IInv, TypeOK, FlagsOK, EntryInv, LeaseInv, CloseInv
<1>5. PendingInv'
  BY DEF IInv, TypeOK, FlagsOK, EntryInv, CloseInv, PendingInv
<1> QED
  BY <1>1, <1>2, <1>3, <1>4, <1>5 DEF IInv

(* __enter__ prepares the run under the lock. *)
LEMMA PrepareLemma == IInv /\ Prepare => IInv'
BY DEF Prepare, IInv, TypeOK, FlagsOK, EntryInv, LeaseInv, CloseInv, PendingInv, session, Goto

(* A failed preparation releases the lock, or leaves only the release to do. *)
LEMMA PrepareFailsLemma == IInv /\ PrepareFails => IInv'
<1> SUFFICES ASSUME IInv, PrepareFails PROVE IInv'
  OBVIOUS
<1> USE DEF PrepareFails, session, Goto
<1>1. TypeOK'
  <2>1. pc' \in [Threads -> Places]
    BY DEF IInv, TypeOK
  <2>2. FlagsOK'
    BY DEF IInv, TypeOK, FlagsOK
  <2> QED
    BY <2>1, <2>2 DEF IInv, TypeOK
<1>2. EntryInv'
  BY DEF IInv, TypeOK, FlagsOK, EntryInv, LeaseInv, CloseInv
<1>3. LeaseInv'
  <2>1. server = "none" /\ pending = None /\ lease = "releasable" /\ lock
    BY DEF IInv, EntryInv
  <2> QED
    BY <2>1 DEF LeaseInv
<1>4. CloseInv'
  BY DEF IInv, TypeOK, FlagsOK, EntryInv, LeaseInv, CloseInv
<1>5. PendingInv'
  BY DEF IInv, TypeOK, FlagsOK, EntryInv, CloseInv, PendingInv
<1> QED
  BY <1>1, <1>2, <1>3, <1>4, <1>5 DEF IInv

(* The lease is retained before a server may exist. *)
LEMMA StartServerLemma == IInv /\ StartServer => IInv'
BY DEF StartServer, IInv, TypeOK, FlagsOK, EntryInv, LeaseInv, CloseInv, PendingInv, session, Goto

(* A server that came up is covered by the retained lease. *)
LEMMA ServerUpLemma == IInv /\ ServerUp => IInv'
<1> SUFFICES ASSUME IInv, ServerUp PROVE IInv'
  OBVIOUS
<1> USE DEF ServerUp, session, Goto
<1>1. TypeOK'
  <2>1. pc' \in [Threads -> Places]
    BY DEF IInv, TypeOK
  <2>2. FlagsOK'
    BY DEF IInv, TypeOK, FlagsOK
  <2> QED
    BY <2>1, <2>2 DEF IInv, TypeOK
<1>2. EntryInv'
  BY DEF IInv, TypeOK, FlagsOK, EntryInv, LeaseInv, CloseInv
<1>3. LeaseInv'
  BY DEF IInv, TypeOK, FlagsOK, EntryInv, LeaseInv, CloseInv
<1>4. CloseInv'
  BY DEF IInv, TypeOK, FlagsOK, EntryInv, LeaseInv, CloseInv
<1>5. PendingInv'
  BY DEF IInv, TypeOK, FlagsOK, EntryInv, CloseInv, PendingInv
<1> QED
  BY <1>1, <1>2, <1>3, <1>4, <1>5 DEF IInv

(* A failed start leaves an outcome that no transition will outdate. *)
LEMMA StartFailsLemma == IInv /\ StartFails => IInv'
BY DEF StartFails, IInv, TypeOK, FlagsOK, EntryInv, LeaseInv, CloseInv, PendingInv, session, Goto

(* An interrupted start leaves the lease retained and no outcome. *)
LEMMA StartInterruptedLemma == IInv /\ StartInterrupted => IInv'
BY DEF StartInterrupted, IInv, TypeOK, FlagsOK, EntryInv, LeaseInv, CloseInv, PendingInv, session, Goto

(* A transition begins only from a started session that nobody is closing. *)
LEMMA BeginLemma == \A next \in {"advancing", "started"} : IInv /\ Begin(next) => IInv'
<1> SUFFICES ASSUME NEW next \in {"advancing", "started"}, IInv, Begin(next) PROVE IInv'
  OBVIOUS
<1> USE DEF Begin, Goto
<1>1. TypeOK'
  <2>1. pc' \in [Threads -> Places]
    BY DEF IInv, TypeOK
  <2>2. FlagsOK'
    BY DEF IInv, TypeOK, FlagsOK
  <2>3. n' \in Nat
    BY DEF IInv, TypeOK
  <2> QED
    BY <2>1, <2>2, <2>3 DEF IInv, TypeOK
<1>2. EntryInv'
  BY DEF IInv, TypeOK, FlagsOK, EntryInv, LeaseInv, CloseInv
<1>3. LeaseInv'
  BY DEF IInv, TypeOK, FlagsOK, EntryInv, LeaseInv, CloseInv
<1>4. CloseInv'
  BY DEF IInv, TypeOK, FlagsOK, EntryInv, LeaseInv, CloseInv
<1>5. PendingInv'
  BY DEF IInv, TypeOK, FlagsOK, EntryInv, CloseInv, PendingInv
<1> QED
  BY <1>1, <1>2, <1>3, <1>4, <1>5 DEF IInv

(* A refused transition changes nothing but the driver's exception. *)
LEMMA BeginRefusedLemma == IInv /\ BeginRefused => IInv'
BY DEF BeginRefused, IInv, TypeOK, FlagsOK, EntryInv, LeaseInv, CloseInv, PendingInv, session, Goto

(* The end of a transition wakes whoever waits for it. *)
LEMMA TransitionEndsLemma == IInv /\ TransitionEnds => IInv'
<1> SUFFICES ASSUME IInv, TransitionEnds PROVE IInv'
  OBVIOUS
<1> USE DEF TransitionEnds, session, Goto
<1>1. TypeOK'
  <2>1. pc' \in [Threads -> Places]
    BY DEF IInv, TypeOK
  <2>2. FlagsOK'
    BY DEF IInv, TypeOK, FlagsOK
  <2> QED
    BY <2>1, <2>2 DEF IInv, TypeOK
<1>2. EntryInv'
  BY DEF IInv, TypeOK, FlagsOK, EntryInv, LeaseInv, CloseInv
<1>3. LeaseInv'
  BY DEF IInv, TypeOK, FlagsOK, EntryInv, LeaseInv, CloseInv
<1>4. CloseInv'
  BY DEF IInv, TypeOK, FlagsOK, EntryInv, LeaseInv, CloseInv
<1>5. PendingInv'
  BY DEF IInv, TypeOK, FlagsOK, EntryInv, CloseInv, PendingInv
<1> QED
  BY <1>1, <1>2, <1>3, <1>4, <1>5 DEF IInv

(* Restoring the state leaves a state set by close() alone. *)
LEMMA AfterTransitionLemma == IInv /\ AfterTransition => IInv'
BY DEF AfterTransition, IInv, TypeOK, FlagsOK, EntryInv, LeaseInv, CloseInv, PendingInv, session, Goto

(* stop_server is called by the helper once a transition has begun. *)
LEMMA BeginStopLemma == IInv /\ BeginStop => IInv'
BY DEF BeginStop, MayCall, IInv, TypeOK, FlagsOK, EntryInv, LeaseInv, CloseInv, PendingInv, session, Goto

(* stop_server leaves an outcome the next close() may try again. *)
LEMMA StopServerLemma == IInv /\ StopServer => IInv'
BY DEF StopServer, Sweep, IInv, TypeOK, FlagsOK, EntryInv, LeaseInv, CloseInv, PendingInv, session, Goto

(* A call of close() notes the transition in flight. *)
LEMMA BeginCloseLemma == \A t \in Threads : IInv /\ BeginClose(t) => IInv'
BY DEF BeginClose, MayCall, IInv, TypeOK, FlagsOK, EntryInv, LeaseInv, CloseInv, PendingInv, session, Goto

(* close() of a terminal session, or of one without a lease, holds nothing. *)
LEMMA CloseNothingLemma == \A t \in Threads : IInv /\ CloseNothing(t) => IInv'
<1> SUFFICES ASSUME NEW t \in Threads, IInv, CloseNothing(t) PROVE IInv'
  OBVIOUS
<1> USE DEF CloseNothing, Ended, session, Goto
<1>1. TypeOK'
  <2>1. pc' \in [Threads -> Places]
    BY DEF IInv, TypeOK
  <2>2. FlagsOK'
    BY DEF IInv, TypeOK, FlagsOK
  <2> QED
    BY <2>1, <2>2 DEF IInv, TypeOK
<1>2. EntryInv'
  BY DEF IInv, TypeOK, FlagsOK, EntryInv, LeaseInv, CloseInv
<1>3. LeaseInv'
  BY DEF IInv, TypeOK, FlagsOK, EntryInv, LeaseInv, CloseInv
<1>4. CloseInv'
  BY DEF IInv, TypeOK, FlagsOK, EntryInv, LeaseInv, CloseInv
<1>5. PendingInv'
  BY DEF IInv, TypeOK, FlagsOK, EntryInv, CloseInv, PendingInv
<1> QED
  BY <1>1, <1>2, <1>3, <1>4, <1>5 DEF IInv

(* close() takes _state_lock when something is left to give back. *)
LEMMA EnterCloseLemma == \A t \in Threads : IInv /\ EnterClose(t) => IInv'
BY DEF EnterClose, IInv, TypeOK, FlagsOK, EntryInv, LeaseInv, CloseInv, PendingInv, session, Goto

(* A confirmed stop leaves no process, so the lease may be released. *)
LEMMA ConfirmedLemma == \A t \in Threads : IInv /\ Confirmed(t) => IInv'
<1> SUFFICES ASSUME NEW t \in Threads, IInv, Confirmed(t) PROVE IInv'
  OBVIOUS
<1> USE DEF Confirmed, ConfirmCleanup, Sweep, session, Goto
<1>1. TypeOK'
  <2>1. pc' \in [Threads -> Places]
    BY DEF IInv, TypeOK
  <2>2. FlagsOK'
    BY DEF IInv, TypeOK, FlagsOK
  <2> QED
    BY <2>1, <2>2 DEF IInv, TypeOK
<1>2. EntryInv'
  BY DEF IInv, TypeOK, FlagsOK, EntryInv, LeaseInv, CloseInv
<1>3. LeaseInv'
  BY DEF IInv, TypeOK, FlagsOK, EntryInv, LeaseInv, CloseInv
<1>4. CloseInv'
  BY DEF IInv, TypeOK, FlagsOK, EntryInv, LeaseInv, CloseInv
<1>5. PendingInv'
  BY DEF IInv, TypeOK, FlagsOK, EntryInv, CloseInv, PendingInv
<1> QED
  BY <1>1, <1>2, <1>3, <1>4, <1>5 DEF IInv

(* An unconfirmed stop leaves the lock and says so. *)
LEMMA UnconfirmedLemma == \A t \in Threads : IInv /\ Unconfirmed(t) => IInv'
<1> SUFFICES ASSUME NEW t \in Threads, IInv, Unconfirmed(t) PROVE IInv'
  OBVIOUS
<1> USE DEF Unconfirmed, ConfirmCleanup, Sweep, Ended, session, Goto
<1>1. TypeOK'
  <2>1. pc' \in [Threads -> Places]
    BY DEF IInv, TypeOK
  <2>2. FlagsOK'
    BY DEF IInv, TypeOK, FlagsOK
  <2> QED
    BY <2>1, <2>2 DEF IInv, TypeOK
<1>2. EntryInv'
  BY DEF IInv, TypeOK, FlagsOK, EntryInv, LeaseInv, CloseInv
<1>3. LeaseInv'
  BY DEF IInv, TypeOK, FlagsOK, EntryInv, LeaseInv, CloseInv
<1>4. CloseInv'
  BY DEF IInv, TypeOK, FlagsOK, EntryInv, LeaseInv, CloseInv
<1>5. PendingInv'
  BY DEF IInv, TypeOK, FlagsOK, EntryInv, CloseInv, PendingInv
<1> QED
  BY <1>1, <1>2, <1>3, <1>4, <1>5 DEF IInv

(* The lock is released only once the lease is releasable. *)
LEMMA ReleaseLemma == \A t \in Threads : IInv /\ Release(t) => IInv'
<1> SUFFICES ASSUME NEW t \in Threads, IInv, Release(t) PROVE IInv'
  OBVIOUS
<1> USE DEF Release, Ended, session, Goto
<1>1. TypeOK'
  <2>1. pc' \in [Threads -> Places]
    BY DEF IInv, TypeOK
  <2>2. FlagsOK'
    BY DEF IInv, TypeOK, FlagsOK
  <2> QED
    BY <2>1, <2>2 DEF IInv, TypeOK
<1>2. EntryInv'
  BY DEF IInv, TypeOK, FlagsOK, EntryInv, LeaseInv, CloseInv
<1>3. LeaseInv'
  BY DEF IInv, TypeOK, FlagsOK, EntryInv, LeaseInv, CloseInv
<1>4. CloseInv'
  BY DEF IInv, TypeOK, FlagsOK, EntryInv, LeaseInv, CloseInv
<1>5. PendingInv'
  BY DEF IInv, TypeOK, FlagsOK, EntryInv, CloseInv, PendingInv
<1> QED
  BY <1>1, <1>2, <1>3, <1>4, <1>5 DEF IInv

(* A failed release leaves the lock and says so. *)
LEMMA ReleaseFailsLemma == \A t \in Threads : IInv /\ ReleaseFails(t) => IInv'
<1> SUFFICES ASSUME NEW t \in Threads, IInv, ReleaseFails(t) PROVE IInv'
  OBVIOUS
<1> USE DEF ReleaseFails, Ended, session, Goto
<1>1. TypeOK'
  <2>1. pc' \in [Threads -> Places]
    BY DEF IInv, TypeOK
  <2>2. FlagsOK'
    BY DEF IInv, TypeOK, FlagsOK
  <2> QED
    BY <2>1, <2>2 DEF IInv, TypeOK
<1>2. EntryInv'
  BY DEF IInv, TypeOK, FlagsOK, EntryInv, LeaseInv, CloseInv
<1>3. LeaseInv'
  BY DEF IInv, TypeOK, FlagsOK, EntryInv, LeaseInv, CloseInv
<1>4. CloseInv'
  BY DEF IInv, TypeOK, FlagsOK, EntryInv, LeaseInv, CloseInv
<1>5. PendingInv'
  BY DEF IInv, TypeOK, FlagsOK, EntryInv, CloseInv, PendingInv
<1> QED
  BY <1>1, <1>2, <1>3, <1>4, <1>5 DEF IInv

-----------------------------------------------------------------------------
(* A stuttering step of the session preserves the invariant. *)
LEMMA StutterLemma == IInv /\ UNCHANGED vars => IInv'
BY DEF IInv, TypeOK, FlagsOK, EntryInv, LeaseInv, CloseInv, PendingInv, vars, session

(* Every step of the session, of either thread, preserves the invariant. *)
LEMMA StepLemma == IInv /\ [Next]_vars => IInv'
<1> SUFFICES ASSUME IInv, [Next]_vars PROVE IInv'
  OBVIOUS
<1>1. CASE AcquireLock \/ Prepare \/ PrepareFails
  BY <1>1, AcquireLockLemma, PrepareLemma, PrepareFailsLemma
<1>2. CASE StartServer \/ ServerUp \/ StartFails \/ StartInterrupted
  BY <1>2, StartServerLemma, ServerUpLemma, StartFailsLemma, StartInterruptedLemma
<1>3. CASE BeginAdvance \/ BeginRun
  BY <1>3, BeginLemma DEF BeginAdvance, BeginRun
<1>4. CASE BeginRefused \/ TransitionEnds \/ AfterTransition
  BY <1>4, BeginRefusedLemma, TransitionEndsLemma, AfterTransitionLemma
<1>5. CASE BeginStop \/ StopServer
  BY <1>5, BeginStopLemma, StopServerLemma
<1>6. ASSUME NEW t \in Threads, BeginClose(t) \/ CloseStep(t) PROVE IInv'
  BY <1>6, BeginCloseLemma, CloseNothingLemma, EnterCloseLemma, ConfirmedLemma, UnconfirmedLemma,
     ReleaseLemma, ReleaseFailsLemma DEF CloseStep
<1>7. CASE UNCHANGED vars
  BY <1>7, StutterLemma
<1> QED
  BY <1>1, <1>2, <1>3, <1>4, <1>5, <1>6, <1>7 DEF Next

(* The invariant holds in every state of every behaviour of the session. *)
THEOREM SessionInvariance == Spec => []IInv
<1>1. Init => IInv
  BY InitLemma
<1>2. IInv /\ [Next]_vars => IInv'
  BY StepLemma
<1> QED
  BY <1>1, <1>2, PTL DEF Spec

(* Every variable of the session keeps its type. *)
THEOREM TypeCorrect == Spec => []TypeOK
<1>1. IInv => TypeOK
  BY DEF IInv
<1> QED
  BY <1>1, SessionInvariance, PTL

(* While an OpenCode process is alive, whatever start_server, stop_server  *)
(* and close() have met, the session holds the repository lock.            *)
THEOREM LockCoversServer == Spec => []LockOutlivesServer
<1>1. IInv => LockOutlivesServer
  BY DEF IInv, LeaseInv, LockOutlivesServer
<1> QED
  BY <1>1, SessionInvariance, PTL

(* Each SessionState says of the lock and the server what its comment in   *)
(* runtime.py says.                                                        *)
THEOREM StatesAreHonest == Spec => []StatesMeanWhatTheySay
<1>1. IInv => StatesMeanWhatTheySay
  BY DEF IInv, TypeOK, FlagsOK, LeaseInv, StatesMeanWhatTheySay
<1> QED
  BY <1>1, SessionInvariance, PTL

(* A close() past its wait on _advance_done has seen the transition it was *)
(* called under end.                                                       *)
THEOREM CloseWaitsForItsTransition == Spec => []CloseWaited
<1>1. IInv => CloseWaited
  BY DEF IInv, CloseInv, CloseWaited
<1> QED
  BY <1>1, SessionInvariance, PTL

(* A close() that returns without an exception or a note leaves no lock.   *)
THEOREM SilentCloseReleased == Spec => []RetentionReported
<1>1. IInv => RetentionReported
  BY DEF IInv, CloseInv, RetentionReported
<1> QED
  BY <1>1, SessionInvariance, PTL

(* A terminal session stays terminal: the thread that comes back from a    *)
(* transition after the other one has closed does not reopen it.           *)
THEOREM TerminalIsFinal == Spec => TerminalStays
<1>1. IInv /\ [Next]_vars => [(state \in Terminal) => (state' = state)]_vars
  <2> SUFFICES ASSUME IInv, state \in Terminal, Next PROVE state' = state
    OBVIOUS
  <2>1. CASE AcquireLock \/ Prepare \/ PrepareFails \/ StartServer \/ ServerUp \/ StartFails
               \/ StartInterrupted
    BY <2>1 DEF IInv, EntryInv, AcquireLock, Prepare, PrepareFails, StartServer, ServerUp,
         StartFails, StartInterrupted
  <2>2. CASE BeginAdvance \/ BeginRun \/ BeginRefused \/ TransitionEnds \/ AfterTransition
    BY <2>2 DEF BeginAdvance, BeginRun, Begin, BeginRefused, TransitionEnds, AfterTransition, session
  <2>3. CASE BeginStop \/ StopServer
    BY <2>3 DEF BeginStop, StopServer, session
  <2>4. ASSUME NEW t \in Threads, BeginClose(t) \/ CloseStep(t) PROVE state' = state
    BY <2>4 DEF IInv, CloseInv, BeginClose, CloseStep, CloseNothing, EnterClose, Confirmed,
         Unconfirmed, Release, ReleaseFails, session
  <2> QED
    BY <2>1, <2>2, <2>3, <2>4 DEF Next
<1> QED
  BY <1>1, SessionInvariance, PTL DEF Spec, TerminalStays

(* Cleanup is declared unresolved only on a sweep made since the last      *)
(* transition ended: a sweep that stop_server left is tried again, and one *)
(* that a failed start left has no transition after it.                    *)
THEOREM UnresolvedOnFreshSweep == Spec => UnresolvedIsFresh
<1>1. IInv /\ [Next]_vars => [state' = "cleanup_unresolved" /\ state # state' => swept']_vars
  <2> SUFFICES ASSUME IInv, Next, state' = "cleanup_unresolved", state # state' PROVE swept'
    OBVIOUS
  <2>1. ASSUME NEW t \in Threads, Unconfirmed(t) PROVE swept'
    BY <2>1 DEF IInv, TypeOK, FlagsOK, PendingInv, Unconfirmed, ConfirmCleanup, Ended, Goto
  <2>2. CASE AcquireLock \/ Prepare \/ PrepareFails \/ StartServer \/ ServerUp \/ StartFails
               \/ StartInterrupted
    BY <2>2 DEF AcquireLock, Prepare, PrepareFails, StartServer, ServerUp, StartFails,
         StartInterrupted
  <2>3. CASE BeginAdvance \/ BeginRun \/ BeginRefused \/ TransitionEnds \/ AfterTransition
    BY <2>3 DEF BeginAdvance, BeginRun, Begin, BeginRefused, TransitionEnds, AfterTransition, session
  <2>4. CASE BeginStop \/ StopServer
    BY <2>4 DEF BeginStop, StopServer, session
  <2>5. ASSUME NEW t \in Threads, BeginClose(t) \/ CloseStep(t) PROVE swept'
    BY <2>1, <2>5 DEF BeginClose, CloseStep, CloseNothing, EnterClose, Confirmed, Release,
         ReleaseFails, session
  <2> QED
    BY <2>2, <2>3, <2>4, <2>5 DEF Next
<1> QED
  BY <1>1, SessionInvariance, PTL DEF Spec, UnresolvedIsFresh
=============================================================================
