---------------------------- MODULE SupervisorLock ----------------------------
(***************************************************************************)
(* The repository lock: one supervisor process at a time.  A lock file     *)
(* records its owner's kernel identity, a guard file's flock serializes    *)
(* the critical sections of acquire, bind_run_id and release, and a record *)
(* whose owner is demonstrably gone may be taken over.                     *)
(*                                                                         *)
(* A process lives once; its PID may be reused afterwards, by a process of *)
(* the model or by a stranger.  A reboot kills every process of its host,  *)
(* changes the boot ID and starts the process-start ticks afresh.  Nothing *)
(* here relies on a process running to the end of a critical section: it   *)
(* may die at any step, which frees the flock and leaves the lock file.    *)
(*                                                                         *)
(* Bounds: MaxClock processes ever started per boot, MaxBoots boots of a   *)
(* host, no call of acquire after MaxTokens tokens.                        *)
(***************************************************************************)
EXTENDS Naturals

CONSTANTS Procs, Hosts, Pids, Runs, None,
          NoFile, Malformed,
          Tampering,  \* someone else may delete or corrupt the file
          Failures,   \* what may fail: reading an "identity", any "file"
                      \* operation, unlinking the "tempfile" of a creation
          LegacyLock, \* the file may hold a schema-1 record at first
          MaxClock, MaxBoots, MaxTokens

ASSUME LockConstants ==
  /\ {Tampering, LegacyLock} \subseteq BOOLEAN
  /\ Failures \subseteq {"identity", "file", "tempfile"}
  /\ {MaxClock, MaxBoots, MaxTokens} \subseteq Nat
ASSUME LockSentinels ==
  /\ None \notin Procs \cup Runs \cup Nat \cup [host : Hosts, boot : Nat, pid : Pids, start : Nat]
  /\ NoFile # Malformed

(* boot 0 and start 0 stand for the fields a schema-1 record lacks *)
Identities == [host : Hosts, boot : Nat, pid : Pids, start : Nat]

Records == [schema : {1, 2}, token : Nat, owner : Identities, run : Runs \cup {None}]

ASSUME LockFileSentinels == NoFile \notin Records /\ Malformed \notin Records

VARIABLES
  boot,    \* boot ID of each host
  clock,   \* next process-start tick of each host
  table,   \* each host's process table: the start tick of each PID in use
  ident,   \* kernel identity a process of the model got when it started
  up,      \* the processes of the model now running
  file,    \* supervisor.lock
  guard,   \* holder of the flock on supervisor.lock.guard
  pc,      \* where a process is in acquire, bind_run_id or release
  token,   \* self._token
  seen,    \* the record read in the current critical section
  tokens   \* tokens handed out (uuid4 never repeats)

machine == <<boot, clock, table, ident, up>>
vars == <<machine, file, guard, pc, token, seen, tokens>>

Guarded == {"create", "inspect", "classify", "confirm", "unlink",
            "bind", "bindWrite", "release", "removeOwn"}

Steps == Guarded \cup {"idle", "waitAcquire", "waitBind", "waitRelease", "forget"}

-----------------------------------------------------------------------------
(* Kernel identity *)

(* Mutant: the boot ID is not compared. *)
IdentityMatchesAnyBoot(owner, h) ==
  owner.host = h /\ owner.start = table[h][owner.pid]

(* classify_local_owner_identity on host h: boot ID, then PID, then start  *)
(* ticks.  No two hosts share a boot ID, hence the host.                   *)
IdentityMatches(owner, h) ==
  owner.host = h /\ owner.boot = boot[h] /\ owner.start = table[h][owner.pid]

(* _is_holder_stale: a schema-1 record has only its PID to go by *)
HolderStale(r, h) ==
  IF r.schema = 1 THEN table[h][r.owner.pid] = None ELSE ~IdentityMatches(r.owner, h)

Held == file \notin {NoFile, Malformed}

-----------------------------------------------------------------------------
Init ==
  /\ boot = [h \in Hosts |-> 1]
  /\ clock = [h \in Hosts |-> 1]
  /\ table = [h \in Hosts |-> [n \in Pids |-> None]]
  /\ ident = [p \in Procs |-> None]
  /\ up = {}
  /\ \/ file = NoFile
     \/ /\ LegacyLock
        /\ \E h \in Hosts, n \in Pids :
             file = [schema |-> 1, token |-> 0, run |-> None,
                     owner |-> [host |-> h, boot |-> 0, pid |-> n, start |-> 0]]
  /\ guard = None
  /\ pc = [p \in Procs |-> "idle"]
  /\ token = [p \in Procs |-> None]
  /\ seen = [p \in Procs |-> NoFile]
  /\ tokens = 0

-----------------------------------------------------------------------------
(* The machine *)

Spawn(p) ==
  /\ ident[p] = None
  /\ \E h \in Hosts, n \in Pids :
       /\ table[h][n] = None /\ clock[h] <= MaxClock
       /\ ident' = [ident EXCEPT ![p] = [host |-> h, boot |-> boot[h], pid |-> n,
                                         start |-> clock[h]]]
       /\ table' = [table EXCEPT ![h][n] = clock[h]]
       /\ clock' = [clock EXCEPT ![h] = @ + 1]
  /\ up' = up \cup {p}
  /\ UNCHANGED <<boot, file, guard, pc, token, seen, tokens>>

(* What dies leaves its files, and the kernel drops its flock. *)
Gone(dead) ==
  /\ up' = up \ dead
  /\ guard' = IF guard \in dead THEN None ELSE guard
  /\ pc' = [p \in Procs |-> IF p \in dead THEN "idle" ELSE pc[p]]
  /\ token' = [p \in Procs |-> IF p \in dead THEN None ELSE token[p]]
  /\ seen' = [p \in Procs |-> IF p \in dead THEN NoFile ELSE seen[p]]
  /\ UNCHANGED <<ident, file, tokens>>

Die(p) ==
  /\ p \in up
  /\ table' = [table EXCEPT ![ident[p].host][ident[p].pid] = None]
  /\ Gone({p})
  /\ UNCHANGED <<boot, clock>>

Reboot(h) ==
  /\ boot[h] < MaxBoots
  /\ boot' = [boot EXCEPT ![h] = @ + 1]
  /\ clock' = [clock EXCEPT ![h] = 1]
  /\ table' = [table EXCEPT ![h] = [n \in Pids |-> None]]
  /\ Gone({p \in up : ident[p].host = h})

StrangerStarts(h, n) ==
  /\ table[h][n] = None /\ clock[h] <= MaxClock
  /\ table' = [table EXCEPT ![h][n] = clock[h]]
  /\ clock' = [clock EXCEPT ![h] = @ + 1]
  /\ UNCHANGED <<boot, ident, up, file, guard, pc, token, seen, tokens>>

StrangerExits(h, n) ==
  /\ table[h][n] # None
  /\ \A p \in up : ident[p].host # h \/ ident[p].pid # n
  /\ table' = [table EXCEPT ![h][n] = None]
  /\ UNCHANGED <<boot, clock, ident, up, file, guard, pc, token, seen, tokens>>

-----------------------------------------------------------------------------
(* Critical sections *)

Go(p, step) == pc' = [pc EXCEPT ![p] = step]

(* Mutant: the guard excludes nobody. *)
EnterGuardShared(p) ==
  /\ pc[p] \in {"waitAcquire", "waitBind", "waitRelease"}
  /\ guard' = p
  /\ Go(p, CASE pc[p] = "waitAcquire" -> "create"
             [] pc[p] = "waitBind" -> "bind"
             [] OTHER -> "release")
  /\ UNCHANGED <<machine, file, token, seen, tokens>>

(* flock(LOCK_EX) *)
EnterGuard(p) ==
  /\ pc[p] \in {"waitAcquire", "waitBind", "waitRelease"}
  /\ guard = None
  /\ guard' = p
  /\ Go(p, CASE pc[p] = "waitAcquire" -> "create"
             [] pc[p] = "waitBind" -> "bind"
             [] OTHER -> "release")
  /\ UNCHANGED <<machine, file, token, seen, tokens>>

(* The guard file cannot be opened: LockError, nothing changed. *)
GuardUnavailable(p) ==
  /\ "file" \in Failures /\ pc[p] \in {"waitAcquire", "waitBind", "waitRelease"}
  /\ Go(p, "idle")
  /\ UNCHANGED <<machine, file, guard, token, seen, tokens>>

(* Mutant: an exception skips the unlock. *)
LeaveLocked(p) ==
  /\ UNCHANGED guard
  /\ Go(p, "idle")
  /\ seen' = [seen EXCEPT ![p] = NoFile]

(* The with block is left, by return or by exception. *)
Leave(p) ==
  /\ guard' = None
  /\ Go(p, "idle")
  /\ seen' = [seen EXCEPT ![p] = NoFile]

-----------------------------------------------------------------------------
(* acquire *)

BeginAcquire(p) ==
  /\ p \in up /\ pc[p] = "idle" /\ token[p] = None /\ tokens < MaxTokens
  /\ Go(p, "waitAcquire")
  /\ UNCHANGED <<machine, file, guard, token, seen, tokens>>

(* the record acquire builds, before it enters the guard, with its token   *)
NewRecord(p, run) == [schema |-> 2, token |-> tokens + 1, owner |-> ident[p], run |-> run]

(* link(2): create, or learn that the file exists *)
Create(p) ==
  /\ pc[p] = "create"
  /\ \/ /\ file = NoFile
        /\ \E r \in Runs \cup {None} : file' = NewRecord(p, r)
        /\ tokens' = tokens + 1
        /\ token' = [token EXCEPT ![p] = tokens']
        /\ Leave(p)
     \/ /\ file # NoFile
        /\ Go(p, "inspect")
        /\ UNCHANGED <<file, token, tokens, guard, seen>>
  /\ UNCHANGED machine

(* Mutant: what was read is not validated. *)
InspectUnchecked(p) ==
  /\ pc[p] = "inspect" /\ file # NoFile
  /\ seen' = [seen EXCEPT ![p] = file]
  /\ Go(p, "classify")
  /\ UNCHANGED <<machine, file, guard, token, tokens>>

(* _inspect_existing_lock: the file is gone again, or the record is not    *)
(* one of a local owner, or it is judged in the next step.                 *)
Inspect(p) ==
  /\ pc[p] = "inspect"
  /\ \/ file = NoFile /\ Go(p, "create") /\ UNCHANGED <<guard, seen>>
     \/ (file = Malformed \/ (Held /\ "file" \in Failures)) /\ Leave(p)
     \/ Held /\ file.owner.host # ident[p].host /\ Leave(p)
     \/ /\ Held /\ file.owner.host = ident[p].host
        /\ seen' = [seen EXCEPT ![p] = file]
        /\ Go(p, "classify")
        /\ UNCHANGED guard
  /\ UNCHANGED <<machine, file, token, tokens>>

(* Mutant: an identity that cannot be read is a stale one. *)
ClassifyUnreadableStale(p) ==
  /\ pc[p] = "classify"
  /\ \/ /\ "identity" \in Failures \/ HolderStale(seen[p], ident[p].host)
        /\ Go(p, "confirm") /\ UNCHANGED <<guard, seen>>
     \/ ~HolderStale(seen[p], ident[p].host) /\ Leave(p)
  /\ UNCHANGED <<machine, file, token, tokens>>

(* A live owner, and one whose identity cannot be read, is left alone; a   *)
(* stale one too, without --recover-stale-lock.                            *)
Classify(p) ==
  /\ pc[p] = "classify"
  /\ \/ "identity" \in Failures /\ seen[p].schema = 2 /\ Leave(p)
     \/ ~HolderStale(seen[p], ident[p].host) /\ Leave(p)
     \/ HolderStale(seen[p], ident[p].host) /\ \E recover \in BOOLEAN :
          IF recover THEN Go(p, "confirm") /\ UNCHANGED <<guard, seen>> ELSE Leave(p)
  /\ UNCHANGED <<machine, file, token, tokens>>

(* Read the token again; a file that vanished here is an OSError. *)
Confirm(p) ==
  /\ pc[p] = "confirm"
  /\ \/ file = NoFile /\ Leave(p)
     \/ /\ file = Malformed \/ (Held /\ file.token # seen[p].token)
        /\ Go(p, "create") /\ UNCHANGED <<guard, seen>>
     \/ /\ Held /\ file.token = seen[p].token
        /\ Go(p, "unlink") /\ UNCHANGED <<guard, seen>>
  /\ UNCHANGED <<machine, file, token, tokens>>

RemoveStale(p) ==
  /\ pc[p] = "unlink"
  /\ file' = NoFile
  /\ Go(p, "create")
  /\ UNCHANGED <<machine, guard, token, seen, tokens>>

(* Any system call of the critical section may fail: LockError. *)
AcquireFails(p) ==
  /\ "file" \in Failures /\ pc[p] \in {"create", "confirm", "unlink"}
  /\ Leave(p)
  /\ UNCHANGED <<machine, file, token, tokens>>

(* The link was made but the temporary file could not be unlinked: the     *)
(* caller is told the lock was not acquired, and the record stays.         *)
CreateLeaves(p) ==
  /\ "tempfile" \in Failures /\ pc[p] = "create"
  /\ file = NoFile
  /\ \E r \in Runs \cup {None} : file' = NewRecord(p, r)
  /\ tokens' = tokens + 1
  /\ Leave(p)
  /\ UNCHANGED <<machine, token>>

-----------------------------------------------------------------------------
(* bind_run_id *)

BeginBind(p) ==
  /\ p \in up /\ pc[p] = "idle" /\ token[p] # None
  /\ Go(p, "waitBind")
  /\ UNCHANGED <<machine, file, guard, token, seen, tokens>>

(* Mutant: a bound record may be bound again. *)
BindableAgain(p) == Held /\ file.token = token[p] /\ file.owner = ident[p]

(* The record must still be this process's, and not bound to a run yet.    *)
Bindable(p) ==
  Held /\ file.token = token[p] /\ file.owner = ident[p] /\ file.run = None

Bind(p) ==
  /\ pc[p] = "bind"
  /\ IF Bindable(p)
       THEN /\ seen' = [seen EXCEPT ![p] = file]
            /\ Go(p, "bindWrite")
            /\ UNCHANGED guard
       ELSE Leave(p)
  /\ UNCHANGED <<machine, file, token, tokens>>

(* Mutant: the record is built anew instead of copied. *)
BindWriteFresh(p) ==
  /\ pc[p] = "bindWrite"
  /\ \E r \in Runs : file' = NewRecord(p, r)
  /\ Leave(p)
  /\ UNCHANGED <<machine, token, tokens>>

(* rename(2) over the old record *)
BindWrite(p) ==
  /\ pc[p] = "bindWrite"
  /\ \/ \E r \in Runs : file' = [seen[p] EXCEPT !.run = r]
     \/ "file" \in Failures /\ UNCHANGED file
  /\ Leave(p)
  /\ UNCHANGED <<machine, token, tokens>>

-----------------------------------------------------------------------------
(* release *)

BeginRelease(p) ==
  /\ p \in up /\ pc[p] = "idle" /\ token[p] # None
  /\ Go(p, "waitRelease")
  /\ UNCHANGED <<machine, file, guard, token, seen, tokens>>

Forget(p) == token' = [token EXCEPT ![p] = None]

(* Absent or someone else's: nothing to release.  Malformed: keep the      *)
(* token, so that release can be called again.                             *)
Release(p) ==
  /\ pc[p] = "release"
  /\ \/ file = NoFile /\ Forget(p) /\ Leave(p)
     \/ file = Malformed /\ Leave(p) /\ UNCHANGED token
     \/ Held /\ file.token # token[p] /\ Forget(p) /\ Leave(p)
     \/ Held /\ file.token = token[p] /\ Go(p, "removeOwn") /\ UNCHANGED <<guard, token, seen>>
  /\ UNCHANGED <<machine, file, tokens>>

(* The token is forgotten only after the guard was left. *)
RemoveOwn(p) ==
  /\ pc[p] = "removeOwn"
  /\ file' = NoFile
  /\ guard' = None
  /\ Go(p, "forget")
  /\ UNCHANGED <<machine, token, seen, tokens>>

FinishRelease(p) ==
  /\ pc[p] = "forget"
  /\ Forget(p)
  /\ Go(p, "idle")
  /\ UNCHANGED <<machine, file, guard, seen, tokens>>

(* Mutant: a failed release forgets the token. *)
ReleaseFailsForgets(p) ==
  /\ "file" \in Failures /\ pc[p] \in {"release", "removeOwn"}
  /\ Forget(p)
  /\ Leave(p)
  /\ UNCHANGED <<machine, file, tokens>>

ReleaseFails(p) ==
  /\ "file" \in Failures /\ pc[p] \in {"release", "removeOwn"}
  /\ Leave(p)
  /\ UNCHANGED <<machine, file, token, tokens>>

-----------------------------------------------------------------------------
(* Someone removes or damages the file behind the program's back. *)
Tamper ==
  /\ Tampering
  /\ file' \in {NoFile, Malformed}
  /\ UNCHANGED <<machine, guard, pc, token, seen, tokens>>

Acquire(p) == EnterGuard(p) \/ GuardUnavailable(p) \/ Create(p) \/ Inspect(p) \/ Classify(p) \/ Confirm(p)
              \/ RemoveStale(p) \/ AcquireFails(p) \/ CreateLeaves(p)

BindOrRelease(p) == Bind(p) \/ BindWrite(p) \/ Release(p) \/ RemoveOwn(p)
                    \/ FinishRelease(p) \/ ReleaseFails(p)

Call(p) == BeginAcquire(p) \/ BeginBind(p) \/ BeginRelease(p)

Machine ==
  \/ \E p \in Procs : Spawn(p) \/ Die(p)
  \/ \E h \in Hosts : Reboot(h) \/ \E n \in Pids : StrangerStarts(h, n) \/ StrangerExits(h, n)

Next == Machine \/ Tamper \/ \E p \in Procs : Call(p) \/ Acquire(p) \/ BindOrRelease(p)

Spec == Init /\ [][Next]_vars

-----------------------------------------------------------------------------
(* Properties *)

TypeOK ==
  /\ boot \in [Hosts -> Nat]
  /\ clock \in [Hosts -> Nat]
  /\ table \in [Hosts -> [Pids -> Nat \cup {None}]]
  /\ ident \in [Procs -> Identities \cup {None}]
  /\ up \subseteq Procs
  /\ file \in Records \cup {NoFile, Malformed}
  /\ guard \in Procs \cup {None}
  /\ pc \in [Procs -> Steps]
  /\ token \in [Procs -> Nat \cup {None}]
  /\ seen \in [Procs -> Records \cup {NoFile}]
  /\ tokens \in Nat

(* A process between a successful acquire and the unlink of its release. *)
Holding(p) == p \in up /\ token[p] # None /\ pc[p] # "forget"

(* No two processes hold the repository lock at once, whoever recovers a   *)
(* stale lock, dies or reuses a PID in between.                            *)
MutualExclusion == \A p, q \in Procs : Holding(p) /\ Holding(q) => p = q

(* A holder's record is on disk with its token and identity: the file that *)
(* others inspect tells the truth about it.                                *)
HolderRecorded ==
  \A p \in Procs : Holding(p) => Held /\ file.token = token[p] /\ file.owner = ident[p]

(* The lock implements the abstract mutex: it is never taken over from a   *)
(* process that still holds it.                                            *)
Holder == IF \E p \in Procs : Holding(p) THEN CHOOSE p \in Procs : Holding(p) ELSE None

Abstract == INSTANCE Mutex WITH holder <- Holder

ImplementsMutex == Abstract!Spec

(* The identity a schema-2 record carries matches the machine exactly      *)
(* while its owner runs: neither a reused PID nor start ticks repeated     *)
(* after a reboot make a dead owner look alive, or a live one dead.        *)
IdentityIsLiveness ==
  Held /\ file.schema = 2 =>
    (IdentityMatches(file.owner, file.owner.host) <=> \E p \in up : ident[p] = file.owner)

(* Only the owner itself removes or rewrites the record of a live owner.   *)
LiveRecordKept ==
  [][file' # file =>
       \A p \in up : Held /\ file.owner = ident[p] => guard = p]_vars

(* A record is bound to a run once, and to no other run afterwards. *)
BoundOnce ==
  [][Held /\ Held' /\ file'.token = file.token =>
       file.run \in {None, file'.run}]_vars

(* A live process that holds nothing has left no record behind, which only *)
(* its death could free.                                                   *)
NothingLeftLocked ==
  \A p \in up : pc[p] = "idle" /\ token[p] = None /\ Held => file.owner # ident[p]

-----------------------------------------------------------------------------
(* A process inside a critical section runs on, and a waiter for the flock  *)
(* is not passed over forever.                                             *)
InSection(p) == pc[p] \in Guarded /\ (Acquire(p) \/ BindOrRelease(p))

Fairness == \A p \in Procs : WF_vars(InSection(p)) /\ SF_vars(EnterGuard(p))

FairSpec == Spec /\ Fairness

(* acquire() answers: it neither waits forever nor loops under the guard.  *)
AcquireReturns == \A p \in Procs : pc[p] = "waitAcquire" ~> pc[p] = "idle"
=============================================================================
