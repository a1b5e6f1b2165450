------------------------ MODULE SupervisorLock_proofs ------------------------
(***************************************************************************)
(* Proofs about the repository lock, for any number of processes, hosts,   *)
(* PIDs and boots and for every combination of failures.                   *)
(***************************************************************************)
EXTENDS SupervisorLock, TLAPS

(* An identity was issued in the past of its host. *)
Dated(i) ==
  i.boot < boot[i.host] \/ (i.boot = boot[i.host] /\ i.start < clock[i.host])

(* The process table tells the processes of the model apart: it shows the  *)
(* identity of those that run, and of no other one that ever ran.          *)
MachineInv ==
  /\ \A h \in Hosts : boot[h] >= 1
  /\ \A p \in Procs : ident[p] # None => Dated(ident[p])
  /\ \A p \in up : ident[p] # None /\ IdentityMatches(ident[p], ident[p].host)
  /\ \A p \in Procs \ up : ident[p] # None => ~IdentityMatches(ident[p], ident[p].host)
  /\ \A p, q \in up : ident[p].host = ident[q].host /\ ident[p].pid = ident[q].pid => p = q

AcquireSteps == {"waitAcquire", "create", "inspect", "classify", "confirm", "unlink"}

ReleaseSteps == {"waitRelease", "release", "removeOwn"}

ReadSteps == {"classify", "confirm", "unlink", "bindWrite"}

SectionInv ==
  \A p \in Procs :
    /\ p \notin up => pc[p] = "idle" /\ token[p] = None
    /\ pc[p] \in Guarded => guard = p
    /\ pc[p] \in AcquireSteps => token[p] = None
    /\ pc[p] \in ReleaseSteps => token[p] # None
    /\ pc[p] \in ReadSteps => seen[p] # NoFile

(* Schema-2 records carry the identity of a process of the model. *)
OwnerKnown(r) ==
  IF r.schema = 1 THEN r.owner.boot = 0 ELSE \E p \in Procs : ident[p] = r.owner

FileInv ==
  /\ Held => OwnerKnown(file)
  /\ \A p \in Procs : seen[p] # NoFile => OwnerKnown(seen[p])

(* What the guard protects, as long as nobody tampers with the file: what  *)
(* was read is what is there, and a record judged stale stays stale.       *)
OwnershipInv ==
  \A p \in Procs :
    /\ Holding(p) => Held /\ file.schema = 2 /\ file.token = token[p] /\ file.owner = ident[p]
    /\ pc[p] \in ReadSteps => seen[p] = file
    /\ pc[p] = "bindWrite" => file.owner = ident[p]
    /\ pc[p] = "classify" => file.owner.host = ident[p].host
    /\ pc[p] \in {"confirm", "unlink"} => \A q \in up : ident[q] # file.owner

LockInv == TypeOK /\ MachineInv /\ SectionInv /\ FileInv

IInv == LockInv /\ (~Tampering => OwnershipInv)

-----------------------------------------------------------------------------
(* The steps that leave the machine alone *)
ProgramStep == Tamper \/ \E p \in Procs : Call(p) \/ Acquire(p) \/ BindOrRelease(p)

(* Calls of the lock neither start nor stop a process. *)
LEMMA ProgramKeepsMachine == ProgramStep => UNCHANGED machine
BY DEF ProgramStep, Tamper, Call, Acquire, BindOrRelease, BeginAcquire, BeginBind,
   BeginRelease, EnterGuard, GuardUnavailable, Create, Inspect, Classify, Confirm,
   RemoveStale, AcquireFails, CreateLeaves, Bind, BindWrite, Release, RemoveOwn,
   FinishRelease, ReleaseFails

(* A start tick is not issued twice in one boot: the new process matches   *)
(* no older identity, and the older ones keep their verdict.               *)
LEMMA SpawnKeepsMachineInv ==
  ASSUME TypeOK, MachineInv, NEW p \in Procs, Spawn(p)
  PROVE  MachineInv'
<1> USE LockConstants, LockSentinels DEF TypeOK, Identities
<1>1. PICK h \in Hosts, n \in Pids :
        /\ table[h][n] = None
        /\ ident' = [ident EXCEPT ![p] = [host |-> h, boot |-> boot[h], pid |-> n,
                                         start |-> clock[h]]]
        /\ table' = [table EXCEPT ![h][n] = clock[h]]
        /\ clock' = [clock EXCEPT ![h] = @ + 1]
  BY DEF Spawn
<1>2. ident[p] = None /\ up' = up \cup {p} /\ boot' = boot /\ p \notin up
  BY DEF Spawn, MachineInv
<1>3. /\ ident'[p] = [host |-> h, boot |-> boot[h], pid |-> n, start |-> clock[h]]
      /\ ident'[p] \in Identities /\ ident'[p] # None
      /\ \A q \in Procs \ {p} : ident'[q] = ident[q]
  BY <1>1
<1>4. \A k \in Hosts : clock'[k] \in Nat /\ clock'[k] >= clock[k]
  BY <1>1
<1>5. \A q \in Procs : ident'[q] # None => Dated(ident[q])' 
  <2> SUFFICES ASSUME NEW q \in Procs, ident'[q] # None
               PROVE  Dated(ident[q])'
    OBVIOUS
  <2>1. CASE q = p
    BY <1>1, <1>2, <1>3, <2>1 DEF Dated
  <2>2. CASE q # p
    BY <1>2, <1>3, <1>4, <2>2 DEF Dated, MachineInv
  <2> QED BY <2>1, <2>2
<1>6. \A q \in Procs \ {p} : ident[q] # None =>
        (IdentityMatches(ident[q], ident[q].host)' <=> IdentityMatches(ident[q], ident[q].host))
  <2> SUFFICES ASSUME NEW q \in Procs \ {p}, ident[q] # None
               PROVE  IdentityMatches(ident[q], ident[q].host)' <=>
                        IdentityMatches(ident[q], ident[q].host)
    OBVIOUS
  <2>1. ident'[q] = ident[q] /\ ident[q] \in Identities
    BY <1>3
  <2>2. CASE ident[q].host = h /\ ident[q].pid = n
    <3>1. table'[h][n] = clock[h] /\ clock[h] \in Nat
      BY <1>1
    <3>2. ~IdentityMatches(ident[q], ident[q].host)
      BY <1>1, <2>1, <2>2 DEF IdentityMatches
    <3>3. ident[q].boot # boot[h] \/ ident[q].start # clock[h]
      BY <2>1, <2>2 DEF MachineInv, Dated
    <3> QED BY <1>2, <2>1, <2>2, <3>1, <3>2, <3>3 DEF IdentityMatches
  <2>3. CASE ident[q].host # h \/ ident[q].pid # n
    <3>1. table'[ident[q].host][ident[q].pid] = table[ident[q].host][ident[q].pid]
      BY <1>1, <2>1, <2>3
    <3> QED BY <1>2, <2>1, <3>1 DEF IdentityMatches
  <2> QED BY <2>2, <2>3
<1>7. IdentityMatches(ident[p], ident[p].host)'
  BY <1>1, <1>2, <1>3 DEF IdentityMatches
<1>8. \A q \in up : ident[q].host # h \/ ident[q].pid # n
  <2> SUFFICES ASSUME NEW q \in up, ident[q].host = h, ident[q].pid = n
               PROVE  FALSE
    OBVIOUS
  <2>1. ident[q] \in Identities /\ IdentityMatches(ident[q], h)
    BY DEF MachineInv
  <2> QED BY <1>1, <2>1 DEF IdentityMatches
<1>9. \A q, r \in up' : ident'[q].host = ident'[r].host /\ ident'[q].pid = ident'[r].pid => q = r
  BY <1>2, <1>3, <1>8 DEF MachineInv
<1>10. \A q \in up' : ident'[q] # None /\ IdentityMatches(ident[q], ident[q].host)'
  BY <1>2, <1>3, <1>6, <1>7 DEF MachineInv
<1>11. \A q \in Procs \ up' : ident'[q] # None => ~IdentityMatches(ident[q], ident[q].host)'
  BY <1>2, <1>3, <1>6 DEF MachineInv
<1> QED BY <1>2, <1>5, <1>9, <1>10, <1>11 DEF MachineInv

(* A dead process no longer matches the process table. *)
LEMMA DieKeepsMachineInv ==
  ASSUME TypeOK, MachineInv, NEW p \in Procs, Die(p)
  PROVE  MachineInv'
<1> USE LockConstants, LockSentinels DEF TypeOK, Identities
<1>1. /\ p \in up /\ up' = up \ {p} /\ ident' = ident /\ boot' = boot /\ clock' = clock
      /\ table' = [table EXCEPT ![ident[p].host][ident[p].pid] = None]
  BY DEF Die, Gone
<1>2. ident[p] \in Identities
  BY <1>1 DEF MachineInv
<1>3. \A q \in Procs \ {p} : ident[q] # None =>
        (IdentityMatches(ident[q], ident[q].host)' <=>
           IdentityMatches(ident[q], ident[q].host)
             /\ (ident[q].host # ident[p].host \/ ident[q].pid # ident[p].pid))
  <2> SUFFICES ASSUME NEW q \in Procs \ {p}, ident[q] # None
               PROVE  IdentityMatches(ident[q], ident[q].host)' <=>
                        IdentityMatches(ident[q], ident[q].host)
                          /\ (ident[q].host # ident[p].host \/ ident[q].pid # ident[p].pid)
    OBVIOUS
  <2>1. ident[q] \in Identities
    OBVIOUS
  <2>2. CASE ident[q].host # ident[p].host \/ ident[q].pid # ident[p].pid
    <3>1. table'[ident[q].host][ident[q].pid] = table[ident[q].host][ident[q].pid]
      BY <1>1, <1>2, <2>1, <2>2
    <3> QED BY <1>1, <2>2, <3>1 DEF IdentityMatches
  <2>3. CASE ident[q].host = ident[p].host /\ ident[q].pid = ident[p].pid
    <3>1. table'[ident[q].host][ident[q].pid] = None
      BY <1>1, <1>2, <2>3
    <3> QED BY <1>1, <2>1, <2>3, <3>1 DEF IdentityMatches
  <2> QED BY <2>2, <2>3
<1>4. ~IdentityMatches(ident[p], ident[p].host)'
  <2>1. table'[ident[p].host][ident[p].pid] = None
    BY <1>1, <1>2
  <2> QED BY <1>1, <1>2, <2>1 DEF IdentityMatches
<1>5. \A q \in up' : ident'[q] # None /\ IdentityMatches(ident[q], ident[q].host)'
  BY <1>1, <1>3 DEF MachineInv
<1>6. \A q \in Procs \ up' : ident'[q] # None => ~IdentityMatches(ident[q], ident[q].host)'
  BY <1>1, <1>3, <1>4 DEF MachineInv
<1> QED BY <1>1, <1>5, <1>6 DEF MachineInv, Dated

(* The new boot ID matches no identity of an earlier boot. *)
LEMMA RebootKeepsMachineInv ==
  ASSUME TypeOK, MachineInv, NEW h \in Hosts, Reboot(h)
  PROVE  MachineInv'
<1> USE LockConstants, LockSentinels DEF TypeOK, Identities
<1>1. /\ up' = up \ {p \in up : ident[p].host = h} /\ ident' = ident
      /\ boot' = [boot EXCEPT ![h] = @ + 1] /\ clock' = [clock EXCEPT ![h] = 1]
      /\ table' = [table EXCEPT ![h] = [n \in Pids |-> None]]
  BY DEF Reboot, Gone
<1>2. \A q \in Procs : ident[q] # None => Dated(ident[q])'
  <2> SUFFICES ASSUME NEW q \in Procs, ident[q] # None
               PROVE  Dated(ident[q])'
    OBVIOUS
  <2>1. ident[q] \in Identities /\ Dated(ident[q])
    BY DEF MachineInv
  <2> QED BY <1>1, <2>1 DEF Dated
<1>3. \A q \in Procs : ident[q] # None /\ ident[q].host = h =>
        ~IdentityMatches(ident[q], ident[q].host)'
  <2> SUFFICES ASSUME NEW q \in Procs, ident[q] # None, ident[q].host = h
               PROVE  ~IdentityMatches(ident[q], ident[q].host)'
    OBVIOUS
  <2>1. ident[q] \in Identities /\ Dated(ident[q])
    BY DEF MachineInv
  <2>2. ident[q].boot # boot'[h]
    BY <1>1, <2>1 DEF Dated
  <2> QED BY <1>1, <2>2 DEF IdentityMatches
<1>4. \A q \in Procs : ident[q] # None /\ ident[q].host # h =>
        (IdentityMatches(ident[q], ident[q].host)' <=> IdentityMatches(ident[q], ident[q].host))
  BY <1>1 DEF IdentityMatches
<1>5. \A q \in up' : ident'[q] # None /\ IdentityMatches(ident[q], ident[q].host)'
  BY <1>1, <1>4 DEF MachineInv
<1>6. \A q \in Procs \ up' : ident'[q] # None => ~IdentityMatches(ident[q], ident[q].host)'
  BY <1>1, <1>3, <1>4 DEF MachineInv
<1> QED BY <1>1, <1>2, <1>5, <1>6 DEF MachineInv

(* A process outside the model that reuses a PID has other start ticks. *)
LEMMA StrangerKeepsMachineInv ==
  ASSUME TypeOK, MachineInv, NEW h \in Hosts, NEW n \in Pids,
         StrangerStarts(h, n) \/ StrangerExits(h, n)
  PROVE  MachineInv'
<1> USE LockConstants, LockSentinels DEF TypeOK, Identities
<1>1. /\ up' = up /\ ident' = ident /\ boot' = boot
      /\ \/ /\ table[h][n] = None /\ table' = [table EXCEPT ![h][n] = clock[h]]
            /\ clock' = [clock EXCEPT ![h] = @ + 1]
         \/ table' = [table EXCEPT ![h][n] = None] /\ clock' = clock
  BY DEF StrangerStarts, StrangerExits
<1>2. \A q \in up : ident[q].host # h \/ ident[q].pid # n
  <2> SUFFICES ASSUME NEW q \in up, ident[q].host = h, ident[q].pid = n
               PROVE  FALSE
    OBVIOUS
  <2>1. table[h][n] = None
    BY DEF StrangerStarts, StrangerExits
  <2>2. ident[q] \in Identities /\ IdentityMatches(ident[q], h)
    BY DEF MachineInv
  <2> QED BY <2>1, <2>2 DEF IdentityMatches
<1>3. \A q \in Procs : ident[q] # None => Dated(ident[q])'
  <2> SUFFICES ASSUME NEW q \in Procs, ident[q] # None
               PROVE  Dated(ident[q])'
    OBVIOUS
  <2>1. ident[q] \in Identities /\ Dated(ident[q])
    BY DEF MachineInv
  <2> QED BY <1>1, <2>1 DEF Dated
<1>4. \A q \in Procs : ident[q] # None /\ (ident[q].host # h \/ ident[q].pid # n) =>
        (IdentityMatches(ident[q], ident[q].host)' <=> IdentityMatches(ident[q], ident[q].host))
  <2> SUFFICES ASSUME NEW q \in Procs, ident[q] # None, ident[q].host # h \/ ident[q].pid # n
               PROVE  IdentityMatches(ident[q], ident[q].host)' <=>
                        IdentityMatches(ident[q], ident[q].host)
    OBVIOUS
  <2>1. table'[ident[q].host][ident[q].pid] = table[ident[q].host][ident[q].pid]
    BY <1>1
  <2> QED BY <1>1, <2>1 DEF IdentityMatches
<1>5. \A q \in Procs : ident[q] # None /\ ident[q].host = h /\ ident[q].pid = n =>
        ~IdentityMatches(ident[q], ident[q].host)'
  <2> SUFFICES ASSUME NEW q \in Procs, ident[q] # None, ident[q].host = h, ident[q].pid = n
               PROVE  ~IdentityMatches(ident[q], ident[q].host)'
    OBVIOUS
  <2>1. ident[q] \in Identities /\ Dated(ident[q])
    BY DEF MachineInv
  <2>2. table'[h][n] \in {None, clock[h]} /\ clock[h] \in Nat
    BY <1>1
  <2> QED BY <1>1, <2>1, <2>2 DEF IdentityMatches, Dated
<1>6. \A q \in up' : ident'[q] # None /\ IdentityMatches(ident[q], ident[q].host)'
  BY <1>1, <1>2, <1>4 DEF MachineInv
<1>7. \A q \in Procs \ up' : ident'[q] # None => ~IdentityMatches(ident[q], ident[q].host)'
  BY <1>1, <1>4, <1>5 DEF MachineInv
<1> QED BY <1>1, <1>3, <1>6, <1>7 DEF MachineInv

(* Every step keeps the machine invariant. *)
LEMMA MachineInvStep ==
  ASSUME TypeOK, MachineInv, [Next]_vars
  PROVE  MachineInv'
<1>1. CASE UNCHANGED machine
  BY <1>1 DEF machine, MachineInv, Dated, IdentityMatches
<1>2. CASE Machine
  BY <1>2, SpawnKeepsMachineInv, DieKeepsMachineInv, RebootKeepsMachineInv,
     StrangerKeepsMachineInv DEF Machine
<1>3. CASE ProgramStep
  BY <1>1, <1>3, ProgramKeepsMachine
<1>4. CASE UNCHANGED vars
  BY <1>1, <1>4 DEF vars
<1> QED BY <1>2, <1>3, <1>4 DEF Next, ProgramStep

-----------------------------------------------------------------------------
(* Type correctness and the shape of the critical sections *)

(* Dying and rebooting keep every variable in its type. *)
LEMMA GoneTypes ==
  ASSUME TypeOK, NEW dead, Gone(dead)
  PROVE  /\ up' \subseteq Procs /\ guard' \in Procs \cup {None}
         /\ pc' \in [Procs -> Steps]
         /\ token' \in [Procs -> Nat \cup {None}]
         /\ seen' \in [Procs -> Records \cup {NoFile}]
         /\ ident' = ident /\ file' = file /\ tokens' = tokens
BY DEF Gone, TypeOK, Steps

(* So do the other steps of the machine. *)
LEMMA MachineKeepsTypes ==
  ASSUME TypeOK, MachineInv, Machine
  PROVE  TypeOK'
<1> USE LockConstants DEF TypeOK, Identities
<1>1. ASSUME NEW p \in Procs, Spawn(p) PROVE TypeOK'
  <2>1. /\ UNCHANGED <<boot, file, guard, pc, token, seen, tokens>>
        /\ up' = up \cup {p}
    BY <1>1 DEF Spawn
  <2>2. PICK h \in Hosts, n \in Pids :
          /\ ident' = [ident EXCEPT ![p] = [host |-> h, boot |-> boot[h], pid |-> n,
                                           start |-> clock[h]]]
          /\ table' = [table EXCEPT ![h][n] = clock[h]]
          /\ clock' = [clock EXCEPT ![h] = @ + 1]
    BY <1>1 DEF Spawn
  <2> QED BY <2>1, <2>2
<1>2. ASSUME NEW p \in Procs, Die(p) PROVE TypeOK'
  <2>1. /\ table' = [table EXCEPT ![ident[p].host][ident[p].pid] = None]
        /\ UNCHANGED <<boot, clock>> /\ Gone({p})
    BY <1>2 DEF Die
  <2> QED BY <2>1, GoneTypes
<1>3. ASSUME NEW h \in Hosts, Reboot(h) PROVE TypeOK'
  <2>1. /\ boot' = [boot EXCEPT ![h] = @ + 1] /\ clock' = [clock EXCEPT ![h] = 1]
        /\ table' = [table EXCEPT ![h] = [n \in Pids |-> None]]
        /\ Gone({p \in up : ident[p].host = h})
    BY <1>3 DEF Reboot
  <2> QED BY <2>1, GoneTypes
<1>4. ASSUME NEW h \in Hosts, NEW n \in Pids, StrangerStarts(h, n) \/ StrangerExits(h, n)
      PROVE  TypeOK'
  <2>1. UNCHANGED <<boot, ident, up, file, guard, pc, token, seen, tokens>>
    BY <1>4 DEF StrangerStarts, StrangerExits
  <2>2. CASE StrangerStarts(h, n)
    BY <2>1, <2>2 DEF StrangerStarts
  <2>3. CASE StrangerExits(h, n)
    BY <2>1, <2>3 DEF StrangerExits
  <2> QED BY <1>4, <2>2, <2>3
<1> QED BY <1>1, <1>2, <1>3, <1>4 DEF Machine

(* The record acquire writes is well formed and names its own process. *)
LEMMA NewRecordType ==
  ASSUME TypeOK, MachineInv, SectionInv,
         NEW p \in Procs, pc[p] = "create", NEW r \in Runs \cup {None}
  PROVE  /\ NewRecord(p, r) \in Records
         /\ NewRecord(p, r).schema = 2 /\ NewRecord(p, r).owner = ident[p]
         /\ NewRecord(p, r).token = tokens + 1 /\ NewRecord(p, r).run = r
<1>1. ident[p] \in Identities
  BY DEF TypeOK, MachineInv, SectionInv
<1> QED BY <1>1 DEF NewRecord, Records, TypeOK

(* acquire, bind_run_id and release keep the types, since they use only a *)
(* record they have read.                                                  *)
LEMMA ProgramKeepsTypes ==
  ASSUME TypeOK, MachineInv, SectionInv, ProgramStep
  PROVE  TypeOK'
<1>1. UNCHANGED machine
  BY ProgramKeepsMachine
<1> DEFINE ProgramTypes ==
               /\ file' \in Records \cup {NoFile, Malformed}
               /\ guard' \in Procs \cup {None}
               /\ pc' \in [Procs -> Steps]
               /\ token' \in [Procs -> Nat \cup {None}]
               /\ seen' \in [Procs -> Records \cup {NoFile}]
               /\ tokens' \in Nat
<1>2. SUFFICES ProgramTypes
  BY <1>1 DEF machine, TypeOK
<1> USE DEF TypeOK, Steps, Guarded, Go, Leave, Forget, Held
<1>3. CASE Tamper
  BY <1>3 DEF Tamper
<1>4. ASSUME NEW p \in Procs, Call(p) PROVE ProgramTypes
  BY <1>4 DEF Call, BeginAcquire, BeginBind, BeginRelease
<1>5. ASSUME NEW p \in Procs, Create(p) \/ CreateLeaves(p) PROVE ProgramTypes
  <2>1. CASE Create(p)
    BY <2>1, NewRecordType DEF Create
  <2>2. CASE CreateLeaves(p)
    BY <2>2, NewRecordType DEF CreateLeaves
  <2> QED BY <1>5, <2>1, <2>2
<1>6. ASSUME NEW p \in Procs, BindWrite(p) PROVE ProgramTypes
  <2>1. seen[p] \in Records
    BY <1>6 DEF BindWrite, SectionInv, ReadSteps
  <2>2. \A r \in Runs : [seen[p] EXCEPT !.run = r] \in Records
    BY <2>1 DEF Records
  <2> QED BY <1>6, <2>2 DEF BindWrite
<1>7. ASSUME NEW p \in Procs, EnterGuard(p) \/ GuardUnavailable(p) PROVE ProgramTypes
  BY <1>7 DEF EnterGuard, GuardUnavailable
<1>8. ASSUME NEW p \in Procs, Inspect(p) \/ Classify(p) \/ Confirm(p) PROVE ProgramTypes
  BY <1>8 DEF Inspect, Classify, Confirm
<1>9. ASSUME NEW p \in Procs, RemoveStale(p) \/ AcquireFails(p) PROVE ProgramTypes
  BY <1>9 DEF RemoveStale, AcquireFails
<1>10. ASSUME NEW p \in Procs, Bind(p) PROVE ProgramTypes
  BY <1>10 DEF Bind, Bindable
<1>11. ASSUME NEW p \in Procs,
              Release(p) \/ RemoveOwn(p) \/ FinishRelease(p) \/ ReleaseFails(p)
       PROVE ProgramTypes
  BY <1>11 DEF Release, RemoveOwn, FinishRelease, ReleaseFails
<1> QED BY <1>3, <1>4, <1>5, <1>6, <1>7, <1>8, <1>9, <1>10, <1>11
        DEF ProgramStep, Acquire, BindOrRelease

(* Every step keeps the types. *)
LEMMA TypeStep ==
  ASSUME TypeOK, MachineInv, SectionInv, [Next]_vars
  PROVE  TypeOK'
<1>1. CASE UNCHANGED vars
  BY <1>1 DEF vars, machine, TypeOK
<1> QED BY <1>1, MachineKeepsTypes, ProgramKeepsTypes DEF Next, ProgramStep

(* A process that stops leaves the section it was in; the others do not    *)
(* notice.                                                                 *)
LEMMA GoneKeepsSections ==
  ASSUME TypeOK, SectionInv, NEW dead, Gone(dead)
  PROVE  SectionInv'
BY LockSentinels DEF Gone, TypeOK, SectionInv, Guarded, AcquireSteps, ReleaseSteps, ReadSteps

(* Every step keeps the order of acquire, bind_run_id and release. *)
LEMMA SectionStep ==
  ASSUME TypeOK, SectionInv, [Next]_vars
  PROVE  SectionInv'
<1> USE LockSentinels, LockFileSentinels
    DEF TypeOK, SectionInv, Guarded, AcquireSteps, ReleaseSteps, ReadSteps,
        Go, Leave, Forget, Held, machine
<1>1. CASE UNCHANGED vars
  BY <1>1 DEF vars
<1>2. CASE Machine
  <2>1. CASE \E dead \in SUBSET up : Gone(dead)
    BY <2>1, GoneKeepsSections
  <2>2. CASE UNCHANGED <<guard, pc, token, seen>> /\ up \subseteq up'
    BY <2>2
  <2> QED BY <1>2, <2>1, <2>2 DEF Machine, Spawn, Die, Reboot, StrangerStarts, StrangerExits
<1>3. CASE Tamper
  BY <1>3 DEF Tamper
<1>4. ASSUME NEW p \in Procs, Call(p) PROVE SectionInv'
  BY <1>4 DEF Call, BeginAcquire, BeginBind, BeginRelease
<1>5. ASSUME NEW p \in Procs, Create(p) \/ CreateLeaves(p) PROVE SectionInv'
  BY <1>5 DEF Create, CreateLeaves
<1>6. ASSUME NEW p \in Procs, Bind(p) \/ BindWrite(p) PROVE SectionInv'
  BY <1>6 DEF Bind, Bindable, BindWrite
<1>7. ASSUME NEW p \in Procs, EnterGuard(p) \/ GuardUnavailable(p) PROVE SectionInv'
  BY <1>7 DEF EnterGuard, GuardUnavailable
<1>8. ASSUME NEW p \in Procs, Inspect(p) \/ Classify(p) \/ Confirm(p) PROVE SectionInv'
  <2>1. CASE Inspect(p)
    BY <2>1 DEF Inspect
  <2>2. CASE Classify(p)
    BY <2>2 DEF Classify
  <2>3. CASE Confirm(p)
    BY <2>3 DEF Confirm
  <2> QED BY <1>8, <2>1, <2>2, <2>3
<1>9. ASSUME NEW p \in Procs, RemoveStale(p) \/ AcquireFails(p) PROVE SectionInv'
  BY <1>9 DEF RemoveStale, AcquireFails
<1>10. ASSUME NEW p \in Procs,
              Release(p) \/ RemoveOwn(p) \/ FinishRelease(p) \/ ReleaseFails(p)
       PROVE SectionInv'
  <2>1. CASE Release(p)
    BY <2>1 DEF Release
  <2>2. CASE RemoveOwn(p)
    BY <2>2 DEF RemoveOwn
  <2>3. CASE FinishRelease(p)
    BY <2>3 DEF FinishRelease
  <2>4. CASE ReleaseFails(p)
    BY <2>4 DEF ReleaseFails
  <2> QED BY <1>10, <2>1, <2>2, <2>3, <2>4
<1> QED BY <1>1, <1>2, <1>3, <1>4, <1>5, <1>6, <1>7, <1>8, <1>9, <1>10
        DEF Next, Acquire, BindOrRelease

-----------------------------------------------------------------------------
(* What the lock file says *)

(* A process keeps the identity it started with. *)
LEMMA IdentitiesStay ==
  ASSUME TypeOK, [Next]_vars, NEW p \in Procs, ident[p] # None
  PROVE  ident'[p] = ident[p]
<1>1. CASE \E q \in Procs : Spawn(q)
  <2>1. PICK q \in Procs : ident[q] = None /\ \E i : ident' = [ident EXCEPT ![q] = i]
    BY <1>1 DEF Spawn
  <2> QED BY <2>1 DEF TypeOK
<1>2. CASE UNCHANGED ident
  BY <1>2
<1>3. Next => UNCHANGED ident \/ \E q \in Procs : Spawn(q)
  BY ProgramKeepsMachine
     DEF Next, ProgramStep, Machine, machine, Die, Reboot, Gone, StrangerStarts, StrangerExits
<1> QED BY <1>1, <1>2, <1>3 DEF vars, machine

(* A record that names a process of the model goes on naming it. *)
LEMMA OwnerStaysKnown ==
  ASSUME TypeOK, [Next]_vars, NEW r \in Records, OwnerKnown(r)
  PROVE  OwnerKnown(r)'
BY IdentitiesStay, LockSentinels DEF OwnerKnown, Records, Identities

(* Where the contents of the file and of a process's copy come from *)
LEMMA FileOrigins ==
  ASSUME TypeOK, SectionInv, [Next]_vars
  PROVE  /\ \/ file' \in {file, NoFile, Malformed}
            \/ \E p \in Procs, r \in Runs \cup {None} :
                 pc[p] = "create" /\ file' = NewRecord(p, r)
            \/ \E p \in Procs, r \in Runs :
                 seen[p] # NoFile /\ file' = [seen[p] EXCEPT !.run = r]
         /\ \A p \in Procs : seen'[p] \in {seen[p], NoFile} \/ (Held /\ seen'[p] = file)
<1> USE DEF TypeOK, Go, Leave, Held
<1> DEFINE Origins == /\ file' \in {file, NoFile, Malformed}
                      /\ \A p \in Procs : seen'[p] \in {seen[p], NoFile}
                                            \/ (Held /\ seen'[p] = file)
<1>1. CASE UNCHANGED vars
  BY <1>1 DEF vars
<1>2. CASE Machine
  BY <1>2 DEF Machine, Spawn, Die, Reboot, Gone, StrangerStarts, StrangerExits
<1>3. CASE Tamper
  BY <1>3 DEF Tamper
<1>4. ASSUME NEW p \in Procs, Call(p) PROVE Origins
  BY <1>4 DEF Call, BeginAcquire, BeginBind, BeginRelease
<1>5. CASE \E p \in Procs : Create(p) \/ CreateLeaves(p)
  BY <1>5 DEF Create, CreateLeaves
<1>6. CASE \E p \in Procs : BindWrite(p)
  BY <1>6 DEF BindWrite, SectionInv, ReadSteps
<1>7. ASSUME NEW p \in Procs, EnterGuard(p) \/ GuardUnavailable(p) PROVE Origins
  BY <1>7 DEF EnterGuard, GuardUnavailable
<1>8. ASSUME NEW p \in Procs, Inspect(p) \/ Classify(p) \/ Confirm(p) PROVE Origins
  BY <1>8 DEF Inspect, Classify, Confirm
<1>9. ASSUME NEW p \in Procs, RemoveStale(p) \/ AcquireFails(p) PROVE Origins
  BY <1>9 DEF RemoveStale, AcquireFails
<1>10. ASSUME NEW p \in Procs, Bind(p) PROVE Origins
  BY <1>10 DEF Bind, Bindable
<1>11. ASSUME NEW p \in Procs,
              Release(p) \/ RemoveOwn(p) \/ FinishRelease(p) \/ ReleaseFails(p)
       PROVE  Origins
  BY <1>11 DEF Release, RemoveOwn, FinishRelease, ReleaseFails
<1> QED BY <1>1, <1>2, <1>3, <1>4, <1>5, <1>6, <1>7, <1>8, <1>9, <1>10, <1>11
        DEF Next, Acquire, BindOrRelease

(* Every record on disk or read from it names a process of the model. *)
LEMMA FileStep ==
  ASSUME LockInv, [Next]_vars
  PROVE  FileInv'
<1> USE DEF LockInv
<1>1. file \in Records \cup {NoFile, Malformed} /\ \A p \in Procs : seen[p] \in Records \cup {NoFile}
  BY DEF TypeOK
<1>2. Held' => OwnerKnown(file)'
  <2>1. CASE file' \in {file, NoFile, Malformed}
    BY <1>1, <2>1, OwnerStaysKnown DEF Held, FileInv
  <2>2. ASSUME NEW p \in Procs, NEW r \in Runs \cup {None},
               pc[p] = "create", file' = NewRecord(p, r)
        PROVE  OwnerKnown(file)'
    <3>1. ident[p] # None
      BY <2>2 DEF SectionInv, MachineInv
    <3>2. ident'[p] = ident[p]
      BY <3>1, IdentitiesStay
    <3> QED BY <2>2, <3>2, NewRecordType DEF OwnerKnown
  <2>3. ASSUME NEW p \in Procs, NEW r \in Runs,
               seen[p] # NoFile, file' = [seen[p] EXCEPT !.run = r]
        PROVE  OwnerKnown(file)'
    <3>1. PICK old \in Records : old = seen[p]
      BY <1>1, <2>3
    <3>2. OwnerKnown(old)'
      BY <2>3, <3>1, OwnerStaysKnown DEF FileInv
    <3>3. file'.schema = old.schema /\ file'.owner = old.owner
      BY <2>3, <3>1 DEF Records
    <3> QED BY <3>2, <3>3 DEF OwnerKnown
  <2> QED BY <2>1, <2>2, <2>3, FileOrigins
<1>3. \A p \in Procs : seen'[p] # NoFile => OwnerKnown(seen[p])'
  BY <1>1, FileOrigins, OwnerStaysKnown DEF FileInv, Held
<1> QED BY <1>2, <1>3 DEF FileInv

-----------------------------------------------------------------------------
(* Ownership *)

(* Two holders would both be the owner the file names. *)
LEMMA OneHolder ==
  ASSUME LockInv, OwnershipInv
  PROVE  MutualExclusion
BY DEF LockInv, MachineInv, OwnershipInv, MutualExclusion, Holding

(* Identities are not issued twice. *)
LEMMA FreshIdentity ==
  ASSUME TypeOK, MachineInv, NEW p \in Procs, Spawn(p), NEW r \in Records, OwnerKnown(r)
  PROVE  ident'[p] # r.owner
<1>1. PICK h \in Hosts, n \in Pids :
        ident' = [ident EXCEPT ![p] = [host |-> h, boot |-> boot[h], pid |-> n,
                                       start |-> clock[h]]]
  BY DEF Spawn
<1>2. /\ ident'[p].host = h /\ ident'[p].boot = boot[h] /\ ident'[p].start = clock[h]
      /\ boot[h] \in Nat /\ boot[h] >= 1 /\ clock[h] \in Nat
  BY <1>1 DEF TypeOK, MachineInv
<1>3. CASE r.schema = 1
  BY <1>2, <1>3 DEF OwnerKnown
<1>4. CASE r.schema # 1
  <2>1. PICK q \in Procs : ident[q] = r.owner
    BY <1>4 DEF OwnerKnown
  <2>2. r.owner \in Identities /\ Dated(r.owner)
    BY <2>1, LockSentinels DEF Records, MachineInv, Identities
  <2> QED BY <1>2, <2>2 DEF Dated, Identities
<1> QED BY <1>3, <1>4

(* What a process read in its critical section is still on disk. *)
LEMMA ReadIsHeld ==
  ASSUME LockInv, OwnershipInv, NEW p \in Procs, pc[p] \in ReadSteps
  PROVE  file \in Records /\ seen[p] = file /\ OwnerKnown(file)
BY LockFileSentinels DEF LockInv, TypeOK, SectionInv, FileInv, OwnershipInv, Held

(* While a process is inside, no other one is past its own EnterGuard. *)
LEMMA Alone ==
  ASSUME SectionInv, NEW p \in Procs, pc[p] \in Guarded, NEW q \in Procs, pc[q] \in Guarded
  PROVE  p = q
BY DEF SectionInv

(* Starts, deaths, reboots and reused PIDs keep the ownership invariant. *)
LEMMA MachineKeepsOwnership ==
  ASSUME LockInv, OwnershipInv, Machine
  PROVE  OwnershipInv'
<1> USE DEF Holding, Held, ReadSteps
<1>1. ASSUME NEW p \in Procs, Spawn(p) PROVE OwnershipInv'
  <2>1. /\ UNCHANGED <<file, pc, token, seen>> /\ up' = up \cup {p} /\ ident[p] = None
        /\ up \subseteq Procs /\ p \notin up /\ pc[p] = "idle" /\ token[p] = None
    BY <1>1 DEF Spawn, LockInv, TypeOK, MachineInv, SectionInv
  <2>2. \A q \in Procs \ {p} : ident'[q] = ident[q]
    BY <1>1 DEF Spawn, LockInv, TypeOK
  <2>3. \A q \in Procs : pc[q] \in ReadSteps => ident'[p] # file.owner
    BY <1>1, ReadIsHeld, FreshIdentity DEF LockInv
  <2> QED BY <2>1, <2>2, <2>3 DEF OwnershipInv
<1>2. ASSUME NEW dead, Gone(dead) PROVE OwnershipInv'
  BY <1>2 DEF Gone, OwnershipInv
<1>3. ASSUME NEW h \in Hosts, NEW n \in Pids, StrangerStarts(h, n) \/ StrangerExits(h, n)
      PROVE  OwnershipInv'
  BY <1>3 DEF StrangerStarts, StrangerExits, OwnershipInv
<1> QED BY <1>1, <1>2, <1>3 DEF Machine, Die, Reboot

(* The steps of the program keep it, if nobody tampers with the file. *)
LEMMA ProgramKeepsOwnership ==
  ASSUME LockInv, OwnershipInv, ~Tampering, ProgramStep
  PROVE  OwnershipInv'
<1> USE LockSentinels, LockFileSentinels
    DEF LockInv, OwnershipInv, Holding, Held, ReadSteps, Go, Leave, Forget, Guarded
<1>1. UNCHANGED machine
  BY ProgramKeepsMachine
<1>2. /\ file \in Records \cup {NoFile, Malformed} /\ guard \in Procs \cup {None}
      /\ pc \in [Procs -> Steps] /\ token \in [Procs -> Nat \cup {None}]
      /\ seen \in [Procs -> Records \cup {NoFile}] /\ tokens \in Nat
  BY DEF TypeOK
<1>3. UNCHANGED <<up, ident>>
  BY <1>1 DEF machine
<1>4. ASSUME NEW p \in Procs, Call(p) PROVE OwnershipInv'
  BY <1>2, <1>3, <1>4 DEF Call, BeginAcquire, BeginBind, BeginRelease
<1>5. ASSUME NEW p \in Procs, Create(p) PROVE OwnershipInv'
  <2>1. CASE file # NoFile
    BY <1>2, <1>3, <1>5, <2>1 DEF Create
  <2>2. CASE file = NoFile
    <3>1. /\ pc[p] = "create" /\ p \in up
          /\ \A q \in Procs : ~Holding(q) /\ (q # p => pc[q] \notin Guarded)
      BY <1>5, <2>2, Alone DEF Create, SectionInv
    <3>2. PICK r \in Runs \cup {None} : file' = NewRecord(p, r)
      BY <1>5, <2>2 DEF Create
    <3>3. /\ file' \in Records /\ file'.schema = 2 /\ file'.owner = ident[p]
          /\ file'.token = tokens + 1
      BY <3>1, <3>2, NewRecordType
    <3>4. /\ token' = [token EXCEPT ![p] = tokens + 1] /\ pc' = [pc EXCEPT ![p] = "idle"]
          /\ seen' = [seen EXCEPT ![p] = NoFile]
      BY <1>5, <2>2 DEF Create
    <3> QED BY <1>2, <1>3, <3>1, <3>3, <3>4
  <2> QED BY <2>1, <2>2
<1>6. ASSUME NEW p \in Procs, CreateLeaves(p) PROVE OwnershipInv'
  <2>1. /\ pc[p] = "create" /\ file = NoFile
        /\ \A q \in Procs : ~Holding(q) /\ (q # p => pc[q] \notin Guarded)
    BY <1>6, Alone DEF CreateLeaves
  <2>2. UNCHANGED token /\ pc' = [pc EXCEPT ![p] = "idle"]
    BY <1>6 DEF CreateLeaves
  <2> QED BY <1>2, <1>3, <2>1, <2>2
<1>7. ASSUME NEW p \in Procs, EnterGuard(p) \/ GuardUnavailable(p) PROVE OwnershipInv'
  BY <1>2, <1>3, <1>7 DEF EnterGuard, GuardUnavailable
<1>8. ASSUME NEW p \in Procs, Inspect(p) PROVE OwnershipInv'
  BY <1>2, <1>3, <1>8 DEF Inspect, SectionInv, AcquireSteps
<1>9. ASSUME NEW p \in Procs, Classify(p) PROVE OwnershipInv'
  <2>1. CASE pc'[p] = "confirm"
    <3>1. pc[p] = "classify" /\ HolderStale(seen[p], ident[p].host) /\ p \in up
      BY <1>2, <1>9, <2>1 DEF Classify, SectionInv
    <3>2. file \in Records /\ seen[p] = file /\ OwnerKnown(file) /\ file.owner.host = ident[p].host
      BY <3>1, ReadIsHeld
    <3>3. \A q \in up : ident[q] # file.owner
      <4>1. CASE file.schema = 1
        BY <3>2, <4>1 DEF OwnerKnown, TypeOK, MachineInv, IdentityMatches, Identities
      <4>2. CASE file.schema # 1
        BY <3>1, <3>2, <4>2 DEF HolderStale, MachineInv
      <4> QED BY <4>1, <4>2
    <3>4. UNCHANGED <<file, token, seen>> /\ pc' = [pc EXCEPT ![p] = "confirm"]
      BY <1>2, <1>9, <2>1 DEF Classify
    <3> QED BY <1>2, <1>3, <3>1, <3>2, <3>3, <3>4
  <2>2. CASE pc'[p] # "confirm"
    BY <1>2, <1>3, <1>9, <2>2 DEF Classify
  <2> QED BY <2>1, <2>2
<1>10. ASSUME NEW p \in Procs, Confirm(p) PROVE OwnershipInv'
  BY <1>2, <1>3, <1>10 DEF Confirm
<1>11. ASSUME NEW p \in Procs, RemoveStale(p) PROVE OwnershipInv'
  <2>1. /\ pc[p] = "unlink" /\ pc' = [pc EXCEPT ![p] = "create"] /\ UNCHANGED token
        /\ \A q \in Procs : ~Holding(q) /\ (q # p => pc[q] \notin Guarded)
    BY <1>11, Alone DEF RemoveStale
  <2> QED BY <1>2, <1>3, <2>1
<1>12. ASSUME NEW p \in Procs, AcquireFails(p) PROVE OwnershipInv'
  BY <1>2, <1>3, <1>12 DEF AcquireFails, SectionInv, AcquireSteps
<1>13. ASSUME NEW p \in Procs, Bind(p) PROVE OwnershipInv'
  BY <1>2, <1>3, <1>13 DEF Bind, Bindable
<1>14. ASSUME NEW p \in Procs, BindWrite(p) PROVE OwnershipInv'
  <2>1. /\ pc[p] = "bindWrite" /\ file \in Records /\ seen[p] = file
        /\ \A q \in Procs : q # p => pc[q] \notin Guarded
    BY <1>14, ReadIsHeld, Alone DEF BindWrite
  <2>2. /\ file' \in Records /\ file'.schema = file.schema
        /\ file'.token = file.token /\ file'.owner = file.owner
    BY <1>14, <2>1 DEF BindWrite, Records
  <2>3. UNCHANGED token /\ pc' = [pc EXCEPT ![p] = "idle"]
    BY <1>14 DEF BindWrite
  <2> QED BY <1>2, <1>3, <2>1, <2>2, <2>3
<1>15. ASSUME NEW p \in Procs, RemoveOwn(p) PROVE OwnershipInv'
  <2>1. /\ pc[p] = "removeOwn" /\ Holding(p)
        /\ \A q \in Procs : q # p => pc[q] \notin Guarded
    BY <1>15, Alone DEF RemoveOwn, SectionInv, ReleaseSteps
  <2>2. \A q \in Procs : q # p => ~Holding(q)
    BY <2>1, OneHolder DEF MutualExclusion
  <2>3. UNCHANGED token /\ pc' = [pc EXCEPT ![p] = "forget"]
    BY <1>15 DEF RemoveOwn
  <2> QED BY <1>2, <1>3, <2>1, <2>2, <2>3
<1>16. ASSUME NEW p \in Procs, Release(p) \/ FinishRelease(p) \/ ReleaseFails(p)
       PROVE  OwnershipInv'
  BY <1>2, <1>3, <1>16 DEF Release, FinishRelease, ReleaseFails
<1>17. ~Tamper
  BY DEF Tamper
<1> QED BY <1>4, <1>5, <1>6, <1>7, <1>8, <1>9, <1>10, <1>11, <1>12, <1>13, <1>14,
           <1>15, <1>16, <1>17 DEF ProgramStep, Acquire, BindOrRelease

-----------------------------------------------------------------------------
(* The inductive invariant *)

(* It holds before the first process starts, *)
LEMMA InitIInv == Init => IInv
<1> SUFFICES ASSUME Init PROVE IInv
  OBVIOUS
<1> USE LockSentinels, LockFileSentinels DEF Init
<1>1. TypeOK
  BY DEF TypeOK, Records, Identities, Steps
<1>2. MachineInv
  BY DEF MachineInv
<1>3. SectionInv
  BY DEF SectionInv, Guarded, AcquireSteps, ReleaseSteps, ReadSteps
<1>4. FileInv
  BY DEF FileInv, Held, OwnerKnown
<1>5. OwnershipInv
  BY DEF OwnershipInv, Holding, ReadSteps
<1> QED BY <1>1, <1>2, <1>3, <1>4, <1>5 DEF IInv, LockInv

(* and every step keeps it. *)
LEMMA IInvStep ==
  ASSUME IInv, [Next]_vars
  PROVE  IInv'
<1>1. LockInv'
  BY TypeStep, MachineInvStep, SectionStep, FileStep DEF IInv, LockInv
<1>2. ASSUME ~Tampering PROVE OwnershipInv'
  <2>1. CASE UNCHANGED vars
    BY <1>2, <2>1 DEF IInv, vars, machine, OwnershipInv, Holding, Held
  <2> QED BY <1>2, <2>1, MachineKeepsOwnership, ProgramKeepsOwnership
          DEF IInv, Next, ProgramStep
<1> QED BY <1>1, <1>2 DEF IInv

(* The inductive invariant holds in every reachable state: the machine,    *)
(* the sections and the lock file agree with each other.                   *)
THEOREM Invariance == Spec => []IInv
BY InitIInv, IInvStep, PTL DEF Spec

-----------------------------------------------------------------------------
(* Binding and leaving nothing behind *)

(* What bind_run_id checked is still so when it writes, unless the file    *)
(* was taken away from under it.                                           *)
BindInv ==
  \A p \in Procs : pc[p] = "bindWrite" =>
    /\ token[p] # None
    /\ seen[p].token = token[p] /\ seen[p].owner = ident[p] /\ seen[p].run = None
    /\ Held => file = seen[p]

(* The record of a running process belongs to a holder: with its token and *)
(* until its release.                                                      *)
OwnInv ==
  \A p \in up : Held /\ file.owner = ident[p] => Holding(p) /\ file.token = token[p]

(* A process about to write its run ID has just checked the record, or     *)
(* waits there while the others change nothing it relies on.               *)
LEMMA BindWriteWaits ==
  ASSUME TypeOK, SectionInv, [Next]_vars,
         NEW p \in Procs, pc'[p] = "bindWrite", ~Bind(p)
  PROVE  /\ pc[p] = "bindWrite" /\ p \in up
         /\ seen'[p] = seen[p] /\ token'[p] = token[p]
         /\ file' \in {file, NoFile, Malformed}
<1> DEFINE Waits == /\ pc[p] = "bindWrite"
                    /\ seen'[p] = seen[p] /\ token'[p] = token[p]
                    /\ file' \in {file, NoFile, Malformed}
<1> USE DEF TypeOK, Go, Leave, Forget, Guarded, machine
<1>1. ASSUME UNCHANGED vars PROVE Waits
  BY <1>1 DEF vars
<1>2. ASSUME Machine PROVE Waits
  BY <1>2 DEF Machine, Spawn, Die, Reboot, Gone, StrangerStarts, StrangerExits
<1>3. ASSUME Tamper PROVE Waits
  BY <1>3 DEF Tamper
<1>4. ASSUME NEW q \in Procs, Call(q) PROVE Waits
  BY <1>4 DEF Call, BeginAcquire, BeginBind, BeginRelease
<1>5. ASSUME NEW q \in Procs, Create(q) \/ CreateLeaves(q) PROVE Waits
  <2>1. pc[q] = "create" /\ pc'[q] # "bindWrite"
    BY <1>5 DEF Create, CreateLeaves
  <2>2. pc'[p] = pc[p]
    BY <1>5, <2>1 DEF Create, CreateLeaves
  <2> QED BY <2>1, <2>2, Alone
<1>6. ASSUME NEW q \in Procs, BindWrite(q) PROVE Waits
  <2>1. pc[q] = "bindWrite" /\ pc'[q] = "idle" /\ (q # p => pc'[p] = pc[p])
    BY <1>6 DEF BindWrite
  <2> QED BY <2>1, Alone
<1>7. ASSUME NEW q \in Procs, EnterGuard(q) \/ GuardUnavailable(q) PROVE Waits
  BY <1>7 DEF EnterGuard, GuardUnavailable
<1>8. ASSUME NEW q \in Procs, Inspect(q) \/ Classify(q) \/ Confirm(q) PROVE Waits
  BY <1>8 DEF Inspect, Classify, Confirm
<1>9. ASSUME NEW q \in Procs, RemoveStale(q) \/ AcquireFails(q) PROVE Waits
  BY <1>9 DEF RemoveStale, AcquireFails
<1>10. ASSUME NEW q \in Procs, Bind(q) PROVE Waits
  BY <1>10 DEF Bind
<1>11. ASSUME NEW q \in Procs,
              Release(q) \/ RemoveOwn(q) \/ FinishRelease(q) \/ ReleaseFails(q)
       PROVE  Waits
  BY <1>11 DEF Release, RemoveOwn, FinishRelease, ReleaseFails
<1>12. Waits
  BY <1>1, <1>2, <1>3, <1>4, <1>5, <1>6, <1>7, <1>8, <1>9, <1>10, <1>11
     DEF Next, Acquire, BindOrRelease
<1> QED BY <1>12 DEF SectionInv

(* So nothing that bind_run_id checked is forgotten before it writes. *)
LEMMA BindStep ==
  ASSUME LockInv, BindInv, [Next]_vars
  PROVE  BindInv'
<1> SUFFICES ASSUME NEW p \in Procs, pc'[p] = "bindWrite"
             PROVE  /\ token'[p] # None
                    /\ seen'[p].token = token'[p] /\ seen'[p].owner = ident'[p]
                    /\ seen'[p].run = None
                    /\ Held' => file' = seen'[p]
  BY DEF BindInv
<1> USE DEF LockInv
<1>1. CASE Bind(p)
  <2>1. Bindable(p) /\ seen'[p] = file /\ UNCHANGED <<ident, file, token>>
    BY <1>1 DEF Bind, Go, Leave, machine, TypeOK
  <2> QED BY <2>1, LockSentinels DEF Bindable, TypeOK, Held, Records
<1>2. CASE ~Bind(p)
  <2>1. /\ pc[p] = "bindWrite" /\ p \in up
        /\ seen'[p] = seen[p] /\ token'[p] = token[p]
        /\ file' \in {file, NoFile, Malformed}
    BY <1>2, BindWriteWaits
  <2>2. ident'[p] = ident[p]
    BY <2>1, IdentitiesStay DEF MachineInv
  <2> QED BY <2>1, <2>2 DEF BindInv, Held
<1> QED BY <1>1, <1>2

(* What changes the lock file *)
LEMMA FileChanges ==
  ASSUME [Next]_vars, file' # file
  PROVE  \/ Tamper
         \/ \E p \in Procs : Create(p) \/ CreateLeaves(p) \/ RemoveStale(p)
                               \/ BindWrite(p) \/ RemoveOwn(p)
BY DEF Next, vars, Machine, Spawn, Die, Reboot, Gone, StrangerStarts, StrangerExits,
   Call, BeginAcquire, BeginBind, BeginRelease, Acquire, EnterGuard, GuardUnavailable,
   Inspect, Classify, Confirm, AcquireFails, BindOrRelease, Bind, Release, FinishRelease,
   ReleaseFails

(* A record is only ever replaced by a copy bound to a run. *)
LEMMA Rewritten ==
  ASSUME LockInv, BindInv, [Next]_vars, file' # file, Held, Held'
  PROVE  \E p \in Procs : BindWrite(p) /\ file = seen[p] /\ file.run = None
                            /\ file.token = token[p] /\ file.owner = ident[p]
                            /\ file'.token = file.token /\ file'.owner = file.owner
<1>1. ~Tamper
  BY DEF Tamper, Held
<1>2. PICK p \in Procs : Create(p) \/ CreateLeaves(p) \/ RemoveStale(p)
                           \/ BindWrite(p) \/ RemoveOwn(p)
  BY <1>1, FileChanges
<1>3. BindWrite(p)
  BY <1>2 DEF Create, CreateLeaves, RemoveStale, RemoveOwn, Held
<1>4. /\ pc[p] = "bindWrite" /\ file = seen[p] /\ file.run = None
      /\ file.token = token[p] /\ file.owner = ident[p]
  BY <1>3 DEF BindWrite, BindInv
<1>5. file \in Records
  BY DEF LockInv, TypeOK, Held
<1>6. PICK r \in Runs : file' = [file EXCEPT !.run = r]
  BY <1>3, <1>4 DEF BindWrite
<1>7. file'.token = file.token /\ file'.owner = file.owner
  BY <1>5, <1>6 DEF Records
<1> QED BY <1>3, <1>4, <1>7

(* While the record stays, its holder keeps the token, and does not reach  *)
(* the end of a release.                                                   *)
LEMMA HolderStays ==
  ASSUME TypeOK, SectionInv, [Next]_vars, NEW p \in Procs, p \in up',
         Holding(p), Held, file' = file, file.token = token[p]
  PROVE  token'[p] = token[p] /\ pc'[p] # "forget"
<1> USE LockSentinels DEF TypeOK, Go, Leave, Forget, Holding, Held, machine
<1>1. CASE UNCHANGED vars
  BY <1>1 DEF vars
<1> DEFINE Stays == token'[p] = token[p] /\ pc'[p] # "forget"
<1>2. ASSUME Machine PROVE Stays
  <2>1. ASSUME NEW dead, Gone(dead) PROVE Stays
    BY <2>1 DEF Gone
  <2>2. UNCHANGED <<pc, token>> \/ \E dead : Gone(dead)
    BY <1>2 DEF Machine, Spawn, Die, Reboot, StrangerStarts, StrangerExits
  <2> QED BY <2>1, <2>2
<1>3. ASSUME Tamper PROVE Stays
  BY <1>3 DEF Tamper
<1>4. ASSUME NEW q \in Procs, Call(q) PROVE Stays
  BY <1>4 DEF Call, BeginAcquire, BeginBind, BeginRelease
<1>5. ASSUME NEW q \in Procs, Create(q) \/ CreateLeaves(q) PROVE Stays
  BY <1>5 DEF Create, CreateLeaves
<1>6. ASSUME NEW q \in Procs, Bind(q) \/ BindWrite(q) PROVE Stays
  BY <1>6 DEF Bind, BindWrite
<1>7. ASSUME NEW q \in Procs, EnterGuard(q) \/ GuardUnavailable(q) PROVE Stays
  BY <1>7 DEF EnterGuard, GuardUnavailable
<1>8. ASSUME NEW q \in Procs, Inspect(q) \/ Classify(q) \/ Confirm(q) PROVE Stays
  BY <1>8 DEF Inspect, Classify, Confirm
<1>9. ASSUME NEW q \in Procs, RemoveStale(q) \/ AcquireFails(q) PROVE Stays
  BY <1>9 DEF RemoveStale, AcquireFails
<1>10. ASSUME NEW q \in Procs, Release(q) PROVE Stays
  BY <1>10 DEF Release
<1>11. ASSUME NEW q \in Procs, RemoveOwn(q) PROVE Stays
  BY <1>11 DEF RemoveOwn
<1>12. ASSUME NEW q \in Procs, FinishRelease(q) \/ ReleaseFails(q) PROVE Stays
  BY <1>12 DEF FinishRelease, ReleaseFails
<1> QED BY <1>1, <1>2, <1>3, <1>4, <1>5, <1>6, <1>7, <1>8, <1>9, <1>10, <1>11, <1>12
        DEF Next, Acquire, BindOrRelease

(* A new process has an identity no record carries. *)
LEMMA SpawnLeavesOwn ==
  ASSUME LockInv, OwnInv, NEW p \in Procs, Spawn(p)
  PROVE  OwnInv'
<1> USE DEF LockInv
<1>1. /\ UNCHANGED <<file, pc, token>> /\ up' = up \cup {p}
      /\ \A q \in up : q \in Procs /\ q # p /\ ident'[q] = ident[q]
  BY DEF Spawn, TypeOK, MachineInv
<1>2. Held => ident'[p] # file.owner
  BY FreshIdentity DEF Held, TypeOK, FileInv
<1> QED BY <1>1, <1>2 DEF OwnInv, Held, Holding

(* A creation tells its caller, and a release removes the record before it *)
(* forgets the token: as long as a created file can be finished, no step   *)
(* leaves a record its running owner does not know of.                     *)
LEMMA OwnStep ==
  ASSUME "tempfile" \notin Failures, LockInv, BindInv, OwnInv, [Next]_vars
  PROVE  OwnInv'
<1> USE DEF LockInv
<1>1. CASE \E p \in Procs : Spawn(p)
  BY <1>1, SpawnLeavesOwn
<1>2. ASSUME ~ \E p \in Procs : Spawn(p),
             NEW p \in up', Held', file'.owner = ident'[p]
      PROVE  Holding(p)' /\ file'.token = token'[p]
  <2>1. p \in up /\ UNCHANGED ident
    BY <1>2, ProgramKeepsMachine DEF Next, ProgramStep, Machine, Die, Reboot, Gone,
       StrangerStarts, StrangerExits, vars, machine
  <2>2. p \in Procs
    BY <2>1 DEF TypeOK
  <2>3. CASE file' = file
    <3>1. Holding(p) /\ file.token = token[p]
      BY <1>2, <2>1, <2>3 DEF OwnInv, Held
    <3>2. token'[p] = token[p] /\ pc'[p] # "forget"
      BY <1>2, <2>2, <2>3, <3>1, HolderStays DEF Held
    <3> QED BY <1>2, <2>3, <3>1, <3>2 DEF Holding
  <2>4. CASE file' # file /\ Held
    <3>1. PICK q \in Procs :
            /\ BindWrite(q) /\ file.token = token[q] /\ file.owner = ident[q]
            /\ file'.token = file.token /\ file'.owner = file.owner
      BY <1>2, <2>4, Rewritten
    <3>2. Holding(p) /\ file.token = token[p]
      BY <1>2, <2>1, <2>4, <3>1 DEF OwnInv
    <3>3. UNCHANGED token /\ pc'[p] # "forget"
      BY <2>2, <3>1, <3>2 DEF BindWrite, Leave, Go, Holding, TypeOK
    <3> QED BY <1>2, <3>1, <3>2, <3>3 DEF Holding
  <2>5. CASE file' # file /\ ~Held
    <3>1. PICK q \in Procs : Create(q) \/ BindWrite(q)
      BY <1>2, <2>5, FileChanges DEF Held, Tamper, CreateLeaves, RemoveStale, RemoveOwn
    <3>2. CASE Create(q)
      <4>1. PICK r \in Runs \cup {None} : file' = NewRecord(q, r)
        BY <2>5, <3>2 DEF Create
      <4>2. /\ token' = [token EXCEPT ![q] = tokens + 1] /\ pc' = [pc EXCEPT ![q] = "idle"]
            /\ pc[q] = "create" /\ tokens \in Nat /\ q \in up
        BY <2>5, <3>2 DEF Create, Leave, Go, TypeOK, SectionInv
      <4>3. file'.owner = ident[q] /\ file'.token = tokens + 1
        BY <4>1, <4>2, NewRecordType
      <4>4. p = q
        BY <1>2, <2>1, <4>2, <4>3 DEF MachineInv
      <4> QED BY <1>2, <2>2, <4>2, <4>3, <4>4, LockSentinels DEF Holding, TypeOK
    <3>3. CASE BindWrite(q)
      <4>1. /\ pc[q] = "bindWrite" /\ q \in up /\ seen[q] \in Records
            /\ seen[q].token = token[q] /\ seen[q].owner = ident[q] /\ token[q] # None
        BY <3>3 DEF BindWrite, BindInv, SectionInv, ReadSteps, TypeOK
      <4>2. PICK r \in Runs : file' = [seen[q] EXCEPT !.run = r]
        BY <2>5, <3>3 DEF BindWrite
      <4>3. file'.token = token[q] /\ file'.owner = ident[q]
        BY <4>1, <4>2 DEF Records
      <4>4. p = q
        BY <1>2, <2>1, <4>1, <4>3 DEF MachineInv
      <4>5. UNCHANGED token /\ pc'[q] = "idle"
        BY <3>3 DEF BindWrite, Leave, Go, TypeOK
      <4> QED BY <1>2, <4>1, <4>3, <4>4, <4>5 DEF Holding
    <3> QED BY <3>1, <3>2, <3>3
  <2> QED BY <2>3, <2>4, <2>5
<1> QED BY <1>1, <1>2 DEF OwnInv

-----------------------------------------------------------------------------
(* Results *)

(* The variables of the lock stay in their types: acquire, bind_run_id and *)
(* release never work on a record they have not read and validated.        *)
THEOREM Typing == Spec => []TypeOK
<1>1. IInv => TypeOK
  BY DEF IInv, LockInv
<1> QED BY <1>1, Invariance, PTL

(* At most one process holds the lock, through any stale-lock recovery,    *)
(* PID reuse, reboot, crash or failing system call, as long as nobody      *)
(* tampers with the lock file.                                             *)
THEOREM Exclusion == ASSUME ~Tampering PROVE Spec => []MutualExclusion
<1>1. IInv => MutualExclusion
  BY OneHolder DEF IInv
<1> QED BY <1>1, Invariance, PTL

(* What the file says about a holder is true. *)
THEOREM Recording == ASSUME ~Tampering PROVE Spec => []HolderRecorded
<1>1. IInv => HolderRecorded
  BY DEF IInv, OwnershipInv, HolderRecorded
<1> QED BY <1>1, Invariance, PTL

(* Boot ID, PID and start ticks together identify the live owner of a      *)
(* record, whoever else uses its PID, before or after a reboot, and even   *)
(* when the file is tampered with.                                         *)
THEOREM IdentityVerdict == Spec => []IdentityIsLiveness
<1>1. ASSUME IInv, Held, file.schema = 2
      PROVE  IdentityMatches(file.owner, file.owner.host) <=> \E p \in up : ident[p] = file.owner
  <2>1. file \in Records /\ up \subseteq Procs
    BY <1>1 DEF IInv, LockInv, TypeOK, Held
  <2>2. PICK p \in Procs : ident[p] = file.owner
    BY <1>1 DEF IInv, LockInv, FileInv, OwnerKnown
  <2>3. file.owner # None
    BY <2>1, LockSentinels DEF Records, Identities
  <2> QED BY <1>1, <2>1, <2>2, <2>3 DEF IInv, LockInv, MachineInv
<1>2. IInv => IdentityIsLiveness
  BY <1>1 DEF IdentityIsLiveness
<1> QED BY <1>2, Invariance, PTL

(* The record of a live owner is removed or rewritten by nobody else, with *)
(* --recover-stale-lock or without.                                        *)
THEOREM Keeping == ASSUME ~Tampering PROVE Spec => LiveRecordKept
<1>1. ASSUME IInv, [Next]_vars, file' # file, NEW p \in up, Held, file.owner = ident[p]
      PROVE  guard = p
  <2> USE DEF IInv, LockInv, OwnershipInv, SectionInv
  <2>1. up \subseteq Procs
    BY <1>1 DEF TypeOK
  <2>2. ASSUME NEW q \in up, file.owner = ident[q] PROVE q = p
    <3>1. ident[q].host = ident[p].host /\ ident[q].pid = ident[p].pid
      BY <1>1, <2>2
    <3>2. MachineInv
      BY <1>1
    <3> QED BY <3>1, <3>2 DEF MachineInv
  <2>3. PICK q \in Procs : Create(q) \/ CreateLeaves(q) \/ RemoveStale(q) \/ BindWrite(q) \/ RemoveOwn(q)
    BY <1>1, FileChanges DEF Tamper
  <2>4. ~Create(q) /\ ~CreateLeaves(q)
    BY <1>1 DEF Create, CreateLeaves, Held
  <2>5. ~RemoveStale(q)
    BY <1>1 DEF RemoveStale
  <2>6. CASE BindWrite(q)
    <3>1. q \in up /\ file.owner = ident[q] /\ guard = q
      BY <1>1, <2>6 DEF BindWrite, Guarded
    <3> QED BY <2>2, <3>1
  <2>7. CASE RemoveOwn(q)
    <3>1. Holding(q) /\ guard = q
      BY <1>1, <2>7 DEF RemoveOwn, Guarded, ReleaseSteps, Holding
    <3>2. q \in up /\ file.owner = ident[q]
      BY <1>1, <3>1 DEF Holding
    <3> QED BY <2>2, <3>1, <3>2
  <2> QED BY <2>3, <2>4, <2>5, <2>6, <2>7
<1>2. IInv /\ [Next]_vars => [file' # file => \A p \in up : Held /\ file.owner = ident[p] => guard = p]_vars
  BY <1>1
<1> QED BY <1>2, Invariance, PTL DEF Spec, LiveRecordKept

(* A record bound to a run stays bound to it: bind_run_id never binds a    *)
(* record twice, even when the file is tampered with between its read and  *)
(* its write.                                                              *)
THEOREM Binding == Spec => BoundOnce
<1>1. Init => BindInv
  BY DEF Init, BindInv
<1>2. IInv /\ BindInv /\ [Next]_vars => BindInv'
  BY BindStep DEF IInv
<1>3. ASSUME IInv, BindInv, [Next]_vars, file' # file, Held, Held'
      PROVE  file.run = None
  BY <1>3, Rewritten DEF IInv
<1>4. IInv /\ BindInv /\ [Next]_vars =>
        [Held /\ Held' /\ file'.token = file.token => file.run \in {None, file'.run}]_vars
  BY <1>3
<1> QED BY <1>1, <1>2, <1>4, Invariance, PTL DEF Spec, BoundOnce

(* A running process that was told it holds nothing has left no record     *)
(* with its own identity, as long as the temporary file of a creation can  *)
(* be removed: no acquire of its own or of others is refused because of it.*)
THEOREM NothingLeft == ASSUME "tempfile" \notin Failures PROVE Spec => []NothingLeftLocked
<1>1. Init => BindInv /\ OwnInv
  BY DEF Init, BindInv, OwnInv
<1>2. IInv /\ BindInv /\ OwnInv /\ [Next]_vars => BindInv' /\ OwnInv'
  BY BindStep, OwnStep DEF IInv
<1>3. OwnInv => NothingLeftLocked
  BY DEF OwnInv, NothingLeftLocked, Holding
<1> QED BY <1>1, <1>2, <1>3, Invariance, PTL DEF Spec

(* Who holds the lock after a step held it before, or took it from nobody. *)
LEMMA NewHolder ==
  ASSUME IInv, ~Tampering, [Next]_vars, NEW p \in Procs, Holding(p)', ~Holding(p),
         NEW q \in Procs
  PROVE  ~Holding(q)
<1> USE DEF Holding, Go, Leave, Forget
<1>1. CASE Machine
  <2>1. p \in up \/ token[p] = None
    BY DEF IInv, LockInv, SectionInv
  <2>2. CASE UNCHANGED <<pc, token>>
    BY <2>1, <2>2
  <2>3. ASSUME NEW dead \in SUBSET up, Gone(dead) PROVE FALSE
    BY <2>3 DEF Gone
  <2>4. UNCHANGED <<pc, token>> \/ \E dead \in SUBSET up : Gone(dead)
    BY <1>1 DEF Machine, Spawn, Die, Reboot, StrangerStarts, StrangerExits
  <2> QED BY <2>2, <2>3, <2>4
<1>2. CASE UNCHANGED vars
  BY <1>2 DEF vars, machine
<1>3. CASE ProgramStep
  <2>1. up' = up
    BY <1>3, ProgramKeepsMachine DEF machine
  <2>2. pc \in [Procs -> Steps] /\ token \in [Procs -> Nat \cup {None}]
    BY DEF IInv, LockInv, TypeOK
  <2>3. \A r \in Procs : ~Call(r) /\ ~BindOrRelease(r)
    BY <2>1, <2>2 DEF Call, BeginAcquire, BeginBind, BeginRelease, BindOrRelease, Bind,
       BindWrite,
       Release, RemoveOwn, FinishRelease, ReleaseFails
  <2>4. PICK r \in Procs : Create(r) /\ file = NoFile
    BY <1>3, <2>1, <2>2, <2>3 DEF ProgramStep, Tamper, Acquire, EnterGuard, GuardUnavailable,
       Create,
       Inspect, Classify, Confirm, RemoveStale, AcquireFails, CreateLeaves
  <2> QED BY <2>4 DEF IInv, OwnershipInv, Held
<1> QED BY <1>1, <1>2, <1>3 DEF Next, ProgramStep

(* The lock refines the abstract mutex: it passes from a holder to another *)
(* process only through a state in which nobody holds it.                  *)
THEOREM Refinement == ASSUME ~Tampering PROVE Spec => ImplementsMutex
<1>1. Init => Abstract!Init
  BY DEF Init, Abstract!Init, Holder, Holding
<1>2. ASSUME IInv, MutualExclusion, MutualExclusion', [Next]_vars
      PROVE  [Abstract!Next]_Holder
  <2>1. \A p \in Procs : Holding(p) => Holder = p
    BY <1>2 DEF Holder, MutualExclusion
  <2>2. \A p \in Procs : Holding(p)' => Holder' = p
    BY <1>2 DEF Holder, MutualExclusion
  <2>3. (\A p \in Procs : ~Holding(p)) => Holder = None
    BY DEF Holder
  <2>4. (\A p \in Procs : ~Holding(p)') => Holder' = None
    BY DEF Holder
  <2>5. CASE \A p \in Procs : ~Holding(p)'
    BY <2>1, <2>3, <2>4, <2>5 DEF Abstract!Next, Abstract!GiveUp
  <2>6. ASSUME NEW p \in Procs, Holding(p)' PROVE [Abstract!Next]_Holder
    <3>1. CASE Holding(p)
      BY <2>1, <2>2, <2>6, <3>1
    <3>2. CASE ~Holding(p)
      <4>1. \A q \in Procs : ~Holding(q)
        BY <1>2, <2>6, <3>2, NewHolder
      <4> QED BY <2>2, <2>3, <2>6, <4>1 DEF Abstract!Next, Abstract!Take
    <3> QED BY <3>1, <3>2
  <2> QED BY <2>5, <2>6
<1> QED BY <1>1, <1>2, Invariance, Exclusion, PTL DEF Spec, ImplementsMutex, Abstract!Spec
=============================================================================
