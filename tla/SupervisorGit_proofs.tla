-------------------------- MODULE SupervisorGit_proofs --------------------------
(***************************************************************************)
(* What the documents of a run know of Git: which commits a merge has      *)
(* brought, that the worktree is as the last save saw it, what the         *)
(* decision records contain, and that a task is merged once.               *)
(*                                                                         *)
(* GInv is inductive together with IInv of Supervisor_proofs.  Most steps  *)
(* leave Git alone and keep the fields that GInv is about (Held): they are *)
(* proved once, as Quietly, and every other step of the run is named in    *)
(* GitActions, with a lemma of its own.                                    *)
(***************************************************************************)
EXTENDS Supervisor_proofs

USE DEF BetweenSaves

-----------------------------------------------------------------------------
(* Commits and merges *)

(* the integration branch has the commit on its first-parent chain *)
Published(commit) == \E i \in DOMAIN integ : integ[i].id = commit

(* Ids are given out once, in order: what a document or Git names is old,  *)
(* and the commits of a task branch come after its base.                   *)
IdsOK ==
  /\ \A i \in DOMAIN integ :
       /\ integ[i].id < nextId
       /\ integ[i].second # None => integ[i].second < nextId
  /\ \A t \in Tasks : branch[t] # None =>
       /\ branch[t].base < nextId
       /\ \A k \in DOMAIN branch[t].log : branch[t].base < branch[t].log[k]
                                          /\ branch[t].log[k] < nextId

(* A merge of a commit still on a task branch has brought all the commits  *)
(* up to it.                                                               *)
MergesBring ==
  \A i \in DOMAIN integ, t \in Tasks :
    branch[t] # None =>
      \A k \in DOMAIN branch[t].log :
        branch[t].log[k] = integ[i].second =>
          \A j \in 1..k : branch[t].log[j] \in integ[i].brings

(* what a document d claims of Git, whatever was done to its worktree *)
ClaimsOK(d) ==
  /\ Published(d.integrationHead)
  /\ d.intent # None /\ d.intent.base # None => d.intent.base < nextId
  /\ EffectivePhase(d) = "cleanup_branch" =>
       /\ tree = None
       /\ "leftover" \notin Faults /\ branch[d.worktree.task] # None =>
            Commits(branch[d.worktree.task]) \subseteq Integrated

(* a built task has a worktree and a commit of its own *)
AheadOK(d) ==
  EffectivePhase(d) \in PostBuildPhases =>
    d.worktree # None /\ (tree # None => branch[tree.task].log # <<>>)

(* Unless someone worked in it since the last save, the worktree is as the *)
(* document on disk says, but for the decision file being recorded.        *)
DiskMatches ==
  disk # None /\ disk.worktree # None /\ ~touched
    /\ EffectivePhase(disk) \in RetryTargetPhases \ CleanupPhases =>
       /\ tree # None
       /\ TaskHead = disk.expectedHead
       /\ \/ Snapshot = disk.snapshot
          \/ /\ EffectivePhase(disk) = "recording_decision"
             /\ disk.adr \in tree.adrs \ disk.snapshot.untracked
             /\ Snapshot = [disk.snapshot EXCEPT !.untracked = @ \cup {disk.adr}]

-----------------------------------------------------------------------------
(* Decision records *)

(* the decision files that a document d saw uncommitted, and the one it is *)
(* about to write                                                          *)
Noted(d) == IF d.snapshot = None THEN {} ELSE d.snapshot.untracked

Due(d) == IF EffectivePhase(d) = "recording_decision" THEN {d.adr} ELSE {}

NumbersUnique(S) == \A a, b \in S : a.number = b.number => a = b

ApprovedOK(S) == RequireApproval => \A a \in S : a.content \in approved

GitRecordsOK ==
  /\ ApprovedOK(IntegrationAdrs) /\ NumbersUnique(IntegrationAdrs)
  /\ tree # None => ApprovedOK(tree.adrs) /\ IntegrationAdrs \subseteq tree.adrs \ tree.untracked

(* the decision that a document d is about is approved and has a number of *)
(* its own, and a built task has committed its decisions                   *)
RecordsOK(d) ==
  /\ ApprovedOK({d.adr} \ {None})
  /\ tree # None =>
       /\ NumbersUnique(tree.adrs \cup Due(d))
       /\ EffectivePhase(d) \in PostBuildPhases => tree.untracked = {}

(* what a saved document d has seen may be put back by the operator *)
SavedOK(d) ==
  /\ ApprovedOK(Noted(d))
  /\ Noted(d) \cap IntegrationAdrs = {}
  /\ NumbersUnique(Noted(d) \cup Due(d) \cup (IF tree = None THEN {} ELSE tree.adrs))
  /\ EffectivePhase(d) \in PostBuildPhases =>
       /\ Noted(d) = {}
       /\ tree # None => branch[tree.task].base < d.expectedHead

-----------------------------------------------------------------------------
(* One merge for each task *)

Merges == {i \in DOMAIN integ : integ[i].second # None}

(* merges of a commit that is still on a task branch *)
Unfinished ==
  {i \in Merges : \E t \in Tasks : branch[t] # None /\ integ[i].second \in Commits(branch[t])}

(* the merges are those a document d has counted, or one more: that of the *)
(* commit it means to merge                                                *)
CountOK(d) ==
  \/ /\ Cardinality(Merges) = d.accepted
     /\ Unfinished = {}
     /\ EffectivePhase(d) \notin CleanupPhases
  \/ /\ Cardinality(Merges) = d.accepted + 1
     /\ EffectivePhase(d) \in MergePhases
     /\ \E i \in Merges : integ[i].second = d.mergeTask /\ d.mergeTask \in integ[i].brings

-----------------------------------------------------------------------------
(* The invariant *)

Knows(d) == ClaimsOK(d) /\ AheadOK(d) /\ RecordsOK(d) /\ CountOK(d)

GInv ==
  /\ IdsOK /\ MergesBring /\ GitRecordsOK
  /\ mem # None => Knows(mem)
  /\ IF disk = None THEN Merges = {} ELSE Knows(disk) /\ SavedOK(disk) /\ DiskMatches

(* Unless a session is left behind, nothing moves the branch between the   *)
(* checks of a cleanup and the removal they allow.                         *)
CleanupOK ==
  "leftover" \notin Faults =>
    /\ session = None
    /\ pc \in {"validated", "inspected"} => CleanupSafe

-----------------------------------------------------------------------------
(* Most steps leave Git alone and rewrite only what the phases say to each *)
(* other: such a step is quiet.                                            *)

Held == {"intent", "worktree", "expectedHead", "snapshot", "integrationHead", "adr", "accepted"}

(* a document s in place of the one in memory, at the same phase *)
Stays(s) ==
  /\ EffectivePhase(s) = EffectivePhase(mem)
  /\ s.lastHead = mem.lastHead /\ s.verification = mem.verification /\ s.mergeTask = mem.mergeTask

(* back to, or on with, the phases before a task is built *)
Leaves(s) ==
  /\ EffectivePhase(mem) \notin MergePhases
  /\ EffectivePhase(s) \notin PostBuildPhases \cup {"recording_decision"}

(* on to the next of the phases after it *)
Built(s) ==
  /\ EffectivePhase(mem) = "building" /\ EffectivePhase(s) \in {"verifying", "auditing"}
  /\ CleanTree /\ branch[tree.task].log # <<>> /\ s.lastHead = TaskHead
  /\ VerifyConfigured => EffectivePhase(s) = "verifying"

Verified(s) ==
  /\ EffectivePhase(mem) = "verifying" /\ EffectivePhase(s) = "auditing"
  /\ s.lastHead = mem.lastHead /\ s.verification = TaskHead

Accepted(s) ==
  /\ EffectivePhase(mem) = "auditing" /\ EffectivePhase(s) = "merging" /\ pc = "agent"
  /\ s.lastHead = mem.lastHead /\ s.verification = mem.verification
  /\ s.mergeTask = TaskHead /\ audited \in reviewed'

Adopted(s) ==
  /\ EffectivePhase(mem) = "merging" /\ EffectivePhase(s) = "cleanup_worktree"
  /\ s.lastHead = mem.lastHead /\ s.verification = mem.verification /\ s.mergeTask = mem.mergeTask
  /\ MergeIntentStands /\ \E i \in DOMAIN integ : integ[i].second = mem.mergeTask

Moves(s) == Stays(s) \/ Leaves(s) \/ Built(s) \/ Verified(s) \/ Accepted(s) \/ Adopted(s)

(* a transition or a pause with s in memory; a save of s (which leaves a    *)
(* document there); a death                                                *)
Ends(s) ==
  \/ mem' = s /\ UNCHANGED <<disk, touched>>
  \/ /\ disk' = Checkpoint(s) /\ mem' \in {Checkpoint(s), None} /\ touched' = FALSE
     /\ ~CheckpointFails(s) /\ (pc' = "down" => disk' # None \/ tree # None)
  \/ mem' = None /\ UNCHANGED <<disk, touched>>

Quietly == \E s : SameBut(mem, s, Fields \ Held) /\ Moves(s) /\ Ends(s)

LEMMA FieldsOf ==
  ASSUME NEW d \in Documents
  PROVE  d = [f \in Fields |-> d[f]] /\ SameBut(d, d, Fields \ Held)
  BY DEF Documents, Fields, SameBut

LEMMA QuietMove ==
  ASSUME NEW s, SameBut(mem, s, Fields \ Held), Moves(s), Transition(s)
  PROVE  Quietly
<1>1. Ends(s)
  BY DEF Transition, Control, Ends
<1> QED
  BY <1>1 DEF Quietly

LEMMA QuietDie ==
  ASSUME mem \in Documents, Die
  PROVE  Quietly
<1>1. Stays(mem)
  BY DEF Stays
<1>2. Ends(mem)
  BY DEF Die, Control, Ends
<1> QED
  BY <1>1, <1>2, FieldsOf DEF Quietly, Moves

(* the record of a failure, in a document s *)
Wrapped(s, failed, repair) ==
  [s EXCEPT !.phase = "operational_failure",
            !.error = [failed |-> failed, retryable |-> TRUE, repair |-> repair]]

LEMMA WrappedFields ==
  ASSUME NEW s, SameBut(mem, s, Fields \ Held), NEW failed, NEW repair,
         NEW w, w = Wrapped(s, failed, repair)
  PROVE  /\ SameBut(mem, w, Fields \ Held) /\ EffectivePhase(w) = failed
         /\ w.lastHead = s.lastHead /\ w.verification = s.verification
         /\ w.mergeTask = s.mergeTask
<1>1. /\ w = [f \in Fields |-> w[f]] /\ \A f \in Fields \ {"phase", "error"} : w[f] = s[f]
      /\ w.phase = "operational_failure" /\ w.error.failed = failed
  BY DEF Wrapped, SameBut, Fields
<1>2. SameBut(mem, w, Fields \ Held)
  BY <1>1 DEF SameBut, Held, Fields
<1> QED
  BY <1>1, <1>2 DEF EffectivePhase, Fields

LEMMA QuietFailure ==
  ASSUME mem \in Documents, NEW s, SameBut(mem, s, Fields \ Held),
         NEW failed, NEW repair, NEW next, NEW leftover,
         FailWith(s, failed, repair, next, leftover),
         \/ /\ failed = EffectivePhase(mem) /\ s.lastHead = mem.lastHead
            /\ s.verification = mem.verification /\ s.mergeTask = mem.mergeTask
         \/ /\ failed \notin PostBuildPhases \cup {"recording_decision"}
            /\ EffectivePhase(mem) \notin MergePhases,
         next # "down" \/ (IInv /\ s = mem /\ failed \in AllPhases /\ repair \in BOOLEAN)
  PROVE  Quietly
<1>1. PICK w : w = Wrapped(s, failed, repair)
  OBVIOUS
<1>2. /\ SameBut(mem, w, Fields \ Held) /\ EffectivePhase(w) = failed
      /\ w.lastHead = s.lastHead /\ w.verification = s.verification /\ w.mergeTask = s.mergeTask
  BY <1>1, WrappedFields
<1>3. Moves(w)
  BY <1>2 DEF Moves, Stays, Leaves
<1>4. IF CheckpointFails(w) THEN Die ELSE Persist(w, next)
  BY <1>1 DEF FailWith, Wrapped
<1>5. CASE CheckpointFails(w)
  BY <1>4, <1>5, QuietDie
<1>6. CASE ~CheckpointFails(w)
  <2>1. Persist(w, next)
    BY <1>4, <1>6
  <2>2. ASSUME next = "down"
        PROVE  disk' # None
    <3>1. w.error \in Errors /\ w.phase \in AllPhases /\ SameBut(mem, w, {"phase", "error"})
      BY <1>1, <2>2, FieldsOf, ActivePhases DEF Wrapped, Errors, SameBut, Fields
    <3>2. w \in Documents
      BY <3>1, ErrorTyped
    <3>3. Checkpoint(w) \in Documents
      BY <1>6, <2>2, <3>2, CheckpointFields DEF IInv
    <3> QED
      BY <2>1, <3>3, NullAssumption DEF Persist
  <2>3. Ends(w)
    BY <1>6, <2>1, <2>2 DEF Persist, Control, Ends
  <2> QED
    BY <1>2, <1>3, <2>3 DEF Quietly
<1> QED
  BY <1>5, <1>6

(* A failure of the phase in hand, with results of agents added *)
LEMMA QuietHere ==
  ASSUME mem \in Documents, mem.phase \in RetryTargetPhases,
         NEW s, SameBut(mem, s, Fields \ Held),
         s.lastHead = mem.lastHead, s.verification = mem.verification,
         s.mergeTask = mem.mergeTask,
         GitFails(s) \/ \E repair : Fail(s, mem.phase, repair)
  PROVE  Quietly
<1>1. EffectivePhase(mem) = mem.phase
  BY PhaseFacts DEF EffectivePhase
<1>2. PICK repair : FailWith(s, mem.phase, repair, "opfail", session)
  BY DEF GitFails, Fail
<1> QED
  BY <1>1, <1>2, QuietFailure

LEMMA QuietTerminal ==
  ASSUME IInv, pc \in BetweenSaves, EffectivePhase(mem) \notin MergePhases,
         mem.worktree # None,
         NEW s, SameBut(mem, s, Fields \ Held), Terminal(s)
  PROVE  Quietly
<1>1. PICK w : w = [s EXCEPT !.phase = "failed",
                            !.error = [failed |-> mem.phase, retryable |-> FALSE,
                                       repair |-> FALSE]]
  OBVIOUS
<1>2. /\ w = [f \in Fields |-> w[f]] /\ \A f \in Fields \ {"phase", "error"} : w[f] = s[f]
      /\ w.phase = "failed"
  BY <1>1 DEF SameBut, Fields
<1>3. /\ SameBut(mem, w, Fields \ Held) /\ EffectivePhase(w) = "failed"
      /\ w.worktree = mem.worktree
  BY <1>2 DEF SameBut, Held, Fields, EffectivePhase
<1>4. Moves(w)
  BY <1>3, PhaseFacts DEF Moves, Leaves
<1>5. tree # None /\ ~CheckpointFails(w)
  <2>1. LiveOK(mem, EffectivePhase(mem))
    BY AtWork
  <2> QED
    BY <1>3, <2>1, PhaseFacts DEF LiveOK, CheckpointFails
<1>6. Ends(w)
  BY <1>1, <1>5 DEF Terminal, Persist, Control, Ends
<1> QED
  BY <1>3, <1>4, <1>6 DEF Quietly

LEMMA InPhase ==
  ASSUME IInv, pc \in BetweenSaves
  PROVE  /\ mem \in Documents /\ mem # None /\ mem = [f \in Fields |-> mem[f]]
         /\ SameBut(mem, mem, Fields \ Held)
         /\ mem.phase \in RetryTargetPhases => EffectivePhase(mem) = mem.phase
         /\ mem.phase \in {"architecting", "building", "auditing", "awaiting_input"} =>
              mem.worktree # None
<1>1. mem.phase \in {"architecting", "building", "auditing", "awaiting_input"} =>
        mem.worktree # None
  BY InTask, ActivePhases
<1> QED
  BY <1>1, AtWork, FieldsOf

LEMMA ServerStartsQuiet ==
  ASSUME IInv, ServerStarts
  PROVE  Quietly
<1>1. mem \in Documents
  BY DEF ServerStarts, IInv, TypeOK
<1>2. mem' = mem /\ UNCHANGED <<disk, touched>>
  BY DEF ServerStarts, Control
<1> QED
  BY <1>1, <1>2, FieldsOf DEF Quietly, Moves, Stays, Ends

LEMMA InvokeQuiet ==
  ASSUME IInv, Invoke \/ ValidateCleanup \/ InspectWorktree
  PROVE  Quietly
<1>1. mem \in Documents
  BY DEF Invoke, ValidateCleanup, InspectWorktree, IInv, TypeOK
<1>2. mem' = mem /\ UNCHANGED <<disk, touched>>
  BY DEF Invoke, ValidateCleanup, InspectWorktree, Control
<1> QED
  BY <1>1, <1>2, FieldsOf DEF Quietly, Moves, Stays, Ends

LEMMA StartupFailsQuiet ==
  ASSUME IInv, StartupFails
  PROVE  Quietly
<1>1. mem \in Documents
  BY DEF StartupFails, IInv, TypeOK
<1>2. FailWith(mem, EffectivePhase(mem), FALSE, "down", None)
  BY DEF StartupFails
<1>3. EffectivePhase(mem) \in AllPhases
  BY ActivePhases DEF StartupFails, IInv, MemOK, Ending
<1> QED
  BY <1>1, <1>2, <1>3, FieldsOf, QuietFailure

LEMMA CrashQuiet ==
  ASSUME IInv, Crash \/ SaveEscapes
  PROVE  Quietly
<1>1. mem \in Documents /\ Die
  BY DEF Crash, SaveEscapes, IInv, TypeOK
<1> QED
  BY <1>1, QuietDie

(* a save keeps the document but for the retry counter *)
LEMMA Reset ==
  ASSUME mem \in Documents, NEW n, NEW s, s = [mem EXCEPT !.opRetries = n]
  PROVE  /\ SameBut(mem, s, Fields \ Held) /\ EffectivePhase(s) = EffectivePhase(mem)
         /\ Stays(s) /\ s.phase = mem.phase /\ s.worktree = mem.worktree
         /\ n \in 0..MaxOpRetries => s \in Documents
<1>1. /\ s = [f \in Fields |-> s[f]] /\ \A f \in Fields \ {"opRetries"} : s[f] = mem[f]
  BY FieldsOf DEF Fields
<1>2. s.phase = mem.phase /\ s.error = mem.error /\ s.worktree = mem.worktree
      /\ s.lastHead = mem.lastHead /\ s.verification = mem.verification
      /\ s.mergeTask = mem.mergeTask
  BY <1>1 DEF Fields
<1>3. SameBut(mem, s, Fields \ Held)
  BY <1>1 DEF SameBut, Held, Fields
<1>4. ASSUME n \in 0..MaxOpRetries
      PROVE  s \in Documents
  BY <1>4 DEF Documents
<1> QED
  BY <1>2, <1>3, <1>4 DEF EffectivePhase, Stays

LEMMA SaveQuiet ==
  ASSUME IInv, Save
  PROVE  Quietly
<1>1. PICK n, s : n = (IF from = "operational_failure" THEN mem.opRetries ELSE 0)
                  /\ s = [mem EXCEPT !.opRetries = n]
  OBVIOUS
<1>2. mem \in Documents
  BY DEF Save, IInv, TypeOK
<1>3. SameBut(mem, s, Fields \ Held) /\ Stays(s) /\ s \in Documents
  <2>1. n \in 0..MaxOpRetries
    BY <1>1, <1>2, Zeros DEF Documents
  <2> QED
    BY <1>1, <1>2, <2>1, Reset
<1>4. s = AfterReset
  BY <1>1 DEF AfterReset
<1>5. PICK next : IF CheckpointFails(s) THEN Die ELSE Persist(s, next)
  BY <1>4 DEF Save
<1>6. CASE CheckpointFails(s)
  BY <1>2, <1>5, <1>6, QuietDie
<1>7. CASE ~CheckpointFails(s)
  <2>1. Checkpoint(s) \in Documents
    BY <1>3, <1>7, CheckpointFields DEF IInv
  <2>2. Ends(s)
    BY <1>5, <1>7, <2>1, NullAssumption DEF Persist, Control, Ends
  <2> QED
    BY <1>3, <2>2 DEF Quietly, Moves
<1> QED
  BY <1>6, <1>7

LEMMA SaveFailsQuiet ==
  ASSUME IInv, SaveFails
  PROVE  Quietly
<1>1. PICK n, s : n = (IF from = "operational_failure" THEN mem.opRetries ELSE 0)
                  /\ s = [mem EXCEPT !.opRetries = n]
  OBVIOUS
<1>2. mem \in Documents /\ pc = "saving" /\ DocOK(mem) /\ disk # None
  BY DEF SaveFails, IInv, TypeOK, MemOK, ControlOK
<1>3. /\ SameBut(mem, s, Fields \ Held) /\ s.lastHead = mem.lastHead
      /\ s.verification = mem.verification /\ s.mergeTask = mem.mergeTask
  BY <1>1, <1>2, Reset DEF Stays
<1>4. s = AfterReset
  BY <1>1 DEF AfterReset
<1>5. PICK failed, repair, leftover :
        /\ failed = IF mem.phase \in TerminalPhases THEN from ELSE mem.phase
        /\ FailWith(s, failed, repair, "opfail", leftover)
  BY <1>4 DEF SaveFails, Fail
<1>6. CASE mem.phase \in TerminalPhases
  <2>1. from = "planning" /\ EffectivePhase(mem) = mem.phase
    <3>1. EffectivePhase(mem) = mem.phase
      BY <1>2, <1>6, EffectiveActive
    <3>2. EffectivePhase(mem) \notin RetryTargetPhases
      BY <1>6, <3>1, PhaseFacts DEF TerminalPhases
    <3> QED
      BY <1>2, <3>1, <3>2 DEF IInv, MemOK, Ending
  <2>2. EffectivePhase(mem) \notin MergePhases
    BY <1>6, <2>1 DEF TerminalPhases, MergePhases
  <2>3. failed \notin PostBuildPhases \cup {"recording_decision"}
    BY <1>5, <1>6, <2>1 DEF PostBuildPhases, MergePhases
  <2> QED
    BY <1>2, <1>3, <1>5, <2>2, <2>3, QuietFailure
<1>7. CASE mem.phase \notin TerminalPhases
  <2>1. mem.phase # "operational_failure"
    BY <1>2 DEF IInv, ControlOK
  <2>2. failed = EffectivePhase(mem)
    BY <1>5, <1>7, <2>1 DEF EffectivePhase
  <2> QED
    BY <1>2, <1>3, <1>5, <2>2, QuietFailure
<1> QED
  BY <1>6, <1>7

LEMMA AutoRetryQuiet ==
  ASSUME IInv, AutoRetry
  PROVE  Quietly
<1>1. PICK n, s : n = mem.opRetries + 1 /\ s = [mem EXCEPT !.opRetries = n]
  OBVIOUS
<1>2. mem \in Documents /\ pc = "opfail" /\ DocOK(mem) /\ mem.phase = "operational_failure"
      /\ LiveOK(mem, EffectivePhase(mem))
  BY DEF AutoRetry, IInv, TypeOK, MemOK, ControlOK
<1>3. SameBut(mem, s, Fields \ Held) /\ Stays(s) /\ EffectivePhase(s) = EffectivePhase(mem)
      /\ s.worktree = mem.worktree
  BY <1>1, <1>2, Reset
<1>4. CASE ~mem.error.repair /\ mem.opRetries < MaxOpRetries
  <2>1. Persist(s, "idle")
    BY <1>1, <1>4 DEF AutoRetry
  <2>2. EffectivePhase(mem) # "cleanup_worktree"
    BY <1>2, <1>4 DEF IInv, ControlOK, EffectivePhase
  <2>3. ~CheckpointFails(s)
    BY <1>2, <1>3, <2>2 DEF LiveOK, CheckpointFails, CleanupPhases
  <2>4. Ends(s)
    BY <2>1, <2>3 DEF Persist, Control, Ends
  <2> QED
    BY <1>3, <2>4 DEF Quietly, Moves
<1>5. CASE ~(~mem.error.repair /\ mem.opRetries < MaxOpRetries)
  BY <1>2, <1>5, QuietDie DEF AutoRetry
<1> QED
  BY <1>4, <1>5

LEMMA RetryQuiet ==
  ASSUME IInv, RetryOperationalFailure
  PROVE  Quietly
<1>1. PICK s : s = [mem EXCEPT !.error = None, !.phase = mem.error.failed]
  OBVIOUS
<1>2. pc = "idle" /\ mem.phase = "operational_failure" /\ Transition(s)
  BY <1>1 DEF RetryOperationalFailure
<1>3. mem = [f \in Fields |-> mem[f]] /\ DocOK(mem)
  BY <1>2, InPhase, AtWork
<1>4. /\ s = [f \in Fields |-> s[f]] /\ \A f \in Fields \ {"error", "phase"} : s[f] = mem[f]
      /\ s.phase = mem.error.failed
  BY <1>1, <1>3 DEF Fields
<1>5. SameBut(mem, s, Fields \ Held)
  BY <1>4 DEF SameBut, Held, Fields
<1>6. EffectivePhase(mem) = mem.error.failed /\ mem.error.failed \in RetryTargetPhases
  BY <1>2, <1>3, EffectiveActive
<1>7. EffectivePhase(s) = mem.error.failed
  BY <1>4, <1>6, PhaseFacts DEF EffectivePhase
<1>8. Stays(s)
  BY <1>4, <1>6, <1>7 DEF Stays, Fields
<1> QED
  BY <1>2, <1>5, <1>8, QuietMove DEF Moves

(* Failures that record nothing but themselves *)
LEMMA FailsQuiet ==
  ASSUME IInv,
         \/ AgentFails \/ CreateWorktreeFails \/ RecordDecisionFails
         \/ MergeFails \/ MergeConflicts \/ CleanupWorktreeFails \/ CleanupBranchFails
  PROVE  Quietly
<1>1. /\ pc \in BetweenSaves /\ mem.phase \in RetryTargetPhases
      /\ \E repair, leftover : FailWith(mem, mem.phase, repair, "opfail", leftover)
  <2>1. CASE AgentFails
    <3>1. pc = "agent" /\ \E leftover : FailWith(mem, mem.phase, FALSE, "opfail", leftover)
      BY <2>1 DEF AgentFails
    <3>2. mem.phase \in RetryTargetPhases
      BY <3>1, ActivePhases DEF IInv, ControlOK
    <3> QED
      BY <3>1, <3>2
  <2>2. CASE CreateWorktreeFails
    BY <2>2, ActivePhases DEF CreateWorktreeFails, GitFails, Fail
  <2>3. CASE RecordDecisionFails
    BY <2>3, ActivePhases DEF RecordDecisionFails, Fail
  <2>4. CASE MergeFails
    BY <2>4, ActivePhases DEF MergeFails, GitFails, Fail
  <2>5. CASE MergeConflicts
    BY <2>5, ActivePhases DEF MergeConflicts, Fail
  <2>6. CASE CleanupWorktreeFails
    <3>1. pc \in BetweenSaves /\ mem.phase = "cleanup_worktree"
      BY <2>6 DEF CleanupWorktreeFails, IInv, ControlOK
    <3> QED
      BY <2>6, <3>1, ActivePhases DEF CleanupWorktreeFails, GitFails, Fail
  <2>7. CASE CleanupBranchFails
    BY <2>7, ActivePhases DEF CleanupBranchFails, GitFails, Fail
  <2> QED
    BY <2>1, <2>2, <2>3, <2>4, <2>5, <2>6, <2>7
<1>2. mem \in Documents /\ SameBut(mem, mem, Fields \ Held) /\ EffectivePhase(mem) = mem.phase
  BY <1>1, InPhase
<1> QED
  BY <1>1, <1>2, QuietFailure

(* What an agent or the operator answered, written into the document *)
LEMMA Rewrites ==
  ASSUME mem \in Documents, NEW s, SameBut(mem, s, Fields \ Held),
         mem.phase \in RetryTargetPhases, s.phase \in RetryTargetPhases \cup {"done"}
  PROVE  /\ EffectivePhase(mem) = mem.phase /\ EffectivePhase(s) = s.phase
         /\ mem.phase \notin MergePhases
            /\ s.phase \notin PostBuildPhases \cup {"recording_decision"} => Leaves(s)
  BY PhaseFacts DEF EffectivePhase, Leaves

LEMMA PlannerCompleteQuiet ==
  ASSUME IInv, PlannerComplete
  PROVE  Quietly
<1>1. PICK s : s = [mem EXCEPT !.planner = [status |-> "COMPLETE", task |-> None,
                                            decision |-> FALSE]]
  OBVIOUS
<1>2. PICK t : t = [s EXCEPT !.phase = "done"]
  OBVIOUS
<1>3. /\ pc = "agent" /\ mem.phase = "planning"
      /\ (mem.worktree # None /\ Terminal(s)) \/ Transition(t)
  BY <1>1, <1>2 DEF PlannerComplete
<1>4. mem \in Documents /\ mem = [f \in Fields |-> mem[f]]
  BY <1>3, InPhase
<1>5. SameBut(mem, s, Fields \ Held) /\ SameBut(mem, t, Fields \ Held) /\ t.phase = "done"
  BY <1>1, <1>2, <1>4 DEF SameBut, Held, Fields
<1>6. EffectivePhase(mem) = "planning" /\ "planning" \notin MergePhases /\ Leaves(t)
  BY <1>3, <1>4, <1>5, Rewrites, ActivePhases, PhaseFacts DEF MergePhases
<1> QED
  BY <1>3, <1>5, <1>6, QuietMove, QuietTerminal DEF Moves

LEMMA ReachLimitQuiet ==
  ASSUME IInv, ReachLimit
  PROVE  Quietly
<1>1. PICK s : s = [mem EXCEPT !.phase = "done"]
  OBVIOUS
<1>2. pc = "idle" /\ mem.phase = "planning" /\ Transition(s)
  BY <1>1 DEF ReachLimit, AtLimit
<1>3. mem \in Documents /\ mem = [f \in Fields |-> mem[f]]
  BY <1>2, InPhase
<1>4. SameBut(mem, s, Fields \ Held) /\ s.phase = "done"
  BY <1>1, <1>3 DEF SameBut, Held, Fields
<1>5. Leaves(s)
  BY <1>2, <1>3, <1>4, Rewrites, ActivePhases, PhaseFacts DEF MergePhases
<1> QED
  BY <1>2, <1>4, <1>5, QuietMove DEF Moves

(* A planner that keeps the task it was asked to replan *)
LEMMA ReplannedQuiet ==
  ASSUME IInv, PlannerReady, mem.worktree # None
  PROVE  Quietly
<1>1. PICK p, d : /\ d = p.decision
                  /\ Transition(Route([[mem EXCEPT !.planner = p] EXCEPT !.revisions = 0,
                                                                         !.guidance = 0]))
  <2>1. PICK t, d : Transition(Route([[mem EXCEPT
                       !.planner = [status |-> "READY", task |-> t, decision |-> d]] EXCEPT
                       !.revisions = 0, !.guidance = 0]))
    BY DEF PlannerReady
  <2>2. PICK p : p = [status |-> "READY", task |-> t, decision |-> d]
    OBVIOUS
  <2> QED
    BY <2>1, <2>2
<1>2. PICK u : u = [[mem EXCEPT !.planner = p] EXCEPT !.revisions = 0, !.guidance = 0]
  OBVIOUS
<1>3. PICK s : s = Route(u)
  OBVIOUS
<1>4. pc = "agent" /\ mem.phase = "planning" /\ Transition(s)
  BY <1>1, <1>2, <1>3 DEF PlannerReady
<1>5. mem \in Documents /\ mem = [f \in Fields |-> mem[f]]
  BY <1>4, InPhase
<1>6. /\ u = [f \in Fields |-> u[f]]
      /\ \A f \in Fields \ {"planner", "revisions", "guidance"} : u[f] = mem[f]
  BY <1>2, <1>5 DEF Fields
<1>7. /\ SameBut(mem, s, Fields \ Held) /\ s.phase \in {"architecting", "building"}
  BY <1>3, <1>6 DEF SameBut, Held, Fields, Route
<1>8. Leaves(s)
  BY <1>4, <1>5, <1>7, Rewrites, ActivePhases, PhaseFacts DEF MergePhases, PostBuildPhases
<1> QED
  BY <1>4, <1>7, <1>8, QuietMove DEF Moves

LEMMA ArchitectNeedsInputQuiet ==
  ASSUME IInv, ArchitectNeedsInput
  PROVE  Quietly
<1>1. PICK a, n : /\ a = [status |-> "NEEDS_INPUT", question |-> mem.decision, adr |-> None]
                  /\ n = mem.architectRetries + 1
  OBVIOUS
<1>2. PICK s : s = [mem EXCEPT !.architect = a, !.architectRetries = n]
  OBVIOUS
<1>3. PICK t : t = [s EXCEPT !.pending = Ask("architect_input", mem.decision, None),
                             !.phase = "awaiting_input"]
  OBVIOUS
<1>4. pc = "agent" /\ mem.phase = "architecting" /\ (Terminal(s) \/ Transition(t))
  BY <1>1, <1>2, <1>3 DEF ArchitectNeedsInput
<1>5. mem \in Documents /\ mem = [f \in Fields |-> mem[f]]
  BY <1>4, InPhase
<1>6. /\ SameBut(mem, s, Fields \ Held) /\ SameBut(mem, t, Fields \ Held)
      /\ t.phase = "awaiting_input"
  BY <1>2, <1>3, <1>5 DEF SameBut, Held, Fields
<1>7. EffectivePhase(mem) = "architecting" /\ "architecting" \notin MergePhases /\ Leaves(t)
  BY <1>4, <1>5, <1>6, Rewrites, ActivePhases, PhaseFacts DEF MergePhases
<1> QED
  BY <1>4, <1>6, <1>7, QuietMove, QuietTerminal, InPhase DEF Moves

LEMMA BuilderReportsBlockedQuiet ==
  ASSUME IInv, BuilderReportsBlocked
  PROVE  Quietly
<1>1. PICK s, b, n, q :
        /\ s = [mem EXCEPT !.builder = b, !.guidance = n, !.pending = q, !.phase = "awaiting_input"]
        /\ Transition(s)
  <2>1. PICK kind : kind = IF mem.guidance + 1 > MaxGuidance THEN "builder_escalation"
                                                             ELSE "builder_guidance"
    OBVIOUS
  <2>2. PICK b, n, q : /\ b = [task |-> mem.planner.task, status |-> "BLOCKED", commit |-> None]
                       /\ n = mem.guidance + 1 /\ q = Ask(kind, "BLOCKED", None)
    OBVIOUS
  <2> QED
    BY <2>1, <2>2 DEF BuilderReportsBlocked
<1>2. pc = "agent" /\ mem.phase = "building"
  BY DEF BuilderReportsBlocked
<1>3. mem \in Documents /\ mem = [f \in Fields |-> mem[f]]
  BY <1>2, InPhase
<1>4. SameBut(mem, s, Fields \ Held) /\ s.phase = "awaiting_input"
  BY <1>1, <1>3 DEF SameBut, Held, Fields
<1>5. Leaves(s)
  BY <1>2, <1>3, <1>4, Rewrites, ActivePhases, PhaseFacts DEF MergePhases
<1> QED
  BY <1>1, <1>4, <1>5, QuietMove DEF Moves

LEMMA BuilderReportsCompleteQuiet ==
  ASSUME IInv, BuilderReportsComplete
  PROVE  Quietly
<1>1. PICK commit, b :
        \/ /\ BuilderCommitVerified(commit)
           /\ Transition([[mem EXCEPT !.builder = b] EXCEPT
                 !.lastHead = commit, !.pending = None, !.guidance = 0,
                 !.phase = IF VerifyConfigured THEN "verifying" ELSE "auditing"])
        \/ GitFails([mem EXCEPT !.builder = b])
  <2>1. PICK commit \in {0, TaskHead} :
         LET s == [mem EXCEPT !.builder = [task |-> mem.planner.task, status |-> "COMPLETE",
                                           commit |-> commit]]
         IN  \/ /\ BuilderCommitVerified(commit)
                /\ Transition([s EXCEPT
                      !.lastHead = commit, !.pending = None, !.guidance = 0,
                      !.phase = IF VerifyConfigured THEN "verifying" ELSE "auditing"])
             \/ GitFails(s)
    BY DEF BuilderReportsComplete
  <2>2. PICK b : b = [task |-> mem.planner.task, status |-> "COMPLETE", commit |-> commit]
    OBVIOUS
  <2> QED
    BY <2>1, <2>2
<1>2. pc = "agent" /\ mem.phase = "building"
  BY DEF BuilderReportsComplete
<1>3. PICK s : s = [mem EXCEPT !.builder = b]
  OBVIOUS
<1>4. PICK e, t : /\ e = IF VerifyConfigured THEN "verifying" ELSE "auditing"
                  /\ t = [s EXCEPT !.lastHead = commit, !.pending = None, !.guidance = 0,
                                   !.phase = e]
  OBVIOUS
<1>5. mem \in Documents /\ mem = [f \in Fields |-> mem[f]] /\ mem.phase \in RetryTargetPhases
  BY <1>2, InPhase, ActivePhases
<1>6. /\ SameBut(mem, s, Fields \ Held) /\ s.lastHead = mem.lastHead
      /\ s.verification = mem.verification /\ s.mergeTask = mem.mergeTask
  BY <1>3, <1>5 DEF SameBut, Held, Fields
<1>7. SameBut(mem, t, Fields \ Held) /\ t.phase = e /\ t.lastHead = commit
  BY <1>3, <1>4, <1>5 DEF SameBut, Held, Fields
<1>8. /\ EffectivePhase(mem) = "building" /\ e \in {"verifying", "auditing"}
      /\ EffectivePhase(t) = e /\ (VerifyConfigured => e = "verifying")
  BY <1>2, <1>4, <1>5, <1>7, Rewrites, ActivePhases
<1>9. ASSUME BuilderCommitVerified(commit), Transition(t)
      PROVE  Quietly
  <2>1. Built(t)
    BY <1>7, <1>8, <1>9 DEF Built, BuilderCommitVerified
  <2> QED
    BY <1>7, <1>9, <2>1, QuietMove DEF Moves
<1>10. ASSUME GitFails(s)
       PROVE  Quietly
  BY <1>5, <1>6, <1>10, QuietHere
<1> QED
  BY <1>1, <1>3, <1>4, <1>9, <1>10

LEMMA VerifyQuiet ==
  ASSUME IInv, Verify
  PROVE  Quietly
<1>1. PICK s : s = [mem EXCEPT !.verification = TaskHead, !.phase = "auditing"]
  OBVIOUS
<1>2. pc = "idle" /\ mem.phase = "verifying" /\ (Transition(s) \/ GitFails(mem))
  BY <1>1 DEF Verify
<1>3. /\ mem \in Documents /\ mem = [f \in Fields |-> mem[f]] /\ mem.phase \in RetryTargetPhases
      /\ SameBut(mem, mem, Fields \ Held)
  BY <1>2, InPhase, ActivePhases
<1>4. /\ SameBut(mem, s, Fields \ Held) /\ s.phase = "auditing" /\ s.lastHead = mem.lastHead
      /\ s.verification = TaskHead
  BY <1>1, <1>3 DEF SameBut, Held, Fields
<1>5. EffectivePhase(mem) = "verifying" /\ EffectivePhase(s) = "auditing"
  BY <1>2, <1>3, <1>4, Rewrites, ActivePhases
<1>6. Verified(s)
  BY <1>4, <1>5 DEF Verified
<1> QED
  BY <1>2, <1>3, <1>4, <1>6, QuietMove, QuietHere DEF Moves

LEMMA AuditorAcceptsQuiet ==
  ASSUME IInv, AuditorAccepts
  PROVE  Quietly
<1>1. PICK s : s = Verdict("ACCEPT", FALSE)
  OBVIOUS
<1>2. PICK t : t = [s EXCEPT !.mergePre = IntegrationHead, !.mergeTask = TaskHead,
                             !.phase = "merging"]
  OBVIOUS
<1>3. /\ pc = "agent" /\ mem.phase = "auditing"
      /\ (Transition(t) /\ reviewed' = reviewed \cup {audited}) \/ GitFails(s)
  BY <1>1, <1>2 DEF AuditorAccepts
<1>4. mem \in Documents /\ mem = [f \in Fields |-> mem[f]] /\ mem.phase \in RetryTargetPhases
  BY <1>3, InPhase, ActivePhases
<1>5. /\ SameBut(mem, s, Fields \ Held) /\ s.lastHead = mem.lastHead
      /\ s.verification = mem.verification /\ s.mergeTask = mem.mergeTask
      /\ s = [f \in Fields |-> s[f]]
  BY <1>1, <1>4 DEF SameBut, Held, Fields, Verdict
<1>6. /\ SameBut(mem, t, Fields \ Held) /\ t.phase = "merging" /\ t.mergeTask = TaskHead
      /\ t.lastHead = mem.lastHead /\ t.verification = mem.verification
  BY <1>2, <1>5 DEF SameBut, Held, Fields
<1>7. EffectivePhase(mem) = "auditing" /\ EffectivePhase(t) = "merging"
  BY <1>3, <1>4, <1>6, Rewrites, ActivePhases
<1>8. ASSUME Transition(t), reviewed' = reviewed \cup {audited}
      PROVE  Quietly
  <2>1. Accepted(t)
    BY <1>3, <1>6, <1>7, <1>8 DEF Accepted
  <2> QED
    BY <1>6, <1>8, <2>1, QuietMove DEF Moves
<1>9. ASSUME GitFails(s)
      PROVE  Quietly
  BY <1>4, <1>5, <1>9, QuietHere
<1> QED
  BY <1>3, <1>8, <1>9

LEMMA AuditorRevisesQuiet ==
  ASSUME IInv, AuditorRevises
  PROVE  Quietly
<1>1. PICK n : n = Verdict("REVISE", FALSE).revisions + 1
  OBVIOUS
<1>2. PICK s : s = [Verdict("REVISE", FALSE) EXCEPT !.revisions = n]
  OBVIOUS
<1>3. PICK t : t = [s EXCEPT !.verification = None, !.phase = "building"]
  OBVIOUS
<1>4. pc = "agent" /\ mem.phase = "auditing" /\ (Terminal(s) \/ Transition(t))
  BY <1>1, <1>2, <1>3 DEF AuditorRevises
<1>5. mem \in Documents /\ mem = [f \in Fields |-> mem[f]]
  BY <1>4, InPhase
<1>6. SameBut(mem, s, Fields \ Held) /\ s = [f \in Fields |-> s[f]]
  BY <1>2, <1>5 DEF SameBut, Held, Fields, Verdict
<1>7. SameBut(mem, t, Fields \ Held) /\ t.phase = "building"
  BY <1>3, <1>6 DEF SameBut, Held, Fields
<1>8. EffectivePhase(mem) = "auditing" /\ "auditing" \notin MergePhases /\ Leaves(t)
  BY <1>4, <1>5, <1>7, Rewrites, ActivePhases, PhaseFacts DEF MergePhases
<1> QED
  BY <1>4, <1>6, <1>7, <1>8, QuietMove, QuietTerminal, InPhase DEF Moves

LEMMA AuditorReplansQuiet ==
  ASSUME IInv, AuditorReplans
  PROVE  Quietly
<1>1. PICK d \in BOOLEAN :
       LET s == [Verdict("REPLAN", d) EXCEPT !.replans = @ + 1]
       IN  \/ Terminal(s)
           \/ Transition([s EXCEPT
                    !.builder = None, !.verification = None,
                    !.decision = IF d THEN "auditor" ELSE @,
                    !.phase = IF d THEN "architecting" ELSE "planning"])
  BY DEF AuditorReplans
<1>2. PICK n : n = Verdict("REPLAN", d).replans + 1
  OBVIOUS
<1>3. PICK s : s = [Verdict("REPLAN", d) EXCEPT !.replans = n]
  OBVIOUS
<1>4. PICK q, e : q = (IF d THEN "auditor" ELSE s.decision)
                  /\ e = IF d THEN "architecting" ELSE "planning"
  OBVIOUS
<1>5. PICK t : t = [s EXCEPT !.builder = None, !.verification = None, !.decision = q, !.phase = e]
  OBVIOUS
<1>6. pc = "agent" /\ mem.phase = "auditing" /\ (Terminal(s) \/ Transition(t))
  BY <1>1, <1>2, <1>3, <1>4, <1>5 DEF AuditorReplans
<1>7. mem \in Documents /\ mem = [f \in Fields |-> mem[f]]
  BY <1>6, InPhase
<1>8. SameBut(mem, s, Fields \ Held) /\ s = [f \in Fields |-> s[f]]
  BY <1>3, <1>7 DEF SameBut, Held, Fields, Verdict
<1>9. SameBut(mem, t, Fields \ Held) /\ t.phase = e /\ e \in {"architecting", "planning"}
  BY <1>4, <1>5, <1>8 DEF SameBut, Held, Fields
<1>10. EffectivePhase(mem) = "auditing" /\ "auditing" \notin MergePhases /\ Leaves(t)
  BY <1>6, <1>7, <1>9, Rewrites, ActivePhases, PhaseFacts DEF MergePhases
<1> QED
  BY <1>6, <1>8, <1>9, <1>10, QuietMove, QuietTerminal, InPhase DEF Moves

LEMMA AdoptMergeQuiet ==
  ASSUME IInv, AdoptMerge
  PROVE  Quietly
<1>1. PICK i \in MergesOf(mem.mergePre, mem.mergeTask) : Merged(integ[i].id)
  BY DEF AdoptMerge
<1>2. PICK c, s : /\ c = integ[i].id
                  /\ s = [mem EXCEPT !.mergeCommit = c, !.phase = "cleanup_worktree"]
  OBVIOUS
<1>3. pc = "idle" /\ mem.phase = "merging" /\ MergeIntentStands /\ Transition(s)
  BY <1>1, <1>2 DEF AdoptMerge, Merged
<1>4. mem \in Documents /\ mem = [f \in Fields |-> mem[f]]
  BY <1>3, InPhase
<1>5. /\ SameBut(mem, s, Fields \ Held) /\ s.phase = "cleanup_worktree"
      /\ s.lastHead = mem.lastHead /\ s.verification = mem.verification
      /\ s.mergeTask = mem.mergeTask
  BY <1>2, <1>4 DEF SameBut, Held, Fields
<1>6. EffectivePhase(mem) = "merging" /\ EffectivePhase(s) = "cleanup_worktree"
  BY <1>3, <1>4, <1>5, Rewrites, ActivePhases
<1>7. \E j \in DOMAIN integ : integ[j].second = mem.mergeTask
  BY <1>1 DEF MergesOf
<1>8. Adopted(s)
  BY <1>3, <1>5, <1>6, <1>7 DEF Adopted
<1> QED
  BY <1>3, <1>5, <1>8, QuietMove DEF Moves

-----------------------------------------------------------------------------
(* Answers *)

LEMMA ReplanFromInputQuiet ==
  ASSUME IInv, Asked, ReplanFromInput
  PROVE  Quietly
<1>1. PICK n : n = mem.replans + 1
  OBVIOUS
<1>2. PICK s : s = [mem EXCEPT !.replans = n, !.pending = None]
  OBVIOUS
<1>3. PICK t : t = [s EXCEPT !.builder = None, !.verification = None, !.phase = "planning"]
  OBVIOUS
<1>4. pc = "idle" /\ mem.phase = "awaiting_input" /\ (Terminal(s) \/ Transition(t))
  BY <1>1, <1>2, <1>3 DEF ReplanFromInput, Asked
<1>5. mem \in Documents /\ mem = [f \in Fields |-> mem[f]]
  BY <1>4, InPhase
<1>6. SameBut(mem, s, Fields \ Held) /\ s = [f \in Fields |-> s[f]]
  BY <1>2, <1>5 DEF SameBut, Held, Fields
<1>7. SameBut(mem, t, Fields \ Held) /\ t.phase = "planning"
  BY <1>3, <1>6 DEF SameBut, Held, Fields
<1>8. EffectivePhase(mem) = "awaiting_input" /\ "awaiting_input" \notin MergePhases /\ Leaves(t)
  BY <1>4, <1>5, <1>7, Rewrites, ActivePhases, PhaseFacts DEF MergePhases
<1> QED
  BY <1>4, <1>6, <1>7, <1>8, QuietMove, QuietTerminal, InPhase DEF Moves

(* An answer that asks nothing of Git *)
LEMMA AnsweredQuiet ==
  ASSUME IInv, Asked, NEW q, NEW e \in {"building", "architecting", "awaiting_input"},
         Transition([mem EXCEPT !.pending = q, !.phase = e])
  PROVE  Quietly
<1>1. PICK s : s = [mem EXCEPT !.pending = q, !.phase = e]
  OBVIOUS
<1>2. pc = "idle" /\ mem.phase = "awaiting_input"
  BY DEF Asked
<1>3. mem \in Documents /\ mem = [f \in Fields |-> mem[f]]
  BY <1>2, InPhase
<1>4. SameBut(mem, s, Fields \ Held) /\ s.phase = e
  BY <1>1, <1>3 DEF SameBut, Held, Fields
<1>5. Leaves(s)
  BY <1>2, <1>3, <1>4, Rewrites, ActivePhases, PhaseFacts DEF MergePhases, PostBuildPhases
<1> QED
  BY <1>1, <1>4, <1>5, QuietMove DEF Moves

LEMMA AnswerGuidanceQuiet ==
  ASSUME IInv, AnswerGuidance
  PROVE  Quietly
<1>1. PICK q : q = [mem.pending EXCEPT !.answered = TRUE]
  OBVIOUS
<1>2. Asked /\ (ReplanFromInput \/ Transition([mem EXCEPT !.pending = q, !.phase = "building"]))
  BY <1>1 DEF AnswerGuidance
<1> QED
  BY <1>2, ReplanFromInputQuiet, AnsweredQuiet

LEMMA AnswerEscalationQuiet ==
  ASSUME IInv, AnswerEscalation
  PROVE  Quietly
<1>1. PICK s : s = [mem EXCEPT !.pending = None]
  OBVIOUS
<1>2. Asked /\ (ReplanFromInput \/ Terminal(s) \/ Transition(mem))
  BY <1>1 DEF AnswerEscalation
<1>3. /\ mem \in Documents /\ mem = [f \in Fields |-> mem[f]] /\ SameBut(mem, mem, Fields \ Held)
      /\ EffectivePhase(mem) = "awaiting_input" /\ pc = "idle"
  BY <1>2, InPhase, ActivePhases DEF Asked
<1>4. SameBut(mem, s, Fields \ Held)
  BY <1>1, <1>3 DEF SameBut, Held, Fields
<1>5. EffectivePhase(mem) \notin MergePhases /\ Stays(mem)
  BY <1>3 DEF MergePhases, Stays
<1> QED
  <2>1. ASSUME Terminal(s)
        PROVE  Quietly
    BY <1>2, <1>3, <1>4, <1>5, <2>1, InPhase, QuietTerminal DEF Asked
  <2>2. ASSUME Transition(mem)
        PROVE  Quietly
    BY <1>3, <1>5, <2>2, QuietMove DEF Moves
  <2> QED
    BY <1>2, <2>1, <2>2, ReplanFromInputQuiet

LEMMA AnswerArchitectQuiet ==
  ASSUME IInv, AnswerArchitect
  PROVE  Quietly
<1>1. PICK q : q = [mem.pending EXCEPT !.answered = TRUE]
  OBVIOUS
<1>2. Asked /\ Transition([mem EXCEPT !.pending = q, !.phase = "architecting"])
  BY <1>1 DEF AnswerArchitect
<1> QED
  BY <1>2, AnsweredQuiet

LEMMA InputUnavailableQuiet ==
  ASSUME IInv, InputUnavailable
  PROVE  Quietly
<1>1. Asked /\ (Persist(mem, "down") \/ GitFails(mem))
  BY DEF InputUnavailable
<1>2. /\ mem \in Documents /\ SameBut(mem, mem, Fields \ Held)
      /\ EffectivePhase(mem) = "awaiting_input" /\ mem.phase \in RetryTargetPhases
      /\ LiveOK(mem, "awaiting_input")
  BY <1>1, InPhase, AtWork, ActivePhases DEF Asked
<1>3. CASE Persist(mem, "down")
  <2>1. ~CheckpointFails(mem)
    BY <1>2 DEF LiveOK, CheckpointFails, CleanupPhases
  <2>2. Checkpoint(mem) \in Documents
    BY <1>2, <2>1, CheckpointFields DEF IInv
  <2>3. Ends(mem)
    BY <1>3, <2>1, <2>2, NullAssumption DEF Persist, Control, Ends
  <2> QED
    BY <1>2, <2>3 DEF Quietly, Moves, Stays
<1>4. CASE GitFails(mem)
  BY <1>2, <1>4, QuietHere
<1> QED
  BY <1>1, <1>3, <1>4

-----------------------------------------------------------------------------
(* Steps that write what quiet ones hold, and leave Git alone              *)

(* the planner names a task that has no worktree yet *)
Plans ==
  \E s :
    /\ SameBut(mem, s, Fields \ (Held \ {"intent"})) /\ Ends(s)
    /\ s.intent \in Intents \cup {None}
    /\ s.intent # None => s.intent.base \in {IntegrationHead, None}
    /\ EffectivePhase(mem) = "planning" /\ EffectivePhase(s) \in {"creating_worktree", "planning"}

(* a decision is about to be recorded *)
Prepares ==
  \E s, c :
    /\ SameBut(mem, s, Fields \ (Held \ {"adr"})) /\ mem' = s /\ UNCHANGED <<disk, touched>>
    /\ s.adr = [number |-> NextAdrNumber, content |-> c]
    /\ RequireApproval => c \in approved'
    /\ EffectivePhase(mem) \in {"architecting", "awaiting_input"}
    /\ EffectivePhase(s) = "recording_decision" /\ tree # None

LEMMA PlannerReadyPlans ==
  ASSUME IInv, PlannerReady, mem.worktree = None
  PROVE  Plans
<1>1. PICK t \in Tasks, d \in BOOLEAN :
       LET s == [mem EXCEPT !.planner = [status |-> "READY", task |-> t, decision |-> d]]
       IN  \/ Transition([s EXCEPT !.intent = [task |-> t, base |-> IntegrationHead],
                                   !.phase = "creating_worktree"])
           \/ GitFails([s EXCEPT !.intent = [task |-> t, base |-> None]])
  BY DEF PlannerReady
<1>2. PICK s, i, j : /\ s = [mem EXCEPT !.planner = [status |-> "READY", task |-> t,
                                                    decision |-> d]]
                     /\ i = [task |-> t, base |-> IntegrationHead]
                     /\ j = [task |-> t, base |-> None]
  OBVIOUS
<1> i \in Intents /\ j \in Intents
  <2>1. IntegrationHead \in Nat
    BY IntegrationTyped DEF IInv
  <2> QED
    BY <1>2, <2>1 DEF Intents
<1>3. pc = "agent" /\ mem.phase = "planning"
  BY DEF PlannerReady
<1>4. mem \in Documents /\ mem = [f \in Fields |-> mem[f]] /\ EffectivePhase(mem) = "planning"
  BY <1>3, InPhase, ActivePhases
<1>5. s = [f \in Fields |-> s[f]] /\ \A f \in Fields \ {"planner"} : s[f] = mem[f]
  BY <1>2, <1>4 DEF Fields
<1>6. PICK u, v : /\ u = [s EXCEPT !.intent = i, !.phase = "creating_worktree"]
                  /\ v = [s EXCEPT !.intent = j]
  OBVIOUS
<1>7. Transition(u) \/ GitFails(v)
  BY <1>1, <1>2, <1>6
<1>8. ASSUME Transition(u)
      PROVE  Plans
  <2>1. /\ SameBut(mem, u, Fields \ (Held \ {"intent"})) /\ u.intent = i
        /\ u.phase = "creating_worktree"
    BY <1>5, <1>6 DEF SameBut, Held, Fields
  <2>2. EffectivePhase(u) = "creating_worktree" /\ u.intent.base = IntegrationHead
        /\ u.intent \in Intents
    BY <1>2, <2>1 DEF EffectivePhase
  <2>3. Ends(u)
    BY <1>8 DEF Transition, Control, Ends
  <2> QED
    BY <1>4, <2>1, <2>2, <2>3 DEF Plans
<1>9. ASSUME GitFails(v)
      PROVE  Plans
  <2>1. v = [f \in Fields |-> v[f]] /\ \A f \in Fields \ {"planner", "intent"} : v[f] = mem[f]
    BY <1>5, <1>6 DEF Fields
  <2>2. v.intent = j
    BY <1>5, <1>6 DEF Fields
  <2>3. PICK repair : FailWith(v, "planning", repair, "opfail", session)
    BY <1>3, <1>9 DEF GitFails, Fail
  <2>4. PICK w : w = Wrapped(v, "planning", repair)
    OBVIOUS
  <2>5. /\ w = [f \in Fields |-> w[f]]
        /\ \A f \in Fields \ {"phase", "error"} : w[f] = v[f]
        /\ w.phase = "operational_failure" /\ w.error.failed = "planning"
    BY <2>1, <2>4 DEF Wrapped, Fields
  <2>6. SameBut(mem, w, Fields \ (Held \ {"intent"}))
    BY <2>1, <2>5 DEF SameBut, Held, Fields
  <2>7. EffectivePhase(w) = "planning" /\ w.intent.base = None /\ w.intent \in Intents
    BY <1>2, <2>2, <2>5 DEF EffectivePhase, Fields
  <2>8. IF CheckpointFails(w) THEN Die ELSE Persist(w, "opfail")
    BY <2>3, <2>4 DEF FailWith, Wrapped
  <2>9. Ends(w)
    BY <2>8 DEF Die, Persist, Control, Ends
  <2> QED
    BY <1>4, <2>6, <2>7, <2>9 DEF Plans
<1> QED
  BY <1>7, <1>8, <1>9

LEMMA Prepared ==
  ASSUME IInv, pc \in BetweenSaves, mem.phase \in {"architecting", "awaiting_input"},
         NEW s, s = [f \in Fields |-> s[f]], \A f \in Held : s[f] = mem[f],
         Transition([PrepareRecord(s) EXCEPT !.pending = None]),
         RequireApproval => s.architect.adr \in approved'
  PROVE  Prepares
<1>1. PICK a, t : /\ a = [number |-> NextAdrNumber, content |-> s.architect.adr]
                  /\ t = [[s EXCEPT !.adr = a, !.phase = "recording_decision"] EXCEPT
                            !.pending = None]
  OBVIOUS
<1>2. mem' = t /\ UNCHANGED <<disk, touched>>
  BY <1>1 DEF Transition, Control, PrepareRecord
<1>3. SameBut(mem, t, Fields \ (Held \ {"adr"})) /\ t.adr = a /\ t.phase = "recording_decision"
  BY <1>1 DEF SameBut, Held, Fields
<1>4. /\ EffectivePhase(t) = "recording_decision"
      /\ EffectivePhase(mem) \in {"architecting", "awaiting_input"}
  BY <1>3, InPhase, ActivePhases DEF EffectivePhase
<1>5. tree # None
  <2>1. ContentOK(mem, mem.phase) /\ LiveOK(mem, mem.phase)
    BY AtWork, ActivePhases
  <2>2. mem.worktree # None
    BY <2>1, ActivePhases DEF ContentOK, TaskOK, TaskPhases
  <2> QED
    BY <2>1, <2>2 DEF LiveOK, CleanupPhases
<1> QED
  BY <1>1, <1>2, <1>3, <1>4, <1>5 DEF Prepares

LEMMA ArchitectDecidesCases ==
  ASSUME IInv, ArchitectDecides
  PROVE  Quietly \/ Prepares
<1>1. PICK a : a = [status |-> "DECIDED", question |-> mem.decision, adr |-> nextId]
  OBVIOUS
<1>2. PICK s : s = [mem EXCEPT !.architect = a]
  OBVIOUS
<1>3. PICK t : t = [s EXCEPT !.pending = Ask("decision_approval", None, nextId),
                             !.phase = "awaiting_input"]
  OBVIOUS
<1>4. /\ pc = "agent" /\ mem.phase = "architecting"
      /\ \/ Control(t, "signal") /\ UNCHANGED <<disk, touched>>
         \/ ~RequireApproval /\ Transition([PrepareRecord(s) EXCEPT !.pending = None])
         \/ Fail(s, "architecting", TRUE)
  BY <1>1, <1>2, <1>3 DEF ArchitectDecides
<1>5. mem \in Documents /\ mem = [f \in Fields |-> mem[f]] /\ mem.phase \in RetryTargetPhases
  BY <1>4, InPhase, ActivePhases
<1>6. /\ SameBut(mem, s, Fields \ Held) /\ s.lastHead = mem.lastHead
      /\ s.verification = mem.verification /\ s.mergeTask = mem.mergeTask
      /\ s = [f \in Fields |-> s[f]] /\ \A f \in Held : s[f] = mem[f]
  BY <1>2, <1>5 DEF SameBut, Held, Fields
<1>7. SameBut(mem, t, Fields \ Held) /\ t.phase = "awaiting_input"
  BY <1>3, <1>6 DEF SameBut, Held, Fields
<1>8. Leaves(t)
  BY <1>4, <1>5, <1>7, Rewrites, ActivePhases, PhaseFacts DEF MergePhases
<1>9. ASSUME Control(t, "signal"), UNCHANGED <<disk, touched>>
      PROVE  Quietly
  <2>1. Ends(t)
    BY <1>9 DEF Control, Ends
  <2> QED
    BY <1>7, <1>8, <2>1 DEF Quietly, Moves
<1>10. ASSUME ~RequireApproval, Transition([PrepareRecord(s) EXCEPT !.pending = None])
       PROVE  Prepares
  BY <1>4, <1>6, <1>10, Prepared
<1>11. ASSUME Fail(s, "architecting", TRUE)
       PROVE  Quietly
  BY <1>4, <1>5, <1>6, <1>11, QuietHere
<1> QED
  BY <1>4, <1>9, <1>10, <1>11

LEMMA AnswerApprovalCases ==
  ASSUME IInv, AnswerApproval
  PROVE  Quietly \/ Prepares
<1>1. PICK s : s = [mem EXCEPT !.pending.answered = TRUE]
  OBVIOUS
<1>2. PICK q : q = Ask("architect_input", mem.decision, None)
  OBVIOUS
<1>3. /\ pc = "idle" /\ mem.phase = "awaiting_input"
      /\ \/ /\ approved' = approved \cup {mem.architect.adr}
            /\ \/ Transition([PrepareRecord(mem) EXCEPT !.pending = None])
               \/ Fail(s, "awaiting_input", TRUE)
         \/ Transition([mem EXCEPT !.pending = q])
  BY <1>1, <1>2 DEF AnswerApproval, Asked
<1>4. /\ mem \in Documents /\ mem = [f \in Fields |-> mem[f]] /\ mem.phase \in RetryTargetPhases
  BY <1>3, InPhase, ActivePhases
<1>5. /\ SameBut(mem, s, Fields \ Held) /\ s.lastHead = mem.lastHead
      /\ s.verification = mem.verification /\ s.mergeTask = mem.mergeTask
  BY <1>1, <1>4 DEF SameBut, Held, Fields
<1>6. ASSUME approved' = approved \cup {mem.architect.adr},
             Transition([PrepareRecord(mem) EXCEPT !.pending = None])
      PROVE  Prepares
  BY <1>3, <1>4, <1>6, Prepared
<1>7. ASSUME Fail(s, "awaiting_input", TRUE)
      PROVE  Quietly
  BY <1>3, <1>4, <1>5, <1>7, QuietHere
<1>8. ASSUME Transition([mem EXCEPT !.pending = q])
      PROVE  Quietly
  <2>1. [mem EXCEPT !.pending = q] = [mem EXCEPT !.pending = q, !.phase = "awaiting_input"]
    BY <1>3, <1>4 DEF Fields
  <2> QED
    BY <1>3, <1>8, <2>1, AnsweredQuiet DEF Asked
<1> QED
  BY <1>3, <1>6, <1>7, <1>8

-----------------------------------------------------------------------------
(* Every step, sorted *)

GitActions ==
  \/ StartRun \/ ResumeRun \/ CreateWorktree \/ ProvisioningFails \/ RecordDecision \/ Merge
  \/ CleanupWorktree \/ CleanupBranch \/ BuilderWorks \/ LeftoverSessionWorks
  \/ OperatorCommits \/ OperatorMerges \/ OperatorRestores \/ OperatorCleans \/ OperatorRemoves

LEMMA Sorted ==
  ASSUME IInv, Next
  PROVE  \/ GitActions
         \/ (Quietly \/ Plans \/ Prepares) /\ pc # "down" /\ UNCHANGED gitvars
<1>1. CASE Crash \/ SaveEscapes
  BY <1>1, CrashQuiet DEF Crash, SaveEscapes
<1>2. CASE ServerStarts
  BY <1>2, ServerStartsQuiet DEF ServerStarts
<1>3. CASE StartupFails
  BY <1>3, StartupFailsQuiet DEF StartupFails
<1>4. CASE Saving
  BY <1>4, CrashQuiet, SaveQuiet, SaveFailsQuiet, AutoRetryQuiet
     DEF Saving, SaveEscapes, Save, SaveFails, AutoRetry
<1>5. CASE InputUnavailable
  BY <1>5, InputUnavailableQuiet DEF InputUnavailable, Asked
<1>6. CASE Answered
  <2>1. Quietly \/ Prepares
    BY <1>6, AnswerGuidanceQuiet, AnswerEscalationQuiet, AnswerArchitectQuiet,
       AnswerApprovalCases DEF Answered
  <2>2. pc # "down" /\ UNCHANGED gitvars
    BY <1>6 DEF Answered, AnswerGuidance, AnswerEscalation, AnswerArchitect, AnswerApproval,
       Asked
  <2> QED
    BY <2>1, <2>2
<1>7. CASE AgentReturns
  <2>1. Quietly \/ Plans \/ Prepares
    BY <1>7, FailsQuiet, PlannerCompleteQuiet, ReplannedQuiet, PlannerReadyPlans,
       ArchitectNeedsInputQuiet, ArchitectDecidesCases, BuilderReportsCompleteQuiet,
       BuilderReportsBlockedQuiet, AuditorAcceptsQuiet, AuditorRevisesQuiet,
       AuditorReplansQuiet DEF AgentReturns
  <2>2. pc # "down" /\ UNCHANGED gitvars
    BY <1>7 DEF AgentReturns, AgentFails, PlannerComplete, PlannerReady, ArchitectNeedsInput,
       ArchitectDecides, BuilderReportsComplete, BuilderReportsBlocked, AuditorAccepts,
       AuditorRevises, AuditorReplans
  <2> QED
    BY <2>1, <2>2
<1>8. CASE \/ RetryOperationalFailure \/ Invoke \/ ReachLimit \/ CreateWorktreeFails
           \/ RecordDecisionFails \/ Verify \/ AdoptMerge \/ MergeFails \/ MergeConflicts
           \/ ValidateCleanup \/ InspectWorktree \/ CleanupWorktreeFails \/ CleanupBranchFails
  <2>1. Quietly
    BY <1>8, RetryQuiet, InvokeQuiet, ReachLimitQuiet, FailsQuiet, VerifyQuiet, AdoptMergeQuiet
  <2>2. pc # "down" /\ UNCHANGED gitvars
    BY <1>8 DEF RetryOperationalFailure, Invoke, ReachLimit, CreateWorktreeFails,
       RecordDecisionFails, Verify, AdoptMerge, MergeFails, MergeConflicts,
       ValidateCleanup, InspectWorktree, CleanupWorktreeFails, CleanupBranchFails
  <2> QED
    BY <2>1, <2>2
<1> QED
  BY <1>1, <1>2, <1>3, <1>4, <1>5, <1>6, <1>7, <1>8
     DEF Next, Supervise, Environment, Dispatch, GitActions

(* Ids are only ever added, and so are approvals and reviews. *)
Grown ==
  /\ nextId' = nextId \/ nextId' = nextId + 1
  /\ approved \subseteq approved' /\ reviewed \subseteq reviewed'

LEMMA Growing ==
  ASSUME Next
  PROVE  Grown
<1>1. CASE StartRun
  BY <1>1 DEF Grown, StartRun
<1>2. CASE ResumeRun
  BY <1>2 DEF Grown, ResumeRun, ghosts
<1>3. CASE ServerStarts
  BY <1>3 DEF Grown, ServerStarts
<1>4. CASE StartupFails
  BY <1>4 DEF Grown, StartupFails
<1>5. CASE Saving
  BY <1>5 DEF Grown, Saving, Save, SaveFails, SaveEscapes, AutoRetry
<1>6. CASE InputUnavailable
  BY <1>6 DEF Grown, InputUnavailable
<1>7. CASE RetryOperationalFailure \/ Invoke \/ ReachLimit
  BY <1>7 DEF Grown, RetryOperationalFailure, Invoke, ReachLimit
<1>8. CASE CreateWorktree \/ ProvisioningFails \/ CreateWorktreeFails
  BY <1>8 DEF Grown, CreateWorktree, ProvisioningFails, CreateWorktreeFails
<1>9. CASE RecordDecision \/ RecordDecisionFails \/ Verify
  BY <1>9 DEF Grown, RecordDecision, RecordDecisionFails, Verify
<1>10. CASE AdoptMerge \/ Merge \/ MergeFails
  BY <1>10 DEF Grown, AdoptMerge, Merge, MergeFails
<1>11. CASE MergeConflicts \/ CleanupWorktree \/ CleanupWorktreeFails
  BY <1>11 DEF Grown, MergeConflicts, CleanupWorktree, CleanupWorktreeFails
<1>12. CASE ValidateCleanup \/ InspectWorktree \/ CleanupBranch \/ CleanupBranchFails
  BY <1>12 DEF Grown, ValidateCleanup, InspectWorktree, CleanupBranch, CleanupBranchFails
<1>13. CASE AgentFails \/ PlannerComplete
  BY <1>13 DEF Grown, AgentFails, PlannerComplete
<1>14. CASE PlannerReady \/ ArchitectNeedsInput
  BY <1>14 DEF Grown, PlannerReady, ArchitectNeedsInput
<1>15. CASE ArchitectDecides \/ BuilderReportsComplete
  BY <1>15 DEF Grown, ArchitectDecides, BuilderReportsComplete
<1>16. CASE BuilderReportsBlocked \/ AuditorAccepts
  BY <1>16 DEF Grown, BuilderReportsBlocked, AuditorAccepts
<1>17. CASE AuditorRevises \/ AuditorReplans
  BY <1>17 DEF Grown, AuditorRevises, AuditorReplans
<1>18. CASE AnswerGuidance \/ AnswerEscalation
  BY <1>18 DEF Grown, AnswerGuidance, AnswerEscalation
<1>19. CASE AnswerArchitect \/ AnswerApproval
  BY <1>19 DEF Grown, AnswerArchitect, AnswerApproval
<1>20. CASE Crash
  BY <1>20 DEF Grown, Crash
<1>21. CASE BuilderWorks \/ LeftoverSessionWorks
  BY <1>21 DEF Grown, BuilderWorks, LeftoverSessionWorks, WorkOn
<1>22. CASE OperatorCommits \/ OperatorMerges
  BY <1>22 DEF Grown, OperatorCommits, OperatorMerges, ghosts
<1>23. CASE OperatorRestores \/ OperatorCleans \/ OperatorRemoves
  BY <1>23 DEF Grown, OperatorRestores, OperatorCleans, OperatorRemoves
<1> QED
  BY <1>1, <1>2, <1>3, <1>4, <1>5, <1>6, <1>7, <1>8, <1>9, <1>10, <1>11, <1>12, <1>13, <1>14,
     <1>15, <1>16, <1>17, <1>18, <1>19, <1>20, <1>21, <1>22, <1>23
     DEF Next, Supervise, Environment, Dispatch, AgentReturns, Answered

LEMMA OnlyGrows ==
  ASSUME IInv, Next
  PROVE  nextId \in Nat /\ nextId' \in Nat /\ nextId <= nextId' /\ Grown
<1>1. Grown
  BY Growing
<1>2. nextId \in Nat
  BY DEF IInv, TypeOK
<1> QED
  BY <1>1, <1>2 DEF Grown

-----------------------------------------------------------------------------
(* Commits *)

LEMMA Typed ==
  ASSUME IInv
  PROVE  /\ integ \in Seq(Entries) /\ integ # <<>>
         /\ \A i \in DOMAIN integ : integ[i].id \in Nat /\ integ[i].second \in Nat \cup {None}
         /\ \A t \in Tasks : branch[t] # None =>
              /\ branch[t] \in Branches /\ branch[t].base \in Nat /\ branch[t].log \in Seq(Nat)
              /\ \A k \in DOMAIN branch[t].log : branch[t].log[k] \in Nat
         /\ tree # None => /\ tree \in Trees /\ tree.task \in Tasks /\ branch[tree.task] # None
                           /\ tree.untracked \subseteq tree.adrs
         /\ nextId \in Nat /\ None \notin Nat
<1>1. /\ integ \in Seq(Entries) /\ branch \in [Tasks -> Branches \cup {None}]
      /\ tree \in Trees \cup {None} /\ nextId \in Nat /\ GitOK
  BY DEF IInv, TypeOK
<1>2. \A i \in DOMAIN integ : integ[i] \in Entries
  BY <1>1
<1>3. ASSUME NEW t \in Tasks, branch[t] # None
      PROVE  /\ branch[t] \in Branches /\ branch[t].base \in Nat /\ branch[t].log \in Seq(Nat)
             /\ \A k \in DOMAIN branch[t].log : branch[t].log[k] \in Nat
  <2>1. branch[t] \in Branches
    BY <1>1, <1>3
  <2>2. branch[t].base \in Nat /\ branch[t].log \in Seq(Nat)
    BY <2>1 DEF Branches
  <2> QED
    BY <2>1, <2>2
<1>4. tree # None => tree \in Trees /\ tree.task \in Tasks
  BY <1>1 DEF Trees
<1> QED
  BY <1>1, <1>2, <1>3, <1>4, NullAssumption DEF Entries, GitOK

LEMMA HeadInLog ==
  ASSUME IInv, NEW t \in Tasks, branch[t] # None, branch[t].log # <<>>
  PROVE  /\ Len(branch[t].log) \in DOMAIN branch[t].log
         /\ HeadOf(branch[t]) = branch[t].log[Len(branch[t].log)]
         /\ HeadOf(branch[t]) \in Commits(branch[t])
<1>1. branch[t].log \in Seq(Nat)
  BY Typed
<1>2. Len(branch[t].log) \in DOMAIN branch[t].log
  BY <1>1
<1> QED
  BY <1>2 DEF HeadOf, Commits

-----------------------------------------------------------------------------
(* What documents know survives quiet steps *)

LEMMA KnowsKept ==
  ASSUME NEW d, d.intent \in Intents \cup {None}, Knows(d), UNCHANGED gitvars, IInv, Next
  PROVE  Knows(d)'
<1>1. /\ integ' = integ /\ branch' = branch /\ tree' = tree /\ nextId \in Nat /\ nextId' \in Nat
      /\ nextId <= nextId' /\ approved \subseteq approved'
  BY OnlyGrows DEF gitvars, Grown
<1>2. ClaimsOK(d)'
  <2>1. Published(d.integrationHead)'
    BY <1>1 DEF Knows, ClaimsOK, Published
  <2>2. ASSUME d.intent # None, d.intent.base # None
        PROVE  d.intent.base < nextId'
    <3>1. d.intent.base \in Nat
      BY <2>2 DEF Intents
    <3>2. d.intent.base < nextId
      BY <2>2 DEF Knows, ClaimsOK
    <3> QED
      BY <1>1, <3>1, <3>2
  <2> QED
    BY <1>1, <2>1, <2>2 DEF Knows, ClaimsOK, Commits, Integrated
<1>3. AheadOK(d)'
  BY <1>1 DEF Knows, AheadOK
<1>4. RecordsOK(d)'
  BY <1>1 DEF Knows, RecordsOK, ApprovedOK
<1>5. CountOK(d)'
  BY <1>1 DEF Knows, CountOK, Merges, Unfinished, Commits
<1> QED
  BY <1>2, <1>3, <1>4, <1>5 DEF Knows

LEMMA SavedKept ==
  ASSUME NEW d, SavedOK(d), UNCHANGED gitvars, IInv, Next
  PROVE  SavedOK(d)'
<1>1. integ' = integ /\ branch' = branch /\ tree' = tree /\ approved \subseteq approved'
  BY OnlyGrows DEF gitvars, Grown
<1> QED
  BY <1>1 DEF SavedOK, ApprovedOK, IntegrationAdrs

(* What was old stays old. *)
LEMMA OldIds ==
  ASSUME IInv, IdsOK, NEW n \in Nat, nextId <= n
  PROVE  /\ \A i \in DOMAIN integ : integ[i].id < n
                                    /\ (integ[i].second # None => integ[i].second < n)
         /\ \A t \in Tasks : branch[t] # None =>
              /\ branch[t].base < n
              /\ \A k \in DOMAIN branch[t].log : branch[t].base < branch[t].log[k]
                                                 /\ branch[t].log[k] < n
<1>1. nextId \in Nat
  BY Typed
<1>2. ASSUME NEW i \in DOMAIN integ
      PROVE  integ[i].id < n /\ (integ[i].second # None => integ[i].second < n)
  <2>1. integ[i].id \in Nat /\ integ[i].second \in Nat \cup {None}
    BY Typed
  <2>2. integ[i].id < nextId /\ (integ[i].second # None => integ[i].second < nextId)
    BY DEF IdsOK
  <2> QED
    BY <1>1, <2>1, <2>2
<1>3. ASSUME NEW t \in Tasks, branch[t] # None
      PROVE  /\ branch[t].base < n
             /\ \A k \in DOMAIN branch[t].log : branch[t].base < branch[t].log[k]
                                                /\ branch[t].log[k] < n
  <2>1. branch[t].base \in Nat /\ \A k \in DOMAIN branch[t].log : branch[t].log[k] \in Nat
    BY <1>3, Typed
  <2>2. /\ branch[t].base < nextId
        /\ \A k \in DOMAIN branch[t].log : branch[t].base < branch[t].log[k]
                                           /\ branch[t].log[k] < nextId
    BY <1>3 DEF IdsOK
  <2> QED
    BY <1>1, <2>1, <2>2
<1> QED
  BY <1>2, <1>3

LEMMA GitKept ==
  ASSUME IInv, GInv, Next, UNCHANGED gitvars
  PROVE  IdsOK' /\ MergesBring' /\ GitRecordsOK'
<1>1. /\ integ' = integ /\ branch' = branch /\ tree' = tree /\ nextId \in Nat /\ nextId' \in Nat
      /\ nextId <= nextId' /\ approved \subseteq approved'
  BY OnlyGrows DEF gitvars, Grown
<1>2. IdsOK'
  BY <1>1, OldIds DEF GInv, IdsOK
<1>3. MergesBring'
  BY <1>1 DEF GInv, MergesBring
<1>4. GitRecordsOK'
  BY <1>1 DEF GInv, GitRecordsOK, ApprovedOK, IntegrationAdrs
<1> QED
  BY <1>2, <1>3, <1>4

(* The document in memory is replaced; that on disk stays. *)
LEMMA MoveKeeps ==
  ASSUME IInv, GInv, Next, UNCHANGED gitvars, disk # None, UNCHANGED <<disk, touched>>,
         mem' # None => Knows(mem)'
  PROVE  GInv'
<1>1. PICK d : d = disk
  OBVIOUS
<1>2. Knows(d) /\ SavedOK(d) /\ DiskMatches /\ d.intent \in Intents \cup {None}
  BY <1>1 DEF GInv, IInv, TypeOK, Documents
<1>3. Knows(d)' /\ SavedOK(d)'
  BY <1>2, KnowsKept, SavedKept
<1>4. DiskMatches'
  BY <1>2 DEF DiskMatches, gitvars, TaskHead, Snapshot
<1>5. disk' = d /\ d # None
  BY <1>1
<1>6. Knows(disk)' /\ SavedOK(disk)'
  BY <1>3, <1>5
<1> QED
  BY <1>4, <1>5, <1>6, GitKept DEF GInv

(* What a checkpoint writes into a document *)
LEMMA Checkpointed ==
  ASSUME NEW s, s = [f \in Fields |-> s[f]], NEW c, c = Checkpoint(s)
  PROVE  /\ \A f \in Fields \ {"integrationHead", "expectedHead", "snapshot"} : c[f] = s[f]
         /\ c.integrationHead = IntegrationHead
         /\ EffectivePhase(c) = EffectivePhase(s)
         /\ EffectivePhase(s) = "cleanup_branch" \/ s.worktree = None => c.snapshot = None
         /\ EffectivePhase(s) # "cleanup_branch" /\ s.worktree # None =>
              c.expectedHead = TaskHead /\ c.snapshot = Snapshot
<1>1. /\ c = [f \in Fields |-> c[f]]
      /\ \A f \in Fields \ {"integrationHead", "expectedHead", "snapshot"} : c[f] = s[f]
      /\ c.integrationHead = IntegrationHead
      /\ EffectivePhase(s) = "cleanup_branch" \/ s.worktree = None => c.snapshot = None
      /\ EffectivePhase(s) # "cleanup_branch" /\ s.worktree # None =>
           c.expectedHead = TaskHead /\ c.snapshot = Snapshot
  BY DEF Checkpoint, Fields
<1>2. c.phase = s.phase /\ c.error = s.error
  BY <1>1 DEF Fields
<1> QED
  BY <1>1, <1>2 DEF EffectivePhase

LEMMA HeadPublished ==
  ASSUME IInv
  PROVE  Published(IntegrationHead)
<1>1. integ \in Seq(Entries) /\ integ # <<>>
  BY DEF IInv, TypeOK, GitOK
<1>2. Len(integ) \in DOMAIN integ
  BY <1>1
<1> QED
  BY <1>2 DEF Published, IntegrationHead

(* A document that is saved knows what the one in memory knew, and matches *)
(* the worktree.                                                           *)
LEMMA Saves ==
  ASSUME IInv, IdsOK, GitRecordsOK, NEW s, s = [f \in Fields |-> s[f]], Knows(s),
         ~CheckpointFails(s), NEW c, c = Checkpoint(s)
  PROVE  /\ Knows(c) /\ SavedOK(c)
         /\ c.worktree # None /\ EffectivePhase(c) \in RetryTargetPhases \ CleanupPhases =>
              tree # None /\ TaskHead = c.expectedHead /\ Snapshot = c.snapshot
<1>1. /\ c.intent = s.intent /\ c.worktree = s.worktree /\ c.adr = s.adr
      /\ c.accepted = s.accepted /\ c.mergeTask = s.mergeTask
      /\ c.integrationHead = IntegrationHead
      /\ EffectivePhase(c) = EffectivePhase(s)
      /\ EffectivePhase(s) = "cleanup_branch" \/ s.worktree = None => c.snapshot = None
      /\ EffectivePhase(s) # "cleanup_branch" /\ s.worktree # None =>
           c.expectedHead = TaskHead /\ c.snapshot = Snapshot
  BY Checkpointed DEF Fields
<1>2. Knows(c)
  BY <1>1, HeadPublished DEF Knows, ClaimsOK, AheadOK, RecordsOK, CountOK, Due
<1>3. /\ s.worktree # None /\ EffectivePhase(s) # "cleanup_branch" => tree # None
      /\ EffectivePhase(s) = "cleanup_branch" => tree = None
  BY DEF CheckpointFails, Knows, ClaimsOK
<1>4. Noted(c) \subseteq IF tree = None THEN {} ELSE tree.untracked
  BY <1>1, <1>3, Nulls DEF Noted, Snapshot
<1>5. SavedOK(c)
  <2>1. tree # None => tree.untracked \subseteq tree.adrs
    BY DEF IInv, GitOK
  <2>2. ApprovedOK(Noted(c)) /\ Noted(c) \cap IntegrationAdrs = {}
    BY <1>4, <2>1 DEF GitRecordsOK, ApprovedOK
  <2>3. NumbersUnique(Noted(c) \cup Due(c) \cup (IF tree = None THEN {} ELSE tree.adrs))
    <3>1. Due(c) = Due(s)
      BY <1>1 DEF Due
    <3>2. CASE tree = None
      BY <1>4, <3>2 DEF NumbersUnique, Due
    <3>3. CASE tree # None
      <4>1. Noted(c) \cup Due(c) \cup tree.adrs = tree.adrs \cup Due(s)
        BY <1>4, <2>1, <3>1, <3>3
      <4> QED
        BY <3>3, <4>1 DEF Knows, RecordsOK
    <3> QED
      BY <3>2, <3>3
  <2>4. ASSUME EffectivePhase(c) \in PostBuildPhases
        PROVE  Noted(c) = {} /\ (tree # None => branch[tree.task].base < c.expectedHead)
    <3>1. Noted(c) = {}
      BY <1>1, <1>4, <2>4 DEF Knows, RecordsOK
    <3>2. ASSUME tree # None
          PROVE  branch[tree.task].base < c.expectedHead
      <4>1. c.expectedHead = TaskHead /\ branch[tree.task].log # <<>>
        BY <1>1, <1>3, <2>4, <3>2 DEF Knows, AheadOK
      <4> QED
        BY <3>2, <4>1, HeadInLog, Typed DEF IdsOK, TaskHead
    <3> QED
      BY <3>1, <3>2
  <2> QED
    BY <2>2, <2>3, <2>4 DEF SavedOK
<1> QED
  BY <1>1, <1>2, <1>3, <1>5 DEF CleanupPhases

LEMMA SaveKeeps ==
  ASSUME IInv, GInv, Next, UNCHANGED gitvars, NEW s, s = [f \in Fields |-> s[f]], Knows(s),
         ~CheckpointFails(s), disk' = Checkpoint(s), mem' \in {Checkpoint(s), None}, disk' # None
  PROVE  GInv'
<1>1. PICK c : c = Checkpoint(s)
  OBVIOUS
<1>2. /\ Knows(c) /\ SavedOK(c)
      /\ c.worktree # None /\ EffectivePhase(c) \in RetryTargetPhases \ CleanupPhases =>
              tree # None /\ TaskHead = c.expectedHead /\ Snapshot = c.snapshot
  BY <1>1, Saves DEF GInv
<1>3. disk' = c /\ mem' \in {c, None} /\ c.intent \in Intents \cup {None}
  BY <1>1, NextInvariant DEF IInv, TypeOK, Documents
<1>4. Knows(c)' /\ SavedOK(c)'
  BY <1>2, <1>3, KnowsKept, SavedKept
<1>5. DiskMatches'
  BY <1>2, <1>3 DEF DiskMatches, gitvars, TaskHead, Snapshot
<1>6. Knows(disk)' /\ SavedOK(disk)' /\ (mem' # None => Knows(mem)')
  BY <1>3, <1>4
<1> QED
  BY <1>5, <1>6, GitKept DEF GInv

(* the first of the commits of a task that are merged is a merge of its head *)
LEMMA AdoptedUnfinished ==
  ASSUME IInv, pc # "down", AheadOK(mem), NEW s, Adopted(s)
  PROVE  Unfinished # {} /\ mem.mergeTask # None
<1>1. EffectivePhase(mem) = "merging" /\ TaskHead = mem.mergeTask
  BY DEF Adopted, MergeIntentStands
<1>2. PICK i \in DOMAIN integ : integ[i].second = mem.mergeTask
  BY DEF Adopted
<1>3. tree # None
  BY <1>1 DEF IInv, MemOK, LiveOK, AheadOK, TypeOK, CleanupPhases, PostBuildPhases, MergePhases
<1>4. branch[tree.task] # None /\ tree.task \in Tasks /\ branch[tree.task].log # <<>>
  BY <1>1, <1>3, Typed DEF AheadOK, PostBuildPhases, MergePhases
<1>5. TaskHead \in Commits(branch[tree.task]) /\ TaskHead \in Nat
  <2>1. TaskHead \in Commits(branch[tree.task])
    BY <1>4, HeadInLog DEF TaskHead
  <2> QED
    BY <1>4, <2>1, Typed DEF Commits
<1>6. mem.mergeTask # None
  BY <1>1, <1>5, Typed
<1>7. i \in Unfinished
  BY <1>1, <1>2, <1>4, <1>5, <1>6 DEF Unfinished, Merges
<1> QED
  BY <1>6, <1>7

LEMMA KnowsMoved ==
  ASSUME IInv, pc # "down", Knows(mem), NEW s, SameBut(mem, s, Fields \ Held), Moves(s)
  PROVE  Knows(s)
<1>1. /\ s.intent = mem.intent /\ s.worktree = mem.worktree /\ s.adr = mem.adr
      /\ s.accepted = mem.accepted /\ s.integrationHead = mem.integrationHead
  BY DEF SameBut, Held, Fields
<1> PICK e, n : e = EffectivePhase(s) /\ n = EffectivePhase(mem)
  OBVIOUS
<1>2. \/ e = n /\ s.mergeTask = mem.mergeTask
      \/ n \notin MergePhases /\ e \notin PostBuildPhases \cup {"recording_decision"}
      \/ n = "building" /\ e \in {"verifying", "auditing"} /\ CleanTree
           /\ branch[tree.task].log # <<>>
      \/ n = "verifying" /\ e = "auditing"
      \/ n = "auditing" /\ e = "merging"
      \/ n = "merging" /\ e = "cleanup_worktree" /\ s.mergeTask = mem.mergeTask
           /\ Unfinished # {}
  BY AdoptedUnfinished DEF Moves, Stays, Leaves, Built, Verified, Accepted, Adopted, Knows
<1>3. ClaimsOK(s)
  BY <1>1, <1>2 DEF Knows, ClaimsOK, PostBuildPhases, MergePhases
<1>4. n = "building" => mem.worktree # None
  BY DEF IInv, MemOK, DocOK, ContentOK, TaskOK, TaskPhases, RetryTargetPhases,
     PreVerificationPhases
<1>5. AheadOK(s)
  BY <1>1, <1>2, <1>4 DEF Knows, AheadOK, PostBuildPhases, MergePhases
<1>6. RecordsOK(s)
  <2>1. ApprovedOK({s.adr} \ {None})
    BY <1>1 DEF Knows, RecordsOK
  <2>2. ASSUME tree # None
        PROVE  NumbersUnique(tree.adrs \cup Due(s))
    <3>1. Due(s) \subseteq Due(mem)
      BY <1>1, <1>2 DEF Due, PostBuildPhases, MergePhases
    <3> QED
      BY <2>2, <3>1 DEF Knows, RecordsOK, NumbersUnique
  <2>3. ASSUME tree # None, e \in PostBuildPhases
        PROVE  tree.untracked = {}
    BY <1>2, <2>3 DEF Knows, RecordsOK, PostBuildPhases, MergePhases, CleanTree
  <2> QED
    BY <2>1, <2>2, <2>3 DEF RecordsOK
<1>7. CountOK(s)
  BY <1>1, <1>2 DEF Knows, CountOK, PostBuildPhases, MergePhases, CleanupPhases
<1> QED
  BY <1>3, <1>5, <1>6, <1>7 DEF Knows

(* A step that leaves Git alone, with a document s that knows Git *)
LEMMA EndsKeep ==
  ASSUME IInv, GInv, Next, UNCHANGED gitvars, pc # "down", NEW s, s = [f \in Fields |-> s[f]],
         s.intent \in Intents \cup {None}, Knows(s), Ends(s)
  PROVE  GInv'
<1>1. disk # None
  BY DEF IInv, ControlOK
<1>2. CASE mem' = s /\ UNCHANGED <<disk, touched>>
  <2>1. Knows(s)'
    BY KnowsKept
  <2> QED
    BY <1>1, <1>2, <2>1, MoveKeeps
<1>3. CASE mem' = None /\ UNCHANGED <<disk, touched>>
  BY <1>1, <1>3, MoveKeeps
<1>4. CASE /\ disk' = Checkpoint(s) /\ mem' \in {Checkpoint(s), None} /\ ~CheckpointFails(s)
           /\ (pc' = "down" => disk' # None \/ tree # None)
  <2>1. disk' # None
    <3>1. pc' # "down" => mem' # None
      BY NextInvariant DEF IInv, TypeOK
    <3>2. disk' = None => tree = None /\ pc' = "down"
      BY NextInvariant DEF IInv, ControlOK, gitvars
    <3> QED
      BY <1>4, <3>1, <3>2
  <2> QED
    BY <1>4, <2>1, SaveKeeps
<1> QED
  BY <1>2, <1>3, <1>4 DEF Ends

LEMMA InMemory ==
  ASSUME IInv, GInv, pc # "down"
  PROVE  mem \in Documents /\ mem # None /\ Knows(mem) /\ mem.intent \in Intents \cup {None}
<1>1. mem \in Documents /\ mem # None
  BY DEF IInv, TypeOK
<1> QED
  BY <1>1 DEF GInv, Documents

LEMMA QuietKeeps ==
  ASSUME IInv, GInv, Next, UNCHANGED gitvars, pc # "down", Quietly
  PROVE  GInv'
<1>1. PICK s : SameBut(mem, s, Fields \ Held) /\ Moves(s) /\ Ends(s)
  BY DEF Quietly
<1>2. Knows(s)
  BY <1>1, InMemory, KnowsMoved
<1>3. s = [f \in Fields |-> s[f]] /\ s.intent = mem.intent
  BY <1>1 DEF SameBut, Held, Fields
<1> QED
  BY <1>1, <1>2, <1>3, InMemory, EndsKeep

LEMMA PlansKeeps ==
  ASSUME IInv, GInv, Next, UNCHANGED gitvars, pc # "down", Plans
  PROVE  GInv'
<1>1. PICK s :
        /\ SameBut(mem, s, Fields \ (Held \ {"intent"})) /\ Ends(s)
        /\ s.intent \in Intents \cup {None}
        /\ s.intent # None => s.intent.base \in {IntegrationHead, None}
        /\ EffectivePhase(mem) = "planning"
        /\ EffectivePhase(s) \in {"creating_worktree", "planning"}
  BY DEF Plans
<1>2. /\ s = [f \in Fields |-> s[f]] /\ s.worktree = mem.worktree /\ s.adr = mem.adr
      /\ s.accepted = mem.accepted /\ s.integrationHead = mem.integrationHead
  BY <1>1 DEF SameBut, Held, Fields
<1>3. /\ EffectivePhase(mem) \notin PostBuildPhases /\ EffectivePhase(s) \notin PostBuildPhases
      /\ "cleanup_branch" \in PostBuildPhases /\ CleanupPhases \subseteq PostBuildPhases
      /\ MergePhases \subseteq PostBuildPhases
      /\ Due(mem) = {} /\ Due(s) = {}
  BY <1>1 DEF PostBuildPhases, MergePhases, CleanupPhases, Due
<1>4. IntegrationHead < nextId
  <2>1. Len(integ) \in DOMAIN integ
    BY Typed
  <2> QED
    BY <2>1 DEF GInv, IdsOK, IntegrationHead
<1>5. Knows(s)
  <2>1. ClaimsOK(s)
    BY <1>1, <1>2, <1>3, <1>4, InMemory DEF Knows, ClaimsOK
  <2>2. AheadOK(s) /\ RecordsOK(s)
    BY <1>2, <1>3, InMemory DEF Knows, AheadOK, RecordsOK
  <2>3. CountOK(s)
    BY <1>2, <1>3, InMemory DEF Knows, CountOK
  <2> QED
    BY <2>1, <2>2, <2>3 DEF Knows
<1> QED
  BY <1>1, <1>2, <1>5, EndsKeep

LEMMA PreparesKeeps ==
  ASSUME IInv, GInv, Next, UNCHANGED gitvars, pc # "down", Prepares
  PROVE  GInv'
<1>1. PICK s, c :
        /\ SameBut(mem, s, Fields \ (Held \ {"adr"})) /\ mem' = s /\ UNCHANGED <<disk, touched>>
        /\ s.adr = [number |-> NextAdrNumber, content |-> c]
        /\ RequireApproval => c \in approved'
        /\ EffectivePhase(mem) \in {"architecting", "awaiting_input"}
        /\ EffectivePhase(s) = "recording_decision" /\ tree # None
  BY DEF Prepares
<1>2. /\ s.intent = mem.intent /\ s.worktree = mem.worktree
      /\ s.accepted = mem.accepted /\ s.integrationHead = mem.integrationHead
  BY <1>1 DEF SameBut, Held, Fields
<1> PICK d : d = mem
  OBVIOUS
<1>3. Knows(d)'
  BY InMemory, KnowsKept
<1>4. /\ EffectivePhase(d) \notin PostBuildPhases /\ EffectivePhase(s) \notin PostBuildPhases
      /\ "cleanup_branch" \in PostBuildPhases /\ CleanupPhases \subseteq PostBuildPhases
      /\ MergePhases \subseteq PostBuildPhases
      /\ Due(s) = {s.adr}
  BY <1>1 DEF PostBuildPhases, MergePhases, CleanupPhases, Due
<1>5. ClaimsOK(s)'
  BY <1>2, <1>3, <1>4 DEF Knows, ClaimsOK
<1>6. AheadOK(s)'
  BY <1>4 DEF AheadOK
<1>7. CountOK(s)'
  BY <1>2, <1>3, <1>4 DEF Knows, CountOK
<1>8. RecordsOK(s)'
  <2>1. ApprovedOK({s.adr} \ {None})'
    BY <1>1 DEF ApprovedOK
  <2>2. NumbersUnique(tree.adrs \cup Due(s))
    <3>1. NumbersUnique(tree.adrs)
      BY <1>1, InMemory DEF Knows, RecordsOK, NumbersUnique
    <3>2. \A a \in tree.adrs : a.number # s.adr.number
      <4>1. NextAdrNumber \in Nat /\ \A a \in tree.adrs : a.number < NextAdrNumber
        BY <1>1, NextAdrFresh
      <4>2. \A a \in tree.adrs : a.number \in Nat
        BY <1>1, Typed DEF Trees, Adrs
      <4> QED
        BY <1>1, <4>1, <4>2
    <3> QED
      BY <1>4, <3>1, <3>2 DEF NumbersUnique
  <2> QED
    BY <1>4, <2>1, <2>2 DEF RecordsOK, gitvars
<1>9. Knows(s)'
  BY <1>5, <1>6, <1>7, <1>8 DEF Knows
<1>10. disk # None
  BY DEF IInv, ControlOK
<1> QED
  BY <1>1, <1>9, <1>10, MoveKeeps

LEMMA StartRunKeeps ==
  ASSUME IInv, GInv, Next, StartRun
  PROVE  GInv'
<1>1. PICK h, s : h = IntegrationHead /\ s = NewRun(h)
  OBVIOUS
<1>2. /\ disk = None /\ disk' = Checkpoint(s) /\ mem' = Checkpoint(s) /\ UNCHANGED gitvars
      /\ pc' # "down"
  BY <1>1 DEF StartRun, Persist, Control
<1>3. /\ s = [f \in Fields |-> s[f]] /\ s.intent = None /\ s.worktree = None /\ s.adr = None
      /\ s.accepted = 0 /\ s.phase = "planning" /\ s.integrationHead = h
  BY <1>1 DEF NewRun, Fields
<1>4. /\ EffectivePhase(s) = "planning" /\ "planning" \notin PostBuildPhases
      /\ "planning" \notin CleanupPhases /\ Due(s) = {}
  BY <1>3 DEF EffectivePhase, PostBuildPhases, MergePhases, CleanupPhases, Due
<1>5. Knows(s)
  <2>1. tree = None /\ Merges = {}
    BY <1>2 DEF IInv, ControlOK, GInv
  <2>2. ClaimsOK(s)
    BY <1>1, <1>3, <1>4, HeadPublished DEF ClaimsOK
  <2>3. AheadOK(s) /\ RecordsOK(s)
    BY <1>3, <1>4, <2>1 DEF AheadOK, RecordsOK, ApprovedOK
  <2>4. CountOK(s)
    BY <1>3, <1>4, <2>1, FS_EmptySet DEF CountOK, Unfinished
  <2> QED
    BY <2>2, <2>3, <2>4 DEF Knows
<1>6. disk' # None
  BY <1>2, NextInvariant DEF IInv, TypeOK
<1>7. ~CheckpointFails(s)
  BY <1>3 DEF CheckpointFails
<1> QED
  BY <1>2, <1>3, <1>5, <1>6, <1>7, SaveKeeps

LEMMA ResumeRunKeeps ==
  ASSUME IInv, GInv, Next, ResumeRun
  PROVE  GInv'
<1> PICK d : d = disk
  OBVIOUS
<1>1. /\ disk # None /\ mem' = d /\ UNCHANGED <<disk, touched>> /\ UNCHANGED gitvars
  BY DEF ResumeRun, ghosts
<1>2. Knows(d) /\ d.intent \in Intents \cup {None}
  BY <1>1 DEF GInv, IInv, TypeOK, Documents
<1>3. Knows(d)'
  BY <1>1, <1>2, KnowsKept
<1> QED
  BY <1>1, <1>3, MoveKeeps

-----------------------------------------------------------------------------
(* The worktree is created *)

(* A document of a phase before the build knows Git when ... *)
LEMMA EarlyKnows ==
  ASSUME NEW d, EffectivePhase(d) \notin PostBuildPhases \cup {"recording_decision"},
         Published(d.integrationHead)',
         d.intent # None /\ d.intent.base # None => d.intent.base < nextId',
         ApprovedOK({d.adr} \ {None})',
         tree' # None => NumbersUnique(tree.adrs)',
         (Cardinality(Merges) = d.accepted /\ Unfinished = {})'
  PROVE  Knows(d)'
<1>1. EffectivePhase(d) # "cleanup_branch" /\ EffectivePhase(d) \notin CleanupPhases
      /\ Due(d) = {}
  BY DEF PostBuildPhases, MergePhases, CleanupPhases, Due
<1>2. ClaimsOK(d)'
  BY <1>1 DEF ClaimsOK
<1>3. AheadOK(d)'
  BY DEF AheadOK
<1>4. tree' # None => NumbersUnique(tree.adrs \cup Due(d))'
  BY <1>1
<1>5. RecordsOK(d)'
  BY <1>4 DEF RecordsOK
<1>6. CountOK(d)'
  BY <1>1 DEF CountOK
<1> QED
  BY <1>2, <1>3, <1>5, <1>6 DEF Knows

LEMMA CreatedBranch ==
  ASSUME IInv, GInv, pc = "idle", mem.phase = "creating_worktree",
         Reconcilable(mem.intent.task, mem.intent.base), Created,
         UNCHANGED <<nextId, approved>>, NEW d, d = mem
  PROVE  /\ integ' = integ
         /\ IdsOK' /\ MergesBring' /\ GitRecordsOK' /\ (tree' # None => NumbersUnique(tree.adrs)')
         /\ (Cardinality(Merges) = d.accepted /\ Unfinished = {})'
<1>1. /\ mem \in Documents /\ ContentOK(mem, "creating_worktree")
      /\ EffectivePhase(mem) = "creating_worktree" /\ pc # "down"
  BY AtWork, ActivePhases
<1> PICK w : w = mem.intent
  OBVIOUS
<1>2. w \in Worktrees /\ w # None /\ \A t \in Tasks : branch'[t] # None => t = w.task
  BY CreatedGit
<1>3. Knows(mem)
  BY <1>1, InMemory
<1>4. w.task \in Tasks /\ w.base \in Nat /\ w.base < nextId
  BY <1>1, <1>2, <1>3, NullAssumption DEF Knows, ClaimsOK, Worktrees
<1>5. branch'[w.task] = [base |-> w.base, log |-> <<>>] /\ integ' = integ
  BY <1>4 DEF Created, IInv, TypeOK
<1>6. \A t \in Tasks : branch'[t] # None =>
        branch'[t].base = w.base /\ branch'[t].log = <<>>
  BY <1>2, <1>5
<1>7. IdsOK'
  BY <1>4, <1>5, <1>6 DEF GInv, IdsOK
<1>8. MergesBring'
  BY <1>6 DEF MergesBring
<1>9. tree' = tree \/ (tree'.adrs = IntegrationAdrs /\ tree'.untracked = {})
  BY DEF Created
<1>10. GitRecordsOK'
  <2>1. ApprovedOK(IntegrationAdrs)' /\ NumbersUnique(IntegrationAdrs)'
    BY <1>5 DEF GInv, GitRecordsOK, ApprovedOK, IntegrationAdrs
  <2>2. ASSUME tree' # None
        PROVE  ApprovedOK(tree.adrs)'
    <3>1. CASE tree' = tree
      BY <2>2, <3>1 DEF GInv, GitRecordsOK, ApprovedOK
    <3>2. CASE tree'.adrs = IntegrationAdrs
      BY <3>2 DEF GInv, GitRecordsOK, ApprovedOK
    <3> QED
      BY <1>9, <3>1, <3>2
  <2>3. ASSUME tree' # None
        PROVE  IntegrationAdrs \subseteq tree'.adrs \ tree'.untracked
    BY <1>9, <2>3 DEF GInv, GitRecordsOK
  <2>4. IntegrationAdrs' = IntegrationAdrs
    BY <1>5 DEF IntegrationAdrs
  <2> QED
    BY <2>1, <2>2, <2>3, <2>4 DEF GitRecordsOK
<1>11. tree' # None => NumbersUnique(tree'.adrs)
  BY <1>3, <1>9 DEF GInv, GitRecordsOK, Knows, RecordsOK, NumbersUnique
<1>12. Cardinality(Merges) = d.accepted
  BY <1>1, <1>3 DEF Knows, CountOK, MergePhases
<1>13. Cardinality(Merges)' = d.accepted
  BY <1>5, <1>12 DEF Merges
<1>14. Unfinished' = {}
  BY <1>6 DEF Unfinished, Commits
<1> QED
  BY <1>5, <1>7, <1>8, <1>10, <1>11, <1>13, <1>14

LEMMA CreateWorktreeKeeps ==
  ASSUME IInv, GInv, Next, CreateWorktree
  PROVE  GInv'
<1> PICK d : d = mem
  OBVIOUS
<1>1. PICK w, u : w = mem.intent /\ u = [mem EXCEPT !.worktree = w, !.intent = None,
                                                   !.revisions = 0, !.guidance = 0]
  OBVIOUS
<1>2. PICK s : s = Route(u)
  OBVIOUS
<1>3. /\ pc = "idle" /\ mem.phase = "creating_worktree"
      /\ Reconcilable(mem.intent.task, mem.intent.base) /\ Created
      /\ UNCHANGED <<nextId, approved>> /\ mem' = s /\ disk' = disk
  BY <1>1, <1>2 DEF CreateWorktree, Transition, Control
<1>4. /\ mem \in Documents /\ mem = [f \in Fields |-> mem[f]] /\ disk = d /\ d # None
      /\ EffectivePhase(d) = "creating_worktree" /\ ContentOK(d, "creating_worktree")
      /\ pc # "down"
  BY <1>3, AtWork, InPhase, ActivePhases
<1>5. /\ u = [f \in Fields |-> u[f]] /\ u.intent = None
      /\ \A f \in Fields \ {"worktree", "intent", "revisions", "guidance"} : u[f] = mem[f]
  BY <1>1, <1>4 DEF Fields
<1>6. /\ s.intent = None /\ s.adr = d.adr /\ s.accepted = d.accepted
      /\ s.integrationHead = d.integrationHead /\ s.phase \in {"architecting", "building"}
  BY <1>2, <1>5 DEF Route, Fields
<1>7. /\ integ' = integ
      /\ IdsOK' /\ MergesBring' /\ GitRecordsOK' /\ (tree' # None => NumbersUnique(tree.adrs)')
      /\ (Cardinality(Merges) = d.accepted /\ Unfinished = {})'
  BY <1>3, CreatedBranch
<1>8. Knows(d) /\ SavedOK(d)
  BY <1>4 DEF GInv
<1>9. /\ Published(d.integrationHead)' /\ ApprovedOK({d.adr} \ {None})'
      /\ d.intent # None /\ d.intent.base # None => d.intent.base < nextId'
  BY <1>3, <1>7, <1>8 DEF Knows, ClaimsOK, RecordsOK, Published, ApprovedOK
<1>10. /\ EffectivePhase(s) \notin PostBuildPhases \cup {"recording_decision"}
       /\ EffectivePhase(d) \notin PostBuildPhases \cup {"recording_decision"}
  BY <1>4, <1>6 DEF EffectivePhase, PostBuildPhases, MergePhases
<1>11. Knows(d)'
  BY <1>7, <1>9, <1>10, EarlyKnows
<1>12. Knows(s)'
  <2>1. Published(s.integrationHead)' /\ ApprovedOK({s.adr} \ {None})'
    BY <1>6, <1>9
  <2>2. (Cardinality(Merges) = s.accepted /\ Unfinished = {})'
    BY <1>6, <1>7
  <2> QED
    BY <1>6, <1>7, <1>10, <2>1, <2>2, EarlyKnows
<1>13. d.worktree = None /\ d.snapshot = None
  BY <1>4 DEF IInv, DiskOK, CheckedOK, ContentOK, TaskOK
<1>14. SavedOK(d)'
  <2>1. Noted(d) = {} /\ Due(d) = {}
    BY <1>10, <1>13 DEF Noted, Due
  <2>2. NumbersUnique(IF tree = None THEN {} ELSE tree.adrs)'
    BY <1>7 DEF NumbersUnique
  <2> QED
    BY <1>10, <2>1, <2>2 DEF SavedOK, ApprovedOK
<1>15. disk' = d /\ d # None
  BY <1>3, <1>4
<1>16. DiskMatches'
  BY <1>13, <1>15 DEF DiskMatches
<1>17. Knows(disk)' /\ SavedOK(disk)' /\ Knows(mem)'
  BY <1>3, <1>11, <1>12, <1>14, <1>15
<1> QED
  BY <1>7, <1>15, <1>16, <1>17 DEF GInv

LEMMA ProvisioningFailsKeeps ==
  ASSUME IInv, GInv, Next, ProvisioningFails
  PROVE  GInv'
<1> PICK d : d = mem
  OBVIOUS
<1>1. PICK w : w = Wrapped(mem, "creating_worktree", FALSE)
  OBVIOUS
<1>2. PICK c : c = Checkpoint(w)
  OBVIOUS
<1>3. /\ pc = "idle" /\ mem.phase = "creating_worktree"
      /\ Reconcilable(mem.intent.task, mem.intent.base) /\ Created
      /\ UNCHANGED <<nextId, approved>>
      /\ IF CheckpointFails(w) THEN Die ELSE Persist(w, "opfail")
  BY <1>1 DEF ProvisioningFails, Fail, FailWith, Wrapped
<1>4. /\ mem \in Documents /\ mem = [f \in Fields |-> mem[f]] /\ disk = d
      /\ SameBut(mem, mem, Fields \ Held) /\ ContentOK(d, "creating_worktree") /\ pc # "down"
  BY <1>3, AtWork, InPhase, ActivePhases
<1>5. SameBut(mem, w, Fields \ Held) /\ EffectivePhase(w) = "creating_worktree"
  BY <1>4, <1>1, WrappedFields
<1>6. /\ w = [f \in Fields |-> w[f]] /\ w.intent = d.intent /\ w.worktree = None
      /\ w.adr = d.adr /\ w.accepted = d.accepted
  BY <1>4, <1>5 DEF SameBut, Held, Fields, ContentOK, TaskOK
<1>7. disk' = c /\ mem' = c /\ pc' # "down"
  BY <1>2, <1>3, <1>6 DEF CheckpointFails, Persist, Control
<1>8. /\ c.intent = d.intent /\ c.worktree = None /\ c.adr = d.adr /\ c.accepted = d.accepted
      /\ c.integrationHead = IntegrationHead /\ EffectivePhase(c) = "creating_worktree"
      /\ c.snapshot = None
  <2>1. /\ \A f \in Fields \ {"integrationHead", "expectedHead", "snapshot"} : c[f] = w[f]
        /\ c.integrationHead = IntegrationHead
        /\ EffectivePhase(c) = EffectivePhase(w)
        /\ (EffectivePhase(w) = "cleanup_branch" \/ w.worktree = None => c.snapshot = None)
    BY <1>6, <1>2, Checkpointed DEF Fields
  <2>2. c.intent = w.intent /\ c.worktree = w.worktree /\ c.adr = w.adr /\ c.accepted = w.accepted
    BY <2>1 DEF Fields
  <2> QED
    BY <1>5, <1>6, <2>1, <2>2
<1>9. /\ integ' = integ
      /\ IdsOK' /\ MergesBring' /\ GitRecordsOK' /\ (tree' # None => NumbersUnique(tree.adrs)')
      /\ (Cardinality(Merges) = d.accepted /\ Unfinished = {})'
  BY <1>3, CreatedBranch
<1>10. EffectivePhase(c) \notin PostBuildPhases \cup {"recording_decision"}
  BY <1>8 DEF PostBuildPhases, MergePhases
<1>11. Knows(c)'
  <2>1. Knows(d)
    BY <1>4, InMemory
  <2>2. Published(c.integrationHead)'
    BY <1>8, <1>9, HeadPublished DEF Published
  <2>3. ApprovedOK({c.adr} \ {None})'
        /\ (c.intent # None /\ c.intent.base # None => c.intent.base < nextId')
    BY <1>3, <1>8, <2>1 DEF Knows, ClaimsOK, RecordsOK, ApprovedOK
  <2>4. (Cardinality(Merges) = c.accepted /\ Unfinished = {})'
    BY <1>8, <1>9
  <2> QED
    BY <1>9, <1>10, <2>2, <2>3, <2>4, EarlyKnows
<1>12. SavedOK(c)'
  <2>1. Noted(c) = {} /\ Due(c) = {}
    BY <1>8, <1>10 DEF Noted, Due
  <2>2. NumbersUnique(IF tree = None THEN {} ELSE tree.adrs)'
    BY <1>9 DEF NumbersUnique
  <2> QED
    BY <1>10, <2>1, <2>2 DEF SavedOK, ApprovedOK
<1>13. DiskMatches'
  BY <1>7, <1>8 DEF DiskMatches
<1>14. disk' # None
  BY <1>7, NextInvariant DEF IInv, TypeOK
<1>15. Knows(disk)' /\ SavedOK(disk)' /\ Knows(mem)'
  BY <1>7, <1>11, <1>12
<1> QED
  BY <1>9, <1>13, <1>14, <1>15 DEF GInv

-----------------------------------------------------------------------------
(* A decision is recorded *)

LEMMA RecordDecisionKeeps ==
  ASSUME IInv, GInv, Next, RecordDecision
  PROVE  GInv'
<1> PICK d, a : d = mem /\ a = mem.adr
  OBVIOUS
<1>1. PICK e : e = IF mem.decision = "planner" THEN "building" ELSE "planning"
  OBVIOUS
<1>2. PICK s : s = [mem EXCEPT !.adr = None, !.decision = None, !.architectRetries = 0,
                               !.phase = e]
  OBVIOUS
<1>3. /\ pc = "idle" /\ mem.phase = "recording_decision" /\ mem' = s
      /\ UNCHANGED <<disk, touched, integ, branch, nextId, approved>>
      /\ tree' = IF a \in tree.adrs THEN tree
                 ELSE [tree EXCEPT !.adrs = @ \cup {a}, !.untracked = @ \cup {a}]
  BY <1>1, <1>2 DEF RecordDecision, Transition, Control
<1>4. /\ mem \in Documents /\ mem = [f \in Fields |-> mem[f]] /\ disk = d /\ pc # "down"
      /\ EffectivePhase(d) = "recording_decision" /\ d # None /\ d.adr # None
  BY <1>3, AtWork, InPhase, ActivePhases DEF ContentOK, DecisionOK
<1>5. /\ s.intent = d.intent /\ s.adr = None /\ s.accepted = d.accepted
      /\ s.integrationHead = d.integrationHead /\ s.phase = e /\ s.worktree = d.worktree
  BY <1>2, <1>4 DEF Fields
<1>6. EffectivePhase(s) = e /\ e \notin PostBuildPhases \cup {"recording_decision"}
  BY <1>1, <1>5 DEF EffectivePhase, PostBuildPhases, MergePhases
<1>7. /\ Due(d) = {a} /\ EffectivePhase(d) \notin PostBuildPhases
      /\ EffectivePhase(d) \notin MergePhases
  BY <1>4 DEF Due, PostBuildPhases, MergePhases
<1>8. tree # None /\ tree \in Trees /\ d.worktree # None
  BY <1>3, InTask, ActivePhases, Typed DEF CleanupPhases
<1>9. /\ tree' # None /\ tree'.task = tree.task /\ tree'.adrs = tree.adrs \cup {a}
      /\ tree'.edited = tree.edited
      /\ tree'.untracked = tree.untracked \cup (IF a \in tree.adrs THEN {} ELSE {a})
  <2>1. tree' # None
    <3>1. pc' # "down"
      BY DEF RecordDecision, Transition, Control
    <3>2. LiveOK(s, EffectivePhase(s))'
      BY <1>3, <3>1, NextInvariant DEF IInv, MemOK
    <3> QED
      BY <1>5, <1>6, <1>8, <3>2, PhaseFacts DEF LiveOK
  <2> QED
    BY <1>3, <1>8, <2>1 DEF Trees
<1>10. Knows(d) /\ SavedOK(d) /\ DiskMatches
  BY <1>4 DEF GInv
<1>11. IdsOK' /\ MergesBring'
  BY <1>3 DEF GInv, IdsOK, MergesBring
<1>12. IntegrationAdrs' = IntegrationAdrs /\ a \in Adrs
  BY <1>3, <1>4 DEF IntegrationAdrs, Documents
<1>13. ApprovedOK(tree.adrs)'
  <2>1. ApprovedOK({a}) /\ ApprovedOK(tree.adrs)
    BY <1>4, <1>8, <1>10 DEF Knows, RecordsOK, GInv, GitRecordsOK
  <2> QED
    BY <1>3, <1>9, <2>1 DEF ApprovedOK
<1>14. GitRecordsOK'
  <2>1. ApprovedOK(IntegrationAdrs)' /\ NumbersUnique(IntegrationAdrs)'
    BY <1>3, <1>12 DEF GInv, GitRecordsOK, ApprovedOK
  <2>2. IntegrationAdrs \subseteq tree'.adrs \ tree'.untracked
    BY <1>8, <1>9 DEF GInv, GitRecordsOK
  <2> QED
    BY <1>12, <1>13, <2>1, <2>2 DEF GitRecordsOK
<1>15. NumbersUnique(tree.adrs)'
  BY <1>7, <1>8, <1>9, <1>10 DEF Knows, RecordsOK
<1>16. (Cardinality(Merges) = d.accepted /\ Unfinished = {})'
  BY <1>3, <1>7, <1>10 DEF Knows, CountOK, Merges, Unfinished
<1>17. Knows(s)'
  <2>1. Published(s.integrationHead)'
    BY <1>3, <1>5, <1>10 DEF Knows, ClaimsOK, Published
  <2>2. s.intent # None /\ s.intent.base # None => s.intent.base < nextId'
    BY <1>3, <1>5, <1>10 DEF Knows, ClaimsOK
  <2>3. ApprovedOK({s.adr} \ {None})'
    BY <1>5 DEF ApprovedOK
  <2>4. (Cardinality(Merges) = s.accepted /\ Unfinished = {})'
    BY <1>5, <1>16
  <2> QED
    BY <1>6, <1>15, <2>1, <2>2, <2>3, <2>4, EarlyKnows
<1>18. Knows(d)'
  <2>1. ClaimsOK(d)'
    BY <1>3, <1>4, <1>10 DEF Knows, ClaimsOK, Published
  <2>2. AheadOK(d)'
    BY <1>7 DEF AheadOK
  <2>3. RecordsOK(d)'
    <3>1. ApprovedOK({d.adr} \ {None})'
      BY <1>3, <1>10 DEF Knows, RecordsOK, ApprovedOK
    <3>2. NumbersUnique(tree'.adrs \cup Due(d))
      <4>1. tree'.adrs \cup Due(d) = tree'.adrs
        BY <1>7, <1>9
      <4> QED
        BY <1>15, <4>1
    <3> QED
      BY <1>7, <3>1, <3>2 DEF RecordsOK
  <2>4. CountOK(d)'
    BY <1>3, <1>10 DEF Knows, CountOK, Merges, Unfinished
  <2> QED
    BY <2>1, <2>2, <2>3, <2>4 DEF Knows
<1>19. SavedOK(d)'
  <2>1. ApprovedOK(Noted(d))' /\ Noted(d) \cap IntegrationAdrs' = {}
    BY <1>3, <1>10, <1>12 DEF SavedOK, ApprovedOK
  <2>2. Noted(d) \cup Due(d) \cup tree'.adrs = Noted(d) \cup Due(d) \cup tree.adrs
    BY <1>7, <1>9
  <2>3. NumbersUnique(Noted(d) \cup Due(d) \cup tree'.adrs)
    BY <1>8, <1>10, <2>2 DEF SavedOK
  <2> QED
    BY <1>7, <1>9, <2>1, <2>3 DEF SavedOK
<1>20. disk' = d
  BY <1>3, <1>4
<1>21. DiskMatches'
  <2> SUFFICES ASSUME ~touched'
               PROVE  /\ tree' # None /\ TaskHead' = d.expectedHead
                      /\ \/ Snapshot' = d.snapshot
                         \/ /\ a \in tree'.adrs \ d.snapshot.untracked
                            /\ Snapshot' = [d.snapshot EXCEPT !.untracked = @ \cup {a}]
    BY <1>20, <1>4 DEF DiskMatches
  <2>1. /\ TaskHead = d.expectedHead
        /\ \/ Snapshot = d.snapshot
           \/ /\ a \in tree.adrs \ d.snapshot.untracked
              /\ Snapshot = [d.snapshot EXCEPT !.untracked = @ \cup {a}]
    BY <1>3, <1>4, <1>8, <1>10, ActivePhases DEF DiskMatches, CleanupPhases
  <2>2. TaskHead' = d.expectedHead
    BY <1>3, <1>9, <2>1 DEF TaskHead
  <2>3. CASE a \in tree.adrs
    BY <1>3, <1>9, <2>1, <2>2, <2>3 DEF Snapshot
  <2>4. CASE a \notin tree.adrs
    <3>1. Snapshot = d.snapshot
      BY <2>1, <2>4
    <3>2. tree.untracked \subseteq tree.adrs
      BY <1>8, Typed
    <3>3. d.snapshot.untracked = tree.untracked
      BY <3>1 DEF Snapshot
    <3>4. Snapshot' = [edited |-> tree.edited, untracked |-> tree.untracked \cup {a}]
      BY <1>9, <2>4 DEF Snapshot
    <3>5. Snapshot' = [d.snapshot EXCEPT !.untracked = @ \cup {a}]
      BY <3>1, <3>4 DEF Snapshot
    <3> QED
      BY <1>9, <2>2, <2>4, <3>2, <3>3, <3>5
  <2> QED
    BY <2>3, <2>4
<1>22. Knows(disk)' /\ SavedOK(disk)' /\ Knows(mem)' /\ disk' # None
  BY <1>3, <1>4, <1>17, <1>18, <1>19, <1>20
<1> QED
  BY <1>11, <1>14, <1>21, <1>22 DEF GInv

-----------------------------------------------------------------------------
(* Commits and merges on the integration branch *)

LEMMA Appended ==
  ASSUME integ \in Seq(Entries), NEW e, integ' = Append(integ, e)
  PROVE  /\ DOMAIN integ = 1..Len(integ) /\ DOMAIN integ' = 1..(Len(integ) + 1)
         /\ Len(integ) \in Nat /\ Len(integ) + 1 \in DOMAIN integ'
         /\ \A i \in DOMAIN integ : i \in DOMAIN integ' /\ integ'[i] = integ[i]
         /\ \A i \in DOMAIN integ' : i \in DOMAIN integ \/ i = Len(integ) + 1
         /\ Len(integ) + 1 \notin DOMAIN integ /\ integ'[Len(integ) + 1] = e
<1>1. /\ DOMAIN integ = 1..Len(integ) /\ DOMAIN integ' = 1..(Len(integ) + 1) /\ Len(integ) \in Nat
  OBVIOUS
<1>2. \A i \in 1..(Len(integ) + 1) :
        integ'[i] = IF i <= Len(integ) THEN integ[i] ELSE e
  BY <1>1
<1>3. \A i \in DOMAIN integ : i \in DOMAIN integ' /\ integ'[i] = integ[i]
  BY <1>1, <1>2
<1>4. Len(integ) + 1 \in DOMAIN integ' /\ integ'[Len(integ) + 1] = e
  BY <1>1, <1>2
<1>5. \A i \in DOMAIN integ' : i \in DOMAIN integ \/ i = Len(integ) + 1
  BY <1>1
<1>6. Len(integ) + 1 \notin DOMAIN integ
  BY <1>1
<1> QED
  BY <1>1, <1>3, <1>4, <1>5, <1>6

LEMMA MergesFinite ==
  ASSUME IInv
  PROVE  IsFiniteSet(Merges) /\ Cardinality(Merges) \in Nat
<1>1. DOMAIN integ = 1..Len(integ) /\ Len(integ) \in Nat
  BY Typed
<1>2. IsFiniteSet(1..Len(integ))
  BY <1>1, FS_Interval
<1>3. IsFiniteSet(Merges)
  BY <1>1, <1>2, FS_Subset DEF Merges
<1> QED
  BY <1>3, FS_CardinalityType

(* What the merge of the head of the one task branch does to Git *)
LEMMA MergedGit ==
  ASSUME IInv, GInv, NEW d, d = disk, d # None, EffectivePhase(d) = "merging", tree # None,
         TaskHead = d.mergeTask, d.mergeTask \notin Integrated,
         integ' = Append(integ, MergeEntry(nextId, d.mergeTask, branch[tree.task])),
         nextId' = nextId + 1, UNCHANGED <<branch, tree, approved>>
  PROVE  /\ IdsOK' /\ MergesBring' /\ GitRecordsOK'
         /\ \A c : Published(c) => Published(c)'
         /\ Integrated \subseteq Integrated'
         /\ Cardinality(Merges)' = d.accepted + 1 /\ d.accepted \in Nat
         /\ \E i \in Merges' : integ'[i].second = d.mergeTask /\ d.mergeTask \in integ'[i].brings
<1> PICK b, e, n : b = branch[tree.task] /\ e = MergeEntry(nextId, d.mergeTask, b)
                   /\ n = Len(integ) + 1
  OBVIOUS
<1>1. /\ e.id = nextId /\ e.second = d.mergeTask /\ e.brings = Commits(b) /\ e.adrs = tree.adrs
  BY DEF MergeEntry
<1>2. /\ integ \in Seq(Entries) /\ nextId \in Nat /\ tree.task \in Tasks /\ branch[tree.task] # None
      /\ d \in Documents
  BY Typed DEF IInv, TypeOK
<1>3. /\ n \in DOMAIN integ' /\ n \notin DOMAIN integ /\ integ'[n] = e
      /\ \A i \in DOMAIN integ : i \in DOMAIN integ' /\ integ'[i] = integ[i]
      /\ \A i \in DOMAIN integ' : i \in DOMAIN integ \/ i = n
  BY <1>2, Appended
<1>4. Knows(d) /\ SavedOK(d)
  BY DEF GInv
<1>5. EffectivePhase(d) \in PostBuildPhases /\ EffectivePhase(d) \in MergePhases
  BY DEF PostBuildPhases, MergePhases
<1>6. b.log # <<>> /\ tree.untracked = {} /\ NumbersUnique(tree.adrs)
  BY <1>4, <1>5 DEF Knows, AheadOK, RecordsOK, NumbersUnique
<1>7. /\ Len(b.log) \in DOMAIN b.log /\ d.mergeTask = b.log[Len(b.log)]
      /\ d.mergeTask \in Commits(b) /\ d.mergeTask \in Nat /\ d.mergeTask < nextId
      /\ DOMAIN b.log = 1..Len(b.log)
  <2>1. /\ Len(b.log) \in DOMAIN b.log /\ d.mergeTask = b.log[Len(b.log)]
        /\ d.mergeTask \in Commits(b)
    BY <1>2, <1>6, HeadInLog DEF TaskHead
  <2> QED
    BY <1>2, <2>1, Typed DEF GInv, IdsOK
<1>8. IdsOK'
  <2>1. nextId' \in Nat /\ nextId <= nextId'
    BY <1>2
  <2>2. /\ \A i \in DOMAIN integ : integ[i].id < nextId'
                                   /\ (integ[i].second # None => integ[i].second < nextId')
        /\ \A t \in Tasks : branch[t] # None =>
             /\ branch[t].base < nextId'
             /\ \A k \in DOMAIN branch[t].log : branch[t].base < branch[t].log[k]
                                                /\ branch[t].log[k] < nextId'
    BY <2>1, OldIds DEF GInv
  <2>3. e.id < nextId' /\ e.second < nextId'
    BY <1>1, <1>2, <1>7
  <2>4. \A i \in DOMAIN integ' : integ'[i].id < nextId'
                                 /\ (integ'[i].second # None => integ'[i].second < nextId')
    BY <1>3, <2>2, <2>3
  <2> QED
    BY <2>2, <2>4 DEF IdsOK
<1>9. \A t \in Tasks : branch[t] # None => t = tree.task
  <2>1. OwnsAll(disk, "merging")
    BY DEF IInv, DiskOK
  <2> QED
    BY <1>2, <2>1 DEF OwnsAll, Owned
<1>10. MergesBring'
  <2> SUFFICES ASSUME NEW i \in DOMAIN integ', NEW t \in Tasks, branch[t] # None,
                      NEW k \in DOMAIN branch[t].log, branch[t].log[k] = integ'[i].second,
                      NEW j \in 1..k
               PROVE  branch[t].log[j] \in integ'[i].brings
    BY DEF MergesBring
  <2>1. CASE i \in DOMAIN integ
    BY <1>3, <2>1 DEF GInv, MergesBring
  <2>2. CASE i = n
    <3>1. j \in DOMAIN b.log /\ t = tree.task
      BY <1>7, <1>9
    <3> QED
      BY <1>1, <1>3, <2>2, <3>1 DEF Commits
  <2> QED
    BY <1>3, <2>1, <2>2
<1>11. IntegrationAdrs' = tree.adrs
  <2>1. IntegrationAdrs \subseteq tree.adrs
    BY DEF GInv, GitRecordsOK
  <2>2. IntegrationAdrs' = IntegrationAdrs \cup tree.adrs
    BY <1>1, <1>3 DEF IntegrationAdrs
  <2> QED
    BY <2>1, <2>2
<1>12. GitRecordsOK'
  BY <1>6, <1>11 DEF GInv, GitRecordsOK, ApprovedOK
<1>13. Integrated \subseteq Integrated' /\ \A c : Published(c) => Published(c)'
  BY <1>3 DEF Integrated, Published
<1>14. Cardinality(Merges) = d.accepted /\ d.accepted \in Nat
  <2>1. ~\E i \in Merges : integ[i].second = d.mergeTask /\ d.mergeTask \in integ[i].brings
    BY DEF Merges, Integrated
  <2>2. d.accepted \in Nat
    BY <1>2, Limits DEF Documents
  <2> QED
    BY <1>4, <2>1, <2>2 DEF Knows, CountOK
<1>15. Merges' = Merges \cup {n} /\ n \notin Merges /\ n \in Merges'
  <2>1. e.second # None
    BY <1>1, <1>7, Typed
  <2>2. \A i \in DOMAIN integ' : i \in Merges' <=> i = n \/ i \in Merges
    BY <1>3, <2>1 DEF Merges
  <2>3. Merges' \subseteq DOMAIN integ' /\ Merges \subseteq DOMAIN integ
    BY DEF Merges
  <2> QED
    BY <1>3, <2>2, <2>3
<1>16. Cardinality(Merges)' = d.accepted + 1
  BY <1>14, <1>15, MergesFinite, FS_AddElement
<1>17. \E i \in Merges' : integ'[i].second = d.mergeTask /\ d.mergeTask \in integ'[i].brings
  <2>1. integ'[n].second = d.mergeTask /\ d.mergeTask \in integ'[n].brings
    BY <1>1, <1>3, <1>7
  <2> QED
    BY <1>15, <2>1
<1> QED
  BY <1>8, <1>10, <1>12, <1>13, <1>14, <1>16, <1>17

(* What a document s of the task d knows afterwards *)
LEMMA MergedKnows ==
  ASSUME IInv, GInv, NEW d, d = disk, d # None, EffectivePhase(d) = "merging", tree # None,
         TaskHead = d.mergeTask, d.mergeTask \notin Integrated,
         integ' = Append(integ, MergeEntry(nextId, d.mergeTask, branch[tree.task])),
         nextId' = nextId + 1, UNCHANGED <<branch, tree, approved>>,
         NEW s, EffectivePhase(s) \in {"merging", "cleanup_worktree"},
         s.worktree = d.worktree, s.intent = d.intent, s.adr = d.adr, s.accepted = d.accepted,
         s.mergeTask = d.mergeTask, s.integrationHead = d.integrationHead
  PROVE  Knows(s)'
<1>1. /\ \A c : Published(c) => Published(c)'
      /\ Cardinality(Merges)' = d.accepted + 1
      /\ \E i \in Merges' : integ'[i].second = d.mergeTask /\ d.mergeTask \in integ'[i].brings
  BY MergedGit
<1>2. Knows(d)
  BY DEF GInv
<1>3. /\ EffectivePhase(d) \in PostBuildPhases /\ EffectivePhase(s) \in PostBuildPhases
      /\ EffectivePhase(s) \in MergePhases /\ Due(s) = {} /\ Due(d) = {}
  BY DEF PostBuildPhases, MergePhases, Due
<1>4. ClaimsOK(s)'
  <2>1. ASSUME s.intent # None, s.intent.base # None
        PROVE  s.intent.base < nextId'
    <3>1. s.intent.base \in Nat /\ nextId \in Nat
      BY <2>1, Typed DEF IInv, TypeOK, Documents, Intents
    <3>2. s.intent.base < nextId
      BY <1>2, <2>1 DEF Knows, ClaimsOK
    <3> QED
      BY <3>1, <3>2
  <2> QED
    BY <1>1, <1>2, <2>1 DEF Knows, ClaimsOK
<1>5. AheadOK(s)'
  BY <1>2, <1>3 DEF Knows, AheadOK
<1>6. RecordsOK(s)'
  BY <1>2, <1>3 DEF Knows, RecordsOK, ApprovedOK
<1>7. CountOK(s)'
  BY <1>1, <1>3 DEF CountOK
<1> QED
  BY <1>4, <1>5, <1>6, <1>7 DEF Knows

LEMMA MergedSaved ==
  ASSUME IInv, GInv, NEW d, d = disk, d # None, EffectivePhase(d) = "merging", tree # None,
         TaskHead = d.mergeTask, d.mergeTask \notin Integrated,
         integ' = Append(integ, MergeEntry(nextId, d.mergeTask, branch[tree.task])),
         nextId' = nextId + 1, UNCHANGED <<branch, tree, approved, disk, touched>>
  PROVE  Knows(disk)' /\ SavedOK(disk)' /\ DiskMatches' /\ disk' # None
<1>1. Knows(d)'
  BY MergedKnows
<1>2. SavedOK(d) /\ DiskMatches
  BY DEF GInv
<1>3. EffectivePhase(d) \in PostBuildPhases
  BY DEF PostBuildPhases, MergePhases
<1>4. SavedOK(d)'
  BY <1>2, <1>3 DEF SavedOK, ApprovedOK
<1>5. DiskMatches'
  BY <1>2 DEF DiskMatches, TaskHead, Snapshot
<1>6. disk' = d
  OBVIOUS
<1> QED
  BY <1>1, <1>4, <1>5, <1>6

LEMMA MergeKeeps ==
  ASSUME IInv, GInv, Next, Merge
  PROVE  GInv'
<1>1. PICK s : s = [mem EXCEPT !.mergeCommit = nextId, !.phase = "cleanup_worktree"]
  OBVIOUS
<1>2. PICK d : d = mem
  OBVIOUS
<1>3. /\ pc = "idle" /\ mem.phase = "merging" /\ TaskHead = d.mergeTask
      /\ d.mergeTask \notin Integrated /\ mem' = s
      /\ integ' = Append(integ, MergeEntry(nextId, d.mergeTask, branch[tree.task]))
      /\ nextId' = nextId + 1 /\ UNCHANGED <<branch, tree, approved, disk, touched>>
  BY <1>1, <1>2 DEF Merge, MergeIntentStands, Merged, Transition, Control
<1>4. /\ mem \in Documents /\ mem = [f \in Fields |-> mem[f]] /\ d = disk /\ d # None
      /\ EffectivePhase(d) = "merging" /\ tree # None
  BY <1>2, <1>3, AtWork, InPhase, ActivePhases, InTask DEF CleanupPhases
<1>5. /\ s.worktree = d.worktree /\ s.intent = d.intent /\ s.adr = d.adr
      /\ s.accepted = d.accepted /\ s.mergeTask = d.mergeTask
      /\ s.integrationHead = d.integrationHead /\ s.phase = "cleanup_worktree"
  BY <1>1, <1>2, <1>4 DEF Fields
<1>6. EffectivePhase(s) = "cleanup_worktree"
  BY <1>5 DEF EffectivePhase
<1>7. Knows(s)'
  BY <1>3, <1>4, <1>5, <1>6, MergedKnows
<1>8. IdsOK' /\ MergesBring' /\ GitRecordsOK'
  BY <1>3, <1>4, MergedGit
<1>9. Knows(disk)' /\ SavedOK(disk)' /\ DiskMatches' /\ disk' # None
  BY <1>3, <1>4, MergedSaved
<1> QED
  BY <1>3, <1>7, <1>8, <1>9 DEF GInv

LEMMA OperatorMergesKeeps ==
  ASSUME IInv, GInv, Next, OperatorMerges
  PROVE  GInv'
<1>1. PICK d : d = disk
  OBVIOUS
<1>2. /\ pc = "down" /\ d # None /\ EffectivePhase(d) = "merging" /\ tree # None
      /\ TaskHead = d.mergeTask /\ d.mergeTask \notin Integrated
      /\ integ' = Append(integ, MergeEntry(nextId, d.mergeTask, branch[tree.task]))
      /\ nextId' = nextId + 1 /\ UNCHANGED <<branch, tree, approved, disk, touched, mem>>
  BY <1>1 DEF OperatorMerges, process, ghosts, EffectivePhase
<1>3. mem' = None
  BY <1>2 DEF IInv, TypeOK
<1>4. IdsOK' /\ MergesBring' /\ GitRecordsOK'
  BY <1>1, <1>2, MergedGit
<1>5. Knows(disk)' /\ SavedOK(disk)' /\ DiskMatches' /\ disk' # None
  BY <1>1, <1>2, MergedSaved
<1> QED
  BY <1>3, <1>4, <1>5 DEF GInv

LEMMA OperatorCommitsKeeps ==
  ASSUME IInv, GInv, Next, OperatorCommits
  PROVE  GInv'
<1>1. PICK d, e, n : /\ d = disk /\ n = Len(integ) + 1
                     /\ e = [id |-> nextId, second |-> None, brings |-> {}, adrs |-> {}]
  OBVIOUS
<1>2. /\ pc = "down" /\ integ' = Append(integ, e) /\ nextId' = nextId + 1
      /\ UNCHANGED <<branch, tree, approved, disk, touched, mem>>
  BY <1>1 DEF OperatorCommits, process, ghosts
<1>3. /\ integ \in Seq(Entries) /\ nextId \in Nat /\ None \notin Nat
  BY Typed
<1>4. /\ n \in DOMAIN integ' /\ n \notin DOMAIN integ /\ integ'[n] = e
      /\ \A i \in DOMAIN integ : i \in DOMAIN integ' /\ integ'[i] = integ[i]
      /\ \A i \in DOMAIN integ' : i \in DOMAIN integ \/ i = n
  BY <1>1, <1>2, <1>3, Appended
<1>5. e.id = nextId /\ e.second = None /\ e.brings = {} /\ e.adrs = {}
  BY <1>1
<1>6. /\ Integrated' = Integrated /\ IntegrationAdrs' = IntegrationAdrs
      /\ \A c : Published(c) => Published(c)'
  <2>1. Integrated' = Integrated
    BY <1>4, <1>5 DEF Integrated
  <2>2. IntegrationAdrs' = IntegrationAdrs
    BY <1>4, <1>5 DEF IntegrationAdrs
  <2> QED
    BY <1>4, <2>1, <2>2 DEF Published
<1>7. Merges' = Merges /\ \A i \in Merges : integ'[i] = integ[i]
  BY <1>4, <1>5 DEF Merges
<1>8. Unfinished' = Unfinished
  BY <1>2, <1>7 DEF Unfinished
<1>9. nextId' \in Nat /\ nextId <= nextId'
  BY <1>2, <1>3
<1>10. IdsOK'
  <2>1. /\ \A i \in DOMAIN integ : integ[i].id < nextId'
                                   /\ (integ[i].second # None => integ[i].second < nextId')
        /\ \A t \in Tasks : branch[t] # None =>
             /\ branch[t].base < nextId'
             /\ \A k \in DOMAIN branch[t].log : branch[t].base < branch[t].log[k]
                                                /\ branch[t].log[k] < nextId'
    BY <1>9, OldIds DEF GInv
  <2>2. e.id < nextId'
    BY <1>2, <1>3, <1>5
  <2>3. \A i \in DOMAIN integ' : integ'[i].id < nextId'
                                 /\ (integ'[i].second # None => integ'[i].second < nextId')
    BY <1>4, <1>5, <2>1, <2>2
  <2> QED
    BY <1>2, <2>1, <2>3 DEF IdsOK
<1>11. MergesBring'
  <2> SUFFICES ASSUME NEW i \in DOMAIN integ', NEW t \in Tasks, branch[t] # None,
                      NEW k \in DOMAIN branch[t].log, branch[t].log[k] = integ'[i].second,
                      NEW j \in 1..k
               PROVE  branch[t].log[j] \in integ'[i].brings
    BY <1>2 DEF MergesBring
  <2>1. i # n
    BY <1>3, <1>4, <1>5, Typed
  <2> QED
    BY <1>4, <2>1 DEF GInv, MergesBring
<1>12. GitRecordsOK'
  BY <1>2, <1>6 DEF GInv, GitRecordsOK, ApprovedOK
<1>13. mem' = None /\ disk' = d
  BY <1>1, <1>2 DEF IInv, TypeOK
<1>14. CASE d = None
  BY <1>1, <1>7, <1>10, <1>11, <1>12, <1>13, <1>14 DEF GInv
<1>15. CASE d # None
  <2>1. Knows(d) /\ SavedOK(d) /\ DiskMatches
    BY <1>1, <1>15 DEF GInv
  <2>2. ClaimsOK(d)'
    <3>1. ASSUME d.intent # None, d.intent.base # None
          PROVE  d.intent.base < nextId'
      <4>1. d.intent.base \in Nat
        BY <1>1, <1>15, <3>1, Typed DEF IInv, TypeOK, Documents, Intents
      <4>2. d.intent.base < nextId
        BY <2>1, <3>1 DEF Knows, ClaimsOK
      <4> QED
        BY <1>3, <1>9, <4>1, <4>2
    <3> QED
      BY <1>2, <1>6, <2>1, <3>1 DEF Knows, ClaimsOK
  <2>3. AheadOK(d)' /\ RecordsOK(d)'
    BY <1>2, <2>1 DEF Knows, AheadOK, RecordsOK, ApprovedOK
  <2>4. CountOK(d)'
    BY <1>7, <1>8, <2>1 DEF Knows, CountOK
  <2>5. SavedOK(d)'
    BY <1>2, <1>6, <2>1 DEF SavedOK, ApprovedOK
  <2>6. DiskMatches'
    BY <1>2, <2>1 DEF DiskMatches, TaskHead, Snapshot
  <2>7. Knows(disk)' /\ SavedOK(disk)'
    BY <1>13, <2>2, <2>3, <2>4, <2>5 DEF Knows
  <2> QED
    BY <1>10, <1>11, <1>12, <1>13, <1>15, <2>6, <2>7 DEF GInv
<1> QED
  BY <1>14, <1>15

-----------------------------------------------------------------------------
(* Who acts                                                                *)

(* the places inside a dispatch *)
Inside == {"agent", "validated", "inspected"}

(* Only Invoke makes an agent start, only the checks of a cleanup lead on  *)
(* to the removal; inside a dispatch, all that can happen otherwise is     *)
(* that something is written into a worktree.                              *)
LEMMA AgentStarts ==
  ASSUME Next
  PROVE  \/ pc' \notin Inside
         \/ Invoke \/ ValidateCleanup \/ InspectWorktree
         \/ BuilderWorks \/ LeftoverSessionWorks
         \/ pc = "down" /\ pc' = pc
<1> USE DEF Inside
<1>1. CASE StartRun \/ ResumeRun
  BY <1>1 DEF StartRun, ResumeRun, Persist, Control
<1>2. CASE ServerStarts \/ StartupFails
  BY <1>2 DEF ServerStarts, StartupFails, FailWith, Persist, Die, Control
<1>3. CASE Save \/ SaveEscapes \/ AutoRetry
  BY <1>3 DEF Save, SaveEscapes, AutoRetry, Persist, Die, Control
<1>4. CASE SaveFails
  BY <1>4 DEF SaveFails, Fail, FailWith, Persist, Die, Control
<1>5. CASE InputUnavailable
  BY <1>5 DEF InputUnavailable, GitFails, Fail, FailWith, Persist, Die, Control
<1>6. CASE RetryOperationalFailure \/ ReachLimit \/ CreateWorktree \/ RecordDecision
           \/ CleanupWorktree \/ CleanupBranch
  BY <1>6 DEF RetryOperationalFailure, ReachLimit, CreateWorktree, RecordDecision,
     CleanupWorktree, CleanupBranch, Transition, Control
<1>7. CASE CreateWorktreeFails \/ RecordDecisionFails \/ ProvisioningFails \/ MergeFails
           \/ MergeConflicts \/ CleanupWorktreeFails \/ CleanupBranchFails
  BY <1>7 DEF CreateWorktreeFails, RecordDecisionFails, ProvisioningFails, MergeFails,
     MergeConflicts, CleanupWorktreeFails, CleanupBranchFails, GitFails, Fail, FailWith,
     Persist, Die, Control
<1>8. CASE Verify \/ AdoptMerge \/ Merge
  BY <1>8 DEF Verify, AdoptMerge, Merge, Merged, Transition, GitFails, Fail, FailWith,
     Persist, Die, Control
<1>9. CASE AgentFails
  BY <1>9 DEF AgentFails, FailWith, Persist, Die, Control
<1>10. CASE PlannerComplete \/ PlannerReady
  BY <1>10 DEF PlannerComplete, PlannerReady, Terminal, Transition, GitFails, Fail, FailWith,
     Persist, Die, Control
<1>11. CASE ArchitectNeedsInput \/ ArchitectDecides
  BY <1>11 DEF ArchitectNeedsInput, ArchitectDecides, Terminal, Transition, Fail, FailWith,
     Persist, Die, Control
<1>12. CASE BuilderReportsComplete \/ BuilderReportsBlocked
  BY <1>12 DEF BuilderReportsComplete, BuilderReportsBlocked, Transition, GitFails, Fail,
     FailWith, Persist, Die, Control
<1>13. CASE AuditorAccepts \/ AuditorRevises \/ AuditorReplans
  BY <1>13 DEF AuditorAccepts, AuditorRevises, AuditorReplans, Terminal, Transition, GitFails,
     Fail, FailWith, Persist, Die, Control
<1>14. CASE AnswerGuidance \/ AnswerEscalation \/ AnswerArchitect
  BY <1>14 DEF AnswerGuidance, AnswerEscalation, AnswerArchitect, ReplanFromInput, Terminal,
     Transition, Persist, Control
<1>15. CASE AnswerApproval
  BY <1>15 DEF AnswerApproval, Transition, Fail, FailWith, Persist, Die, Control
<1>16. CASE Crash
  BY <1>16 DEF Crash, Die, Control
<1>17. CASE OperatorCommits \/ OperatorMerges \/ OperatorRestores \/ OperatorCleans
            \/ OperatorRemoves
  BY <1>17 DEF OperatorCommits, OperatorMerges, OperatorRestores, OperatorCleans,
     OperatorRemoves, process
<1> QED
  BY <1>1, <1>2, <1>3, <1>4, <1>5, <1>6, <1>7, <1>8, <1>9, <1>10, <1>11, <1>12, <1>13, <1>14,
     <1>15, <1>16, <1>17
     DEF Next, Supervise, Environment, Dispatch, AgentReturns, Answered, Saving

(* A builder session outlives its call only when a timeout leaves it.      *)
LEMMA NoSession ==
  ASSUME Next, session = None, "leftover" \notin Faults
  PROVE  session' = None
<1>1. CASE StartRun \/ ResumeRun
  BY <1>1 DEF StartRun, ResumeRun
<1>2. CASE ServerStarts \/ StartupFails
  BY <1>2 DEF ServerStarts, StartupFails, FailWith, Die, Surviving
<1>3. CASE Save \/ SaveEscapes \/ AutoRetry
  BY <1>3 DEF Save, SaveEscapes, AutoRetry, Die, Surviving
<1>4. CASE SaveFails
  BY <1>4 DEF SaveFails, Fail, FailWith, Die, Surviving
<1>5. CASE InputUnavailable
  BY <1>5 DEF InputUnavailable, GitFails, Fail, FailWith, Die, Surviving
<1>6. CASE RetryOperationalFailure \/ Invoke \/ ReachLimit \/ CreateWorktree \/ RecordDecision
           \/ ValidateCleanup \/ InspectWorktree \/ CleanupWorktree \/ CleanupBranch
  BY <1>6 DEF RetryOperationalFailure, Invoke, ReachLimit, CreateWorktree, RecordDecision,
     ValidateCleanup, InspectWorktree, CleanupWorktree, CleanupBranch, Transition, Surviving
<1>7. CASE CreateWorktreeFails \/ RecordDecisionFails \/ ProvisioningFails \/ MergeFails
           \/ MergeConflicts \/ CleanupWorktreeFails \/ CleanupBranchFails
  BY <1>7 DEF CreateWorktreeFails, RecordDecisionFails, ProvisioningFails, MergeFails,
     MergeConflicts, CleanupWorktreeFails, CleanupBranchFails, GitFails, Fail, FailWith,
     Die, Surviving
<1>8. CASE Verify \/ AdoptMerge \/ Merge
  BY <1>8 DEF Verify, AdoptMerge, Merge, Merged, Transition, GitFails, Fail, FailWith,
     Die, Surviving
<1>9. CASE AgentFails
  BY <1>9 DEF AgentFails, FailWith, Die, Surviving
<1>10. CASE PlannerComplete \/ PlannerReady
  BY <1>10 DEF PlannerComplete, PlannerReady, Terminal, Transition, GitFails, Fail, FailWith,
     Die, Surviving
<1>11. CASE ArchitectNeedsInput \/ ArchitectDecides
  BY <1>11 DEF ArchitectNeedsInput, ArchitectDecides, Terminal, Transition, Fail, FailWith,
     Die, Surviving
<1>12. CASE BuilderReportsComplete \/ BuilderReportsBlocked
  BY <1>12 DEF BuilderReportsComplete, BuilderReportsBlocked, Transition, GitFails, Fail,
     FailWith, Die, Surviving
<1>13. CASE AuditorAccepts \/ AuditorRevises \/ AuditorReplans
  BY <1>13 DEF AuditorAccepts, AuditorRevises, AuditorReplans, Terminal, Transition, GitFails,
     Fail, FailWith, Die, Surviving
<1>14. CASE AnswerGuidance \/ AnswerEscalation \/ AnswerArchitect
  BY <1>14 DEF AnswerGuidance, AnswerEscalation, AnswerArchitect, ReplanFromInput, Terminal,
     Transition, Surviving
<1>15. CASE AnswerApproval
  BY <1>15 DEF AnswerApproval, Transition, Fail, FailWith, Die, Surviving
<1>16. CASE Crash
  BY <1>16 DEF Crash, Die, Surviving
<1>17. CASE BuilderWorks \/ LeftoverSessionWorks
  BY <1>17 DEF BuilderWorks, LeftoverSessionWorks, WorkOn
<1>18. CASE OperatorCommits \/ OperatorMerges \/ OperatorRestores \/ OperatorCleans
            \/ OperatorRemoves
  BY <1>18 DEF OperatorCommits, OperatorMerges, OperatorRestores, OperatorCleans,
     OperatorRemoves
<1> QED
  BY <1>1, <1>2, <1>3, <1>4, <1>5, <1>6, <1>7, <1>8, <1>9, <1>10, <1>11, <1>12, <1>13, <1>14,
     <1>15, <1>16, <1>17, <1>18
     DEF Next, Supervise, Environment, Dispatch, AgentReturns, Answered, Saving

(* Between the checks of a cleanup and the removal of the worktree only a  *)
(* session left behind could act.                                          *)
LEMMA CleanupNext ==
  ASSUME IInv, CleanupOK, Next
  PROVE  CleanupOK'
<1> SUFFICES ASSUME "leftover" \notin Faults
             PROVE  /\ session' = None
                    /\ pc' \in {"validated", "inspected"} => CleanupSafe'
  BY DEF CleanupOK
<1>1. session = None /\ session' = None
  BY NoSession DEF CleanupOK
<1>2. ASSUME pc' \in {"validated", "inspected"}
      PROVE  CleanupSafe'
  <2>1. ValidateCleanup \/ InspectWorktree
    <3>1. ~ (Invoke \/ LeftoverSessionWorks \/ BuilderWorks) /\ pc' \in Inside /\ pc' # "down"
      BY <1>1, <1>2 DEF Invoke, Control, LeftoverSessionWorks, BuilderWorks, WorkOn, process,
         Inside
    <3> QED
      BY <3>1, AgentStarts
  <2>2. CleanupSafe /\ mem' = mem /\ UNCHANGED gitvars
    BY <2>1 DEF ValidateCleanup, InspectWorktree, Control, CleanupOK
  <2> QED
    BY <2>2 DEF CleanupSafe, gitvars
<1> QED
  BY <1>1, <1>2

(* Without sessions left behind, the merge that a cleanup was checked to   *)
(* rely on is still there, and the branch where it was, when the worktree  *)
(* is removed.                                                             *)
THEOREM CleanupInvariant == Spec => []CleanupOK
<1>1. Init => CleanupOK
  BY DEF Init, CleanupOK
<1>2. IInv /\ CleanupOK /\ [Next]_vars => CleanupOK'
  <2>1. CASE Next
    BY <2>1, CleanupNext
  <2>2. CASE UNCHANGED vars
    BY <2>2 DEF vars, process, gitvars, CleanupOK, CleanupSafe
  <2> QED
    BY <2>1, <2>2
<1> QED
  BY <1>1, <1>2, Invariant, PTL DEF Spec

-----------------------------------------------------------------------------
(* Cleaning up *)

(* Cleanup is safe: what the recorded merge brought is all there is.       *)
LEMMA CleanupBrought ==
  ASSUME IInv, GInv, CleanupSafe, NEW b, b = branch[mem.worktree.task],
         mem.worktree.task \in Tasks, b # None
  PROVE  Commits(b) \subseteq Integrated
<1>1. HeadOf(b) = mem.mergeTask
  BY DEF CleanupSafe
<1>2. PICK i \in DOMAIN integ : integ[i].second = mem.mergeTask
  BY DEF CleanupSafe
<1>3. b.log \in Seq(Nat)
  BY Typed
<1>4. CASE b.log = <<>>
  BY <1>4 DEF Commits
<1>5. CASE b.log # <<>>
  <2>1. Len(b.log) \in DOMAIN b.log /\ b.log[Len(b.log)] = integ[i].second
    BY <1>1, <1>2, <1>5, HeadInLog
  <2>2. \A j \in 1..Len(b.log) : b.log[j] \in integ[i].brings
    BY <2>1 DEF GInv, MergesBring
  <2>3. DOMAIN b.log = 1..Len(b.log)
    BY <1>3
  <2> QED
    BY <2>2, <2>3 DEF Commits, Integrated
<1> QED
  BY <1>4, <1>5

LEMMA CleanupWorktreeKeeps ==
  ASSUME IInv, GInv, CleanupOK, Next, CleanupWorktree
  PROVE  GInv'
<1>1. PICK d, s : d = mem /\ s = [mem EXCEPT !.phase = "cleanup_branch"]
  OBVIOUS
<1>2. /\ pc \in {"validated", "inspected"} /\ mem.phase = "cleanup_worktree"
      /\ "leftover" \notin Faults => CleanupSafe
      /\ tree' = None /\ mem' = s
      /\ UNCHANGED <<integ, branch, nextId, approved, disk, touched>>
  BY <1>1 DEF CleanupWorktree, WorktreeGoes, Transition, Control, IInv, ControlOK, CleanupOK
<1>3. /\ mem \in Documents /\ mem = [f \in Fields |-> mem[f]] /\ d = disk /\ d # None
      /\ EffectivePhase(d) = "cleanup_worktree" /\ d.worktree # None
  BY <1>1, <1>2, AtWork, InPhase, ActivePhases, InTask
<1>4. /\ s.worktree = d.worktree /\ s.intent = d.intent /\ s.adr = d.adr
      /\ s.accepted = d.accepted /\ s.mergeTask = d.mergeTask
      /\ s.integrationHead = d.integrationHead /\ s.phase = "cleanup_branch"
  BY <1>1, <1>3 DEF Fields
<1>5. EffectivePhase(s) = "cleanup_branch"
  BY <1>4 DEF EffectivePhase
<1>6. IdsOK' /\ MergesBring' /\ GitRecordsOK'
  <2>1. IntegrationAdrs' = IntegrationAdrs
    BY <1>2 DEF IntegrationAdrs
  <2> QED
    BY <1>2, <2>1 DEF GInv, IdsOK, MergesBring, GitRecordsOK, ApprovedOK
<1>7. Knows(d) /\ SavedOK(d)
  BY <1>1, <1>3 DEF GInv
<1>8. /\ Merges' = Merges /\ Unfinished' = Unfinished /\ Integrated' = Integrated
      /\ \A c : Published(c) => Published(c)'
  BY <1>2 DEF Merges, Unfinished, Integrated, Published
<1>9. CountOK(d)' /\ CountOK(s)'
  BY <1>2, <1>3, <1>4, <1>5, <1>7, <1>8 DEF Knows, CountOK, MergePhases, CleanupPhases
<1>10. AheadOK(d)' /\ AheadOK(s)'
  BY <1>2, <1>3, <1>4 DEF AheadOK
<1>11. RecordsOK(d)' /\ RecordsOK(s)'
  BY <1>2, <1>4, <1>7 DEF Knows, RecordsOK, ApprovedOK
<1>12. ClaimsOK(d)'
  BY <1>2, <1>3, <1>7, <1>8 DEF Knows, ClaimsOK
<1>13. ClaimsOK(s)'
  <2>1. ASSUME "leftover" \notin Faults, branch[s.worktree.task] # None
        PROVE  Commits(branch[s.worktree.task]) \subseteq Integrated
    <3>1. s.worktree.task \in Tasks
      BY <1>1, <1>3, <1>4 DEF Documents, Worktrees
    <3> QED
      BY <1>1, <1>2, <1>4, <2>1, <3>1, CleanupBrought
  <2>2. tree' = None
    BY <1>2
  <2> QED
    BY <1>2, <1>4, <1>7, <1>8, <2>1, <2>2 DEF Knows, ClaimsOK
<1>14. SavedOK(d)'
  <2>1. EffectivePhase(d) \in PostBuildPhases /\ Due(d) = {}
    BY <1>3 DEF PostBuildPhases, MergePhases, Due
  <2>2. Noted(d) = {}
    BY <1>7, <2>1 DEF SavedOK
  <2> QED
    BY <1>2, <2>1, <2>2 DEF SavedOK, ApprovedOK, NumbersUnique
<1>15. disk' = d
  BY <1>2, <1>3
<1>16. DiskMatches'
  BY <1>3, <1>15 DEF DiskMatches, CleanupPhases
<1>17. Knows(disk)' /\ SavedOK(disk)' /\ Knows(mem)' /\ disk' # None
  BY <1>2, <1>3, <1>9, <1>10, <1>11, <1>12, <1>13, <1>14, <1>15 DEF Knows
<1> QED
  BY <1>6, <1>16, <1>17 DEF GInv

LEMMA FinishedFields ==
  ASSUME NEW d \in Documents, NEW s, s = Finished(d)
  PROVE  /\ s.worktree = None /\ s.intent = d.intent /\ s.adr = d.adr
         /\ s.accepted = d.accepted + 1 /\ s.integrationHead = d.integrationHead
         /\ s.phase = "planning" /\ EffectivePhase(s) = "planning"
<1>1. /\ s.worktree = None /\ s.intent = d.intent /\ s.adr = d.adr
      /\ s.accepted = d.accepted + 1 /\ s.integrationHead = d.integrationHead
      /\ s.phase = "planning"
  BY FieldsOf DEF Finished, Fields
<1> QED
  BY <1>1 DEF EffectivePhase

LEMMA CleanupBranchKeeps ==
  ASSUME IInv, GInv, Next, CleanupBranch
  PROVE  GInv'
<1>1. PICK d, s : d = mem /\ s = Finished(mem)
  OBVIOUS
<1>2. /\ pc = "idle" /\ mem.phase = "cleanup_branch"
      /\ branch' = [branch EXCEPT ![mem.worktree.task] = None]
      /\ mem' = s /\ UNCHANGED <<integ, tree, nextId, approved, disk, touched>>
  BY <1>1 DEF CleanupBranch, Transition, Control
<1>3. /\ mem \in Documents /\ d = disk /\ d # None /\ tree = None
      /\ EffectivePhase(d) = "cleanup_branch" /\ d.worktree # None
  BY <1>1, <1>2, AtWork, InPhase, ActivePhases, InTask DEF LiveOK
<1>4. \A t \in Tasks : branch'[t] = None
  <2>1. OwnsAll(d, "cleanup_branch")
    BY <1>1, <1>2, <1>3, InTask, ActivePhases
  <2> QED
    BY <1>1, <1>2, <1>3, <2>1 DEF OwnsAll, Owned, IInv, TypeOK
<1>5. /\ s.worktree = None /\ s.intent = d.intent /\ s.adr = d.adr
      /\ s.accepted = d.accepted + 1 /\ s.integrationHead = d.integrationHead
      /\ EffectivePhase(s) = "planning"
  BY <1>1, <1>3, FinishedFields
<1>6. Knows(d) /\ SavedOK(d)
  BY <1>1, <1>3 DEF GInv
<1>7. IdsOK' /\ MergesBring' /\ GitRecordsOK'
  <2>1. IntegrationAdrs' = IntegrationAdrs
    BY <1>2 DEF IntegrationAdrs
  <2> QED
    BY <1>2, <1>3, <1>4, <2>1 DEF GInv, IdsOK, MergesBring, GitRecordsOK, ApprovedOK
<1>8. /\ Merges' = Merges /\ Unfinished' = {} /\ \A c : Published(c) => Published(c)'
  BY <1>2, <1>4 DEF Merges, Unfinished, Published
<1>9. /\ Cardinality(Merges) = d.accepted + 1
      /\ \E i \in Merges : integ[i].second = d.mergeTask /\ d.mergeTask \in integ[i].brings
  BY <1>3, <1>6 DEF Knows, CountOK, CleanupPhases
<1>10. Knows(s)'
  <2>1. EffectivePhase(s) \notin PostBuildPhases \cup {"recording_decision"}
    BY <1>5 DEF PostBuildPhases, MergePhases
  <2>2. Published(s.integrationHead)'
    BY <1>5, <1>6, <1>8 DEF Knows, ClaimsOK
  <2>3. /\ ApprovedOK({s.adr} \ {None})'
        /\ s.intent # None /\ s.intent.base # None => s.intent.base < nextId'
    BY <1>2, <1>5, <1>6 DEF Knows, ClaimsOK, RecordsOK, ApprovedOK
  <2>4. (Cardinality(Merges) = s.accepted /\ Unfinished = {})'
    BY <1>5, <1>8, <1>9
  <2>5. tree' = None
    BY <1>2, <1>3
  <2> QED
    BY <2>1, <2>2, <2>3, <2>4, <2>5, EarlyKnows
<1>11. Knows(d)'
  <2>1. ClaimsOK(d)'
    <3>1. d.worktree.task \in Tasks
      BY <1>1, <1>3 DEF Documents, Worktrees
    <3> QED
      BY <1>2, <1>3, <1>4, <1>6, <1>8, <3>1 DEF Knows, ClaimsOK
  <2>2. AheadOK(d)' /\ RecordsOK(d)'
    BY <1>2, <1>3, <1>6 DEF Knows, AheadOK, RecordsOK, ApprovedOK
  <2>3. CountOK(d)'
    BY <1>2, <1>3, <1>8, <1>9 DEF CountOK, MergePhases
  <2> QED
    BY <2>1, <2>2, <2>3 DEF Knows
<1>12. SavedOK(d)'
  <2>1. IntegrationAdrs' = IntegrationAdrs
    BY <1>2 DEF IntegrationAdrs
  <2> QED
    BY <1>2, <1>3, <1>6, <2>1 DEF SavedOK, ApprovedOK
<1>13. disk' = d
  BY <1>2, <1>3
<1>14. DiskMatches'
  BY <1>3, <1>13 DEF DiskMatches, CleanupPhases
<1>15. Knows(disk)' /\ SavedOK(disk)' /\ Knows(mem)' /\ disk' # None
  BY <1>2, <1>3, <1>10, <1>11, <1>12, <1>13
<1> QED
  BY <1>7, <1>14, <1>15 DEF GInv

-----------------------------------------------------------------------------
(* Work in the task worktree *)

(* It adds at most a new commit to the log of the task branch. *)
LEMMA WorkedGit ==
  ASSUME IInv, NEW t, WorkOn(t)
  PROVE  /\ tree # None /\ tree' # None /\ tree'.task = tree.task
         /\ tree'.adrs = tree.adrs /\ tree'.untracked \subseteq tree.untracked
         /\ integ' = integ /\ nextId' \in Nat /\ nextId <= nextId'
         /\ UNCHANGED <<mem, disk, approved>> /\ touched' = TRUE
         /\ \A x \in Tasks : branch'[x] # None =>
              /\ branch[x] # None /\ branch'[x].base = branch[x].base
              /\ branch[x].log # <<>> => branch'[x].log # <<>>
              /\ \A k \in DOMAIN branch[x].log : branch'[x].log[k] = branch[x].log[k]
              /\ \A k \in DOMAIN branch'[x].log :
                   k \in DOMAIN branch[x].log
                     \/ (branch'[x].log[k] = nextId /\ nextId < nextId')
<1>1. /\ tree # None /\ tree.task = t /\ touched' = TRUE
      /\ integ' = integ /\ UNCHANGED <<mem, disk, approved>>
      /\ \/ /\ nextId' = nextId + 1
            /\ branch' = [branch EXCEPT ![t].log = Append(@, nextId)]
            /\ tree' = [tree EXCEPT !.edited = FALSE, !.untracked = {}]
         \/ /\ tree' = [tree EXCEPT !.edited = TRUE]
            /\ UNCHANGED <<branch, nextId>>
  BY DEF WorkOn, process
<1>2. /\ tree \in Trees /\ t \in Tasks /\ branch[t] # None /\ branch[t].log \in Seq(Nat)
      /\ branch[t] \in Branches /\ nextId \in Nat /\ branch \in [Tasks -> Branches \cup {None}]
  BY <1>1, Typed DEF IInv, TypeOK
<1>3. /\ tree'.task = tree.task /\ tree'.adrs = tree.adrs
      /\ tree'.untracked \subseteq tree.untracked /\ tree' \in Trees
  BY <1>1, <1>2 DEF Trees
<1>4. tree' # None
  BY <1>3, NullAssumption
<1>5. CASE UNCHANGED <<branch, nextId>>
  BY <1>1, <1>2, <1>3, <1>4, <1>5
<1>6. CASE nextId' = nextId + 1 /\ branch' = [branch EXCEPT ![t].log = Append(@, nextId)]
  <2>1. PICK l, m : l = branch[t].log /\ m = Append(l, nextId)
    OBVIOUS
  <2>2. /\ branch'[t].log = m /\ branch'[t].base = branch[t].base
        /\ \A x \in Tasks \ {t} : branch'[x] = branch[x]
    BY <1>2, <1>6, <2>1 DEF Branches
  <2>3. /\ m # <<>> /\ \A k \in DOMAIN l : m[k] = l[k]
        /\ \A k \in DOMAIN m : k \in DOMAIN l \/ m[k] = nextId
    <3>1. l \in Seq(Nat) /\ DOMAIN l = 1..Len(l) /\ DOMAIN m = 1..(Len(l) + 1) /\ Len(l) \in Nat
      BY <1>2, <2>1
    <3>2. \A k \in 1..(Len(l) + 1) : m[k] = IF k <= Len(l) THEN l[k] ELSE nextId
      BY <2>1, <3>1
    <3> QED
      BY <3>1, <3>2
  <2>4. nextId' \in Nat /\ nextId <= nextId' /\ nextId < nextId'
    BY <1>2, <1>6
  <2>5. \A x \in Tasks : branch'[x] # None =>
              /\ branch[x] # None /\ branch'[x].base = branch[x].base
              /\ branch[x].log # <<>> => branch'[x].log # <<>>
              /\ \A k \in DOMAIN branch[x].log : branch'[x].log[k] = branch[x].log[k]
              /\ \A k \in DOMAIN branch'[x].log :
                   k \in DOMAIN branch[x].log
                     \/ (branch'[x].log[k] = nextId /\ nextId < nextId')
    <3> TAKE x \in Tasks
    <3>1. CASE x = t
      BY <1>2, <2>1, <2>2, <2>3, <2>4, <3>1
    <3>2. CASE x # t
      BY <2>2, <3>2
    <3> QED
      BY <3>1, <3>2
  <2> QED
    BY <1>1, <1>3, <1>4, <2>4, <2>5
<1> QED
  BY <1>1, <1>5, <1>6

(* It takes nothing away from any task branch. *)
LEMMA WorkedLog ==
  ASSUME IInv, NEW t, WorkOn(t)
  PROVE  /\ integ' = integ
         /\ \A x \in Tasks : branch[x] # None =>
              branch'[x] # None /\ Commits(branch[x]) \subseteq Commits(branch'[x])
<1>1. /\ integ' = integ
      /\ \/ branch' = [branch EXCEPT ![t].log = Append(@, nextId)]
         \/ branch' = branch
  BY DEF WorkOn
<1>2. CASE branch' = branch
  BY <1>1, <1>2
<1>3. CASE branch' = [branch EXCEPT ![t].log = Append(@, nextId)]
  <2> SUFFICES ASSUME NEW x \in Tasks, branch[x] # None
               PROVE  branch'[x] # None /\ Commits(branch[x]) \subseteq Commits(branch'[x])
    BY <1>1
  <2>1. branch \in [Tasks -> Branches \cup {None}]
    BY DEF IInv, TypeOK
  <2>2. CASE x # t
    BY <1>3, <2>1, <2>2
  <2>3. CASE x = t
    <3>1. PICK l, m : l = branch[x].log /\ m = Append(l, nextId)
      OBVIOUS
    <3>2. branch[x] \in Branches /\ l \in Seq(Nat) /\ nextId \in Nat
      BY <3>1, Typed
    <3>3. branch'[x] = [branch[x] EXCEPT !.log = m]
      BY <1>3, <2>1, <2>3, <3>1
    <3>4. m \in Seq(Nat) /\ \A k \in DOMAIN l : k \in DOMAIN m /\ m[k] = l[k]
      BY <3>1, <3>2
    <3>5. branch'[x] \in Branches /\ branch'[x].log = m
      BY <3>2, <3>3, <3>4 DEF Branches
    <3> QED
      BY <3>1, <3>4, <3>5, NullAssumption DEF Commits
  <2> QED
    BY <2>2, <2>3
<1> QED
  BY <1>1, <1>2, <1>3

LEMMA WorkKeeps ==
  ASSUME IInv, GInv, Next, NEW t, WorkOn(t)
  PROVE  GInv'
<1>1. /\ tree # None /\ tree' # None /\ tree'.task = tree.task
      /\ tree'.adrs = tree.adrs /\ tree'.untracked \subseteq tree.untracked
      /\ integ' = integ /\ nextId' \in Nat /\ nextId <= nextId'
      /\ UNCHANGED <<mem, disk, approved>> /\ touched' = TRUE
  BY WorkedGit
<1>2. \A x \in Tasks : branch'[x] # None =>
        /\ branch[x] # None /\ branch'[x].base = branch[x].base
        /\ branch[x].log # <<>> => branch'[x].log # <<>>
        /\ \A k \in DOMAIN branch[x].log : branch'[x].log[k] = branch[x].log[k]
        /\ \A k \in DOMAIN branch'[x].log :
             k \in DOMAIN branch[x].log \/ (branch'[x].log[k] = nextId /\ nextId < nextId')
  BY WorkedGit
<1>3. /\ tree.task \in Tasks /\ branch[tree.task] # None /\ nextId \in Nat /\ None \notin Nat
      /\ \A i \in DOMAIN integ : integ[i].second \in Nat \cup {None}
  BY <1>1, Typed
<1>4. branch'[tree.task] # None
  BY <1>1, NextInvariant DEF IInv, GitOK
<1>5. \A i \in DOMAIN integ : integ[i].second # nextId
  BY <1>3 DEF GInv, IdsOK
<1>6. IdsOK'
  <2>1. /\ \A i \in DOMAIN integ : integ[i].id < nextId'
                                   /\ (integ[i].second # None => integ[i].second < nextId')
        /\ \A x \in Tasks : branch[x] # None =>
             /\ branch[x].base < nextId'
             /\ \A k \in DOMAIN branch[x].log : branch[x].base < branch[x].log[k]
                                                /\ branch[x].log[k] < nextId'
    BY <1>1, OldIds DEF GInv
  <2>2. \A x \in Tasks : branch'[x] # None => branch[x].base < nextId
    BY <1>2 DEF GInv, IdsOK
  <2>3. \A x \in Tasks : branch'[x] # None =>
             /\ branch'[x].base < nextId'
             /\ \A k \in DOMAIN branch'[x].log : branch'[x].base < branch'[x].log[k]
                                                /\ branch'[x].log[k] < nextId'
    BY <1>2, <2>1, <2>2
  <2> QED
    BY <1>1, <2>1, <2>3 DEF IdsOK
<1>7. MergesBring'
  <2> SUFFICES ASSUME NEW i \in DOMAIN integ, NEW x \in Tasks, branch'[x] # None,
                      NEW k \in DOMAIN branch'[x].log, branch'[x].log[k] = integ[i].second,
                      NEW j \in 1..k
               PROVE  branch'[x].log[j] \in integ[i].brings
    BY <1>1 DEF MergesBring
  <2>1. k \in DOMAIN branch[x].log /\ branch[x].log[k] = integ[i].second
    BY <1>2, <1>5
  <2>2. j \in DOMAIN branch[x].log
    <3>1. branch[x].log \in Seq(Nat)
      BY <1>2, Typed
    <3> QED
      BY <2>1, <3>1
  <2> QED
    BY <1>2, <2>1, <2>2 DEF GInv, MergesBring
<1>8. GitRecordsOK'
  BY <1>1 DEF GInv, GitRecordsOK, ApprovedOK, IntegrationAdrs
<1>9. Merges' = Merges /\ Unfinished' \subseteq Unfinished
  <2>1. Merges' = Merges
    BY <1>1 DEF Merges
  <2>2. ASSUME NEW i \in Unfinished'
        PROVE  i \in Unfinished
    <3>1. i \in Merges /\ i \in DOMAIN integ
      BY <2>1, <2>2 DEF Unfinished, Merges
    <3>2. PICK x \in Tasks : branch'[x] # None /\ integ[i].second \in Commits(branch'[x])
      BY <1>1, <2>2 DEF Unfinished
    <3>3. PICK k \in DOMAIN branch'[x].log : branch'[x].log[k] = integ[i].second
      BY <3>2 DEF Commits
    <3>4. k \in DOMAIN branch[x].log /\ branch[x].log[k] = integ[i].second
      BY <1>2, <1>5, <3>1, <3>2, <3>3
    <3> QED
      BY <1>2, <3>1, <3>2, <3>4 DEF Unfinished, Commits
  <2> QED
    BY <2>1, <2>2
<1>10. ASSUME NEW d, Knows(d), d.intent \in Intents \cup {None}
       PROVE  Knows(d)'
  <2>1. EffectivePhase(d) # "cleanup_branch"
    BY <1>1, <1>10 DEF Knows, ClaimsOK
  <2>2. ASSUME d.intent # None, d.intent.base # None
        PROVE  d.intent.base < nextId'
    <3>1. d.intent.base \in Nat /\ d.intent.base < nextId
      BY <1>10, <2>2 DEF Knows, ClaimsOK, Intents
    <3> QED
      BY <1>1, <1>3, <3>1
  <2>3. ClaimsOK(d)'
    BY <1>1, <1>10, <2>1, <2>2 DEF Knows, ClaimsOK, Published
  <2>4. AheadOK(d)'
    BY <1>1, <1>2, <1>3, <1>4, <1>10 DEF Knows, AheadOK
  <2>5. RecordsOK(d)'
    BY <1>1, <1>10 DEF Knows, RecordsOK, ApprovedOK
  <2>6. CountOK(d)'
    BY <1>1, <1>9, <1>10 DEF Knows, CountOK
  <2> QED
    BY <2>3, <2>4, <2>5, <2>6 DEF Knows
<1>11. PICK d, m : d = disk /\ m = mem
  OBVIOUS
<1>12. d # None /\ Knows(d) /\ SavedOK(d) /\ d.intent \in Intents \cup {None}
  <2>1. d # None
    BY <1>1, <1>11 DEF IInv, ControlOK
  <2> QED
    BY <1>11, <2>1 DEF GInv, IInv, TypeOK, Documents
<1>13. Knows(d)'
  BY <1>10, <1>12
<1>14. ASSUME m # None
       PROVE  Knows(m)'
  <2>1. Knows(m) /\ m.intent \in Intents \cup {None}
    BY <1>11, <1>14 DEF GInv, IInv, TypeOK, Documents
  <2> QED
    BY <1>10, <2>1
<1>15. SavedOK(d)'
  BY <1>1, <1>2, <1>3, <1>4, <1>12 DEF SavedOK, ApprovedOK, IntegrationAdrs
<1>16. disk' = d /\ mem' = m
  BY <1>1, <1>11
<1>17. DiskMatches'
  BY <1>1 DEF DiskMatches
<1> QED
  BY <1>6, <1>7, <1>8, <1>12, <1>13, <1>14, <1>15, <1>16, <1>17 DEF GInv

-----------------------------------------------------------------------------
(* What the operator does between two processes *)

LEMMA OperatorRestoresKeeps ==
  ASSUME IInv, GInv, Next, OperatorRestores
  PROVE  GInv'
<1> PICK d, t : d = disk /\ t = tree.task
  OBVIOUS
<1>1. PICK l, n : /\ l = branch[t].log /\ n \in 0..Len(l)
                  /\ HeadOf([branch[t] EXCEPT !.log = SubSeq(l, 1, n)]) = d.expectedHead
                  /\ branch' = [branch EXCEPT ![t] = [branch[t] EXCEPT !.log = SubSeq(l, 1, n)]]
  BY DEF OperatorRestores
<1>2. /\ tree # None /\ d.snapshot # None /\ d.worktree # None /\ pc = "down"
      /\ tree' = [tree EXCEPT !.edited = d.snapshot.edited, !.untracked = d.snapshot.untracked,
                              !.adrs = (@ \ tree.untracked) \cup d.snapshot.untracked]
      /\ UNCHANGED <<mem, disk, integ, nextId, approved>>
  BY DEF OperatorRestores, process
<1>3. d # None /\ mem = None
  BY <1>2 DEF IInv, ControlOK, TypeOK
<1>4. /\ tree \in Trees /\ t \in Tasks /\ branch[t] # None /\ l \in Seq(Nat)
      /\ branch[t] \in Branches /\ branch[t].base \in Nat
      /\ branch \in [Tasks -> Branches \cup {None}] /\ d.snapshot \in Snapshots
  BY <1>1, <1>2, <1>3, Typed DEF IInv, TypeOK, Documents
<1>5. /\ tree'.task = t /\ tree'.adrs = (tree.adrs \ tree.untracked) \cup Noted(d)
      /\ tree'.untracked = Noted(d) /\ Noted(d) = d.snapshot.untracked
      /\ tree'.edited = d.snapshot.edited
  BY <1>2, <1>4 DEF Trees, Noted
<1>6. tree' # None
  <2>1. tree' \in Trees
    BY <1>2, <1>4 DEF Trees, Snapshots
  <2> QED
    BY <2>1, NullAssumption
<1>7. PICK m : m = SubSeq(l, 1, n)
  OBVIOUS
<1>8. /\ DOMAIN l = 1..Len(l) /\ DOMAIN m = 1..n /\ n \in Nat
      /\ \A k \in DOMAIN m : k \in DOMAIN l /\ m[k] = l[k] /\ 1..k \subseteq DOMAIN m
  <2>1. n \in Nat /\ DOMAIN l = 1..Len(l) /\ Len(l) \in Nat /\ n <= Len(l)
    BY <1>1, <1>4
  <2>2. DOMAIN m = 1..n /\ \A k \in 1..n : m[k] = l[k]
    BY <1>4, <1>7, <2>1
  <2> QED
    BY <2>1, <2>2
<1>9. PICK b : b = [branch[t] EXCEPT !.log = m]
  OBVIOUS
<1>10. /\ b.log = m /\ b.base = branch[t].base /\ HeadOf(b) = d.expectedHead
       /\ branch'[t] = b /\ \A x \in Tasks \ {t} : branch'[x] = branch[x]
  BY <1>1, <1>4, <1>7, <1>9 DEF Branches
<1>11. \A x \in Tasks : branch'[x] # None =>
         /\ branch[x] # None /\ branch'[x].base = branch[x].base
         /\ \A k \in DOMAIN branch'[x].log :
              /\ k \in DOMAIN branch[x].log /\ branch'[x].log[k] = branch[x].log[k]
              /\ 1..k \subseteq DOMAIN branch'[x].log
  <2> TAKE x \in Tasks
  <2>1. CASE x = t
    BY <1>1, <1>4, <1>8, <1>10, <2>1
  <2>2. ASSUME x # t, branch[x] # None, NEW k \in DOMAIN branch[x].log
        PROVE  1..k \subseteq DOMAIN branch[x].log
    <3>1. branch[x].log \in Seq(Nat)
      BY <2>2, Typed
    <3> QED
      BY <2>2, <3>1
  <2> QED
    BY <1>10, <2>1, <2>2
<1>12. Knows(d) /\ SavedOK(d)
  BY <1>3 DEF GInv
<1>13. IdsOK'
  BY <1>2, <1>11 DEF GInv, IdsOK
<1>14. MergesBring'
  <2> SUFFICES ASSUME NEW i \in DOMAIN integ, NEW x \in Tasks, branch'[x] # None,
                      NEW k \in DOMAIN branch'[x].log, branch'[x].log[k] = integ[i].second,
                      NEW j \in 1..k
               PROVE  branch'[x].log[j] \in integ[i].brings
    BY <1>2 DEF MergesBring
  <2>1. /\ k \in DOMAIN branch[x].log /\ branch[x].log[k] = integ[i].second
        /\ branch'[x].log[j] = branch[x].log[j] /\ branch[x] # None
    BY <1>11
  <2> QED
    BY <2>1 DEF GInv, MergesBring
<1>15. IntegrationAdrs' = IntegrationAdrs /\ Published(d.integrationHead)'
  BY <1>2, <1>12 DEF IntegrationAdrs, Published, Knows, ClaimsOK
<1>16. GitRecordsOK'
  <2>1. ApprovedOK(tree'.adrs)
    BY <1>2, <1>5, <1>12 DEF GInv, GitRecordsOK, SavedOK, ApprovedOK
  <2>2. IntegrationAdrs \subseteq tree'.adrs \ tree'.untracked
    <3>1. IntegrationAdrs \subseteq tree.adrs \ tree.untracked /\ Noted(d) \cap IntegrationAdrs = {}
      BY <1>2, <1>12 DEF GInv, GitRecordsOK, SavedOK
    <3> QED
      BY <1>5, <3>1
  <2>3. ApprovedOK(tree.adrs)' /\ ApprovedOK(IntegrationAdrs)' /\ NumbersUnique(IntegrationAdrs)'
    BY <1>2, <1>15, <2>1 DEF GInv, GitRecordsOK, ApprovedOK
  <2> QED
    BY <1>15, <2>2, <2>3 DEF GitRecordsOK
<1>17. Merges' = Merges /\ Unfinished' \subseteq Unfinished
  <2>1. Merges' = Merges
    BY <1>2 DEF Merges
  <2>2. ASSUME NEW i \in Unfinished'
        PROVE  i \in Unfinished
    <3>1. i \in Merges
      BY <2>1, <2>2 DEF Unfinished
    <3>2. PICK x \in Tasks : branch'[x] # None /\ integ[i].second \in Commits(branch'[x])
      BY <1>2, <2>2 DEF Unfinished
    <3>3. PICK k \in DOMAIN branch'[x].log : branch'[x].log[k] = integ[i].second
      BY <3>2 DEF Commits
    <3> QED
      BY <1>11, <3>1, <3>2, <3>3 DEF Unfinished, Commits
  <2> QED
    BY <2>1, <2>2
<1>18. NumbersUnique(Noted(d) \cup Due(d) \cup tree.adrs)
  BY <1>2, <1>12 DEF SavedOK
<1>19. NumbersUnique(tree'.adrs \cup Due(d)) /\ NumbersUnique(Noted(d) \cup Due(d) \cup tree'.adrs)
  BY <1>5, <1>18 DEF NumbersUnique
<1>20. EffectivePhase(d) # "cleanup_branch"
  BY <1>2, <1>12 DEF Knows, ClaimsOK
<1>21. ClaimsOK(d)'
  BY <1>2, <1>12, <1>15, <1>20 DEF Knows, ClaimsOK
<1>22. AheadOK(d)'
  <2> SUFFICES ASSUME EffectivePhase(d) \in PostBuildPhases
               PROVE  m # <<>>
    BY <1>2, <1>5, <1>10 DEF AheadOK
  <2>1. branch[t].base < d.expectedHead
    BY <1>2, <1>12 DEF SavedOK
  <2> QED
    BY <1>4, <1>10, <2>1 DEF HeadOf
<1>23. RecordsOK(d)'
  <2>1. EffectivePhase(d) \in PostBuildPhases => tree'.untracked = {}
    BY <1>5, <1>12 DEF SavedOK
  <2>2. ApprovedOK({d.adr} \ {None})'
    BY <1>2, <1>12 DEF Knows, RecordsOK, ApprovedOK
  <2> QED
    BY <1>19, <2>1, <2>2 DEF RecordsOK
<1>24. CountOK(d)'
  BY <1>2, <1>12, <1>17 DEF Knows, CountOK
<1>25. SavedOK(d)'
  <2>1. ApprovedOK(Noted(d))' /\ Noted(d) \cap IntegrationAdrs' = {}
    BY <1>2, <1>12, <1>15 DEF SavedOK, ApprovedOK
  <2>2. EffectivePhase(d) \in PostBuildPhases =>
          Noted(d) = {} /\ branch'[tree'.task].base < d.expectedHead
    BY <1>2, <1>5, <1>10, <1>12 DEF SavedOK
  <2> QED
    BY <1>6, <1>19, <2>1, <2>2 DEF SavedOK
<1>26. disk' = d /\ mem' = None
  BY <1>2, <1>3
<1>27. DiskMatches'
  <2>1. TaskHead' = d.expectedHead
    BY <1>5, <1>10 DEF TaskHead
  <2>2. Snapshot' = d.snapshot
    BY <1>4, <1>5 DEF Snapshot, Snapshots
  <2> QED
    BY <1>6, <1>26, <2>1, <2>2 DEF DiskMatches
<1> QED
  BY <1>3, <1>13, <1>14, <1>16, <1>21, <1>22, <1>23, <1>24, <1>25, <1>26, <1>27 DEF GInv, Knows

(* Files are discarded, with or without the worktree they are in. *)
LEMMA DiscardKeeps ==
  ASSUME IInv, GInv, Next, tree # None, pc = "down", touched' = TRUE,
         UNCHANGED <<mem, disk, integ, branch, nextId, approved>>,
         tree' # None => /\ tree'.task = tree.task /\ tree'.untracked = {}
                         /\ tree'.adrs = tree.adrs \ tree.untracked
  PROVE  GInv'
<1>1. PICK d : d = disk
  OBVIOUS
<1>2. d # None /\ mem = None
  BY <1>1 DEF IInv, ControlOK, TypeOK
<1>3. Knows(d) /\ SavedOK(d)
  BY <1>1, <1>2 DEF GInv
<1>4. IdsOK' /\ MergesBring'
  BY DEF GInv, IdsOK, MergesBring
<1>5. IntegrationAdrs' = IntegrationAdrs
  BY DEF IntegrationAdrs
<1>6. GitRecordsOK'
  <2>1. ApprovedOK(IntegrationAdrs)' /\ NumbersUnique(IntegrationAdrs)'
    BY <1>5 DEF GInv, GitRecordsOK, ApprovedOK
  <2>2. tree' # None => /\ ApprovedOK(tree.adrs)'
                        /\ IntegrationAdrs \subseteq tree'.adrs \ tree'.untracked
    BY DEF GInv, GitRecordsOK, ApprovedOK
  <2> QED
    BY <1>5, <2>1, <2>2 DEF GitRecordsOK
<1>7. ClaimsOK(d)'
  BY <1>3 DEF Knows, ClaimsOK, Published
<1>8. AheadOK(d)'
  BY <1>3 DEF Knows, AheadOK
<1>9. RecordsOK(d)'
  BY <1>3 DEF Knows, RecordsOK, ApprovedOK, NumbersUnique
<1>10. CountOK(d)'
  BY <1>3 DEF Knows, CountOK, Merges, Unfinished
<1>11. SavedOK(d)'
  <2>1. NumbersUnique(Noted(d) \cup Due(d) \cup tree.adrs)
    BY <1>3 DEF SavedOK
  <2>2. NumbersUnique(Noted(d) \cup Due(d) \cup (IF tree = None THEN {} ELSE tree.adrs)')
    BY <2>1 DEF NumbersUnique
  <2> QED
    BY <1>3, <1>5, <2>2 DEF SavedOK, ApprovedOK
<1>12. disk' = d /\ mem' = None
  BY <1>1, <1>2
<1>13. DiskMatches'
  BY DEF DiskMatches
<1> QED
  BY <1>2, <1>4, <1>6, <1>7, <1>8, <1>9, <1>10, <1>11, <1>12, <1>13 DEF GInv, Knows

LEMMA OperatorCleansKeeps ==
  ASSUME IInv, GInv, Next, OperatorCleans
  PROVE  GInv'
<1>1. /\ tree # None /\ pc = "down" /\ touched' = TRUE
      /\ UNCHANGED <<mem, disk, integ, branch, nextId, approved>>
      /\ tree' = [tree EXCEPT !.edited = FALSE, !.adrs = @ \ tree.untracked, !.untracked = {}]
  BY DEF OperatorCleans, process
<1>2. /\ tree'.task = tree.task /\ tree'.untracked = {}
      /\ tree'.adrs = tree.adrs \ tree.untracked
  BY <1>1, Typed DEF Trees
<1> QED
  BY <1>1, <1>2, DiscardKeeps

LEMMA OperatorRemovesKeeps ==
  ASSUME IInv, GInv, Next, OperatorRemoves
  PROVE  GInv'
<1>1. /\ tree # None /\ pc = "down" /\ touched' = TRUE /\ tree' = None
      /\ UNCHANGED <<mem, disk, integ, branch, nextId, approved>>
  BY DEF OperatorRemoves, process
<1> QED
  BY <1>1, DiscardKeeps

-----------------------------------------------------------------------------
(* The invariant of the run and Git *)

LEMMA GInitial ==
  ASSUME Init
  PROVE  GInv
<1>1. PICK e : e = [id |-> 0, second |-> None, brings |-> {}, adrs |-> {}]
  OBVIOUS
<1>2. /\ integ = <<e>> /\ nextId = 1 /\ mem = None /\ disk = None /\ tree = None
      /\ \A t \in Tasks : branch[t] = None
  BY <1>1 DEF Init
<1>3. e.id = 0 /\ e.second = None /\ e.adrs = {}
  BY <1>1
<1>4. \A i \in DOMAIN integ : integ[i] = e
  BY <1>2
<1>5. IdsOK /\ MergesBring
  BY <1>2, <1>3, <1>4 DEF IdsOK, MergesBring
<1>6. IntegrationAdrs = {}
  BY <1>3, <1>4 DEF IntegrationAdrs
<1>7. GitRecordsOK
  BY <1>2, <1>6 DEF GitRecordsOK, ApprovedOK, NumbersUnique
<1>8. Merges = {}
  BY <1>3, <1>4 DEF Merges
<1> QED
  BY <1>2, <1>5, <1>7, <1>8 DEF GInv

LEMMA GNext ==
  ASSUME IInv, GInv, CleanupOK, Next
  PROVE  GInv'
<1>1. CASE GitActions
  <2>1. CASE StartRun \/ ResumeRun \/ CreateWorktree \/ ProvisioningFails \/ RecordDecision
    BY <2>1, StartRunKeeps, ResumeRunKeeps, CreateWorktreeKeeps, ProvisioningFailsKeeps,
       RecordDecisionKeeps
  <2>2. CASE Merge \/ CleanupWorktree \/ CleanupBranch
    BY <2>2, MergeKeeps, CleanupWorktreeKeeps, CleanupBranchKeeps
  <2>3. CASE BuilderWorks \/ LeftoverSessionWorks
    BY <2>3, WorkKeeps DEF BuilderWorks, LeftoverSessionWorks
  <2>4. CASE OperatorCommits \/ OperatorMerges \/ OperatorRestores \/ OperatorCleans
               \/ OperatorRemoves
    BY <2>4, OperatorCommitsKeeps, OperatorMergesKeeps, OperatorRestoresKeeps,
       OperatorCleansKeeps, OperatorRemovesKeeps
  <2> QED
    BY <1>1, <2>1, <2>2, <2>3, <2>4 DEF GitActions
<1>2. CASE (Quietly \/ Plans \/ Prepares) /\ pc # "down" /\ UNCHANGED gitvars
  BY <1>2, QuietKeeps, PlansKeeps, PreparesKeeps
<1> QED
  BY <1>1, <1>2, Sorted

LEMMA GStutter ==
  ASSUME GInv, UNCHANGED vars
  PROVE  GInv'
<1> PICK d, m : d = disk /\ m = mem
  OBVIOUS
<1>1. /\ disk' = d /\ mem' = m
      /\ UNCHANGED <<integ, branch, tree, nextId, approved, touched>>
  BY DEF vars, process, gitvars, ghosts
<1>2. IdsOK' /\ MergesBring' /\ GitRecordsOK'
  BY <1>1 DEF GInv, IdsOK, MergesBring, GitRecordsOK, ApprovedOK, IntegrationAdrs
<1>3. Merges' = Merges
  BY <1>1 DEF Merges
<1>4. ASSUME NEW c, Knows(c)
      PROVE  Knows(c)'
  BY <1>1, <1>4 DEF Knows, ClaimsOK, AheadOK, RecordsOK, CountOK, ApprovedOK, Published,
     Integrated, Merges, Unfinished
<1>5. m # None => Knows(m)'
  BY <1>4 DEF GInv
<1>6. CASE d = None
  BY <1>1, <1>2, <1>3, <1>5, <1>6 DEF GInv
<1>7. CASE d # None
  <2>1. Knows(d)'
    BY <1>4, <1>7 DEF GInv
  <2>2. SavedOK(d)'
    BY <1>1, <1>7 DEF GInv, SavedOK, ApprovedOK, IntegrationAdrs
  <2>3. DiskMatches'
    BY <1>1, <1>7 DEF GInv, DiskMatches, TaskHead, Snapshot
  <2> QED
    BY <1>1, <1>2, <1>5, <1>7, <2>1, <2>2, <2>3 DEF GInv
<1> QED
  BY <1>6, <1>7

(* What the documents in memory and on disk say of Git stays true of it,   *)
(* through crashes, retries, sessions left behind and whatever the operator *)
(* does between two processes: heads are published, records approved and   *)
(* numbered apart, merges counted, and a worktree nobody touched is as the *)
(* last save saw it.                                                       *)
THEOREM GitInvariant == Spec => []GInv
<1>1. Init => GInv
  BY GInitial
<1>2. IInv /\ GInv /\ CleanupOK /\ [Next]_vars => GInv'
  BY GNext, GStutter
<1> QED
  BY <1>1, <1>2, Invariant, CleanupInvariant, PTL DEF Spec

(* No two decisions in a worktree share an ADR number: neither a decision  *)
(* recorded again after a crash, nor files the operator restored, nor      *)
(* those merged while the task was under way.                              *)
THEOREM NumbersStayUnique == Spec => []AdrNumbersUnique
<1>1. IInv /\ GInv => AdrNumbersUnique
  <2> SUFFICES ASSUME IInv, GInv, tree # None
               PROVE  NumbersUnique(tree.adrs)
    BY DEF AdrNumbersUnique, NumbersUnique
  <2>1. disk # None
    BY DEF IInv, ControlOK
  <2> QED
    BY <2>1 DEF GInv, Knows, RecordsOK, NumbersUnique
<1> QED
  BY <1>1, Invariant, GitInvariant, PTL

(* With approval required, every decision file in a worktree holds a text  *)
(* the operator said yes to, whatever was asked again, crashed or retried. *)
THEOREM RecordsApproved == Spec => []RecordedWasApproved
<1>1. GInv => RecordedWasApproved
  BY DEF GInv, GitRecordsOK, ApprovedOK, RecordedWasApproved
<1> QED
  BY <1>1, GitInvariant, PTL

(* A task is merged once: the merges on the integration branch are those   *)
(* the document on disk has counted, and one more exactly while it says    *)
(* that a merge or its cleanup is unfinished.                              *)
THEOREM OneMergePerTask == Spec => []MergedOncePerTask
<1>1. IInv /\ GInv => MergedOncePerTask
  <2> SUFFICES ASSUME IInv, GInv, disk # None
               PROVE  MergedOncePerTask
    BY DEF MergedOncePerTask
  <2>1. CountOK(disk) /\ disk.accepted \in Nat
    BY Limits DEF GInv, Knows, IInv, TypeOK, Documents
  <2>2. Merges = {i \in DOMAIN integ : integ[i].second # None}
    BY DEF Merges
  <2>3. CASE Cardinality(Merges) = disk.accepted /\ EffectivePhase(disk) \notin CleanupPhases
    BY <2>1, <2>2, <2>3 DEF MergedOncePerTask, CleanupPhases
  <2>4. CASE Cardinality(Merges) = disk.accepted + 1 /\ EffectivePhase(disk) \in MergePhases
    BY <2>1, <2>2, <2>4 DEF MergedOncePerTask
  <2> QED
    BY <2>1, <2>3, <2>4 DEF CountOK
<1> QED
  BY <1>1, Invariant, GitInvariant, PTL

(* While a process runs, only cleanup makes the worktree go. *)
LEMMA OnlyCleanupRemoves ==
  ASSUME IInv, Next, pc # "down", tree # None, tree' = None
  PROVE  CleanupWorktree
<1>1. CASE GitActions
  <2>1. CASE CreateWorktree \/ ProvisioningFails
    <3>1. Created
      BY <2>1 DEF CreateWorktree, ProvisioningFails
    <3> QED
      BY <3>1 DEF Created
  <2>2. CASE RecordDecision
    <3>1. /\ pc = "idle" /\ mem.phase = "recording_decision"
          /\ tree' = IF mem.adr \in tree.adrs THEN tree
                     ELSE [tree EXCEPT !.adrs = @ \cup {mem.adr},
                                       !.untracked = @ \cup {mem.adr}]
      BY <2>2 DEF RecordDecision
    <3>2. tree \in Trees /\ mem.adr \in Adrs
      BY <3>1, Typed, AtWork, ActivePhases DEF Documents, ContentOK, DecisionOK
    <3>3. PICK r : r = mem.adr
      OBVIOUS
    <3>4. [tree EXCEPT !.adrs = @ \cup {r}, !.untracked = @ \cup {r}] \in Trees
      BY <3>2, <3>3 DEF Trees
    <3>5. tree' \in Trees
      BY <3>1, <3>2, <3>3, <3>4
    <3> QED
      BY <3>5, NullAssumption
  <2>3. CASE BuilderWorks \/ LeftoverSessionWorks
    BY <2>3, WorkedGit DEF BuilderWorks, LeftoverSessionWorks
  <2>4. CASE Merge \/ CleanupBranch
    BY <2>4 DEF Merge, CleanupBranch
  <2> QED
    BY <1>1, <2>1, <2>2, <2>3, <2>4 DEF GitActions, StartRun, ResumeRun, gitvars,
       OperatorCommits, OperatorMerges, OperatorRestores, OperatorCleans, OperatorRemoves
<1>2. CASE UNCHANGED gitvars
  BY <1>2 DEF gitvars
<1> QED
  BY <1>1, <1>2, Sorted

(* No commit drops out of sight: what leaves a task branch is integrated.  *)
LEMMA ReachableKept ==
  ASSUME IInv, Next, pc # "down"
  PROVE  Reachable \subseteq Reachable'
<1>1. ASSUME Integrated \subseteq Integrated',
             \A t \in Tasks : branch[t] # None =>
               \/ branch'[t] # None /\ Commits(branch[t]) \subseteq Commits(branch'[t])
               \/ Commits(branch[t]) \subseteq Integrated
      PROVE  Reachable \subseteq Reachable'
  <2> SUFFICES ASSUME NEW c \in Reachable
               PROVE  c \in Reachable'
    OBVIOUS
  <2>1. CASE c \in Integrated
    BY <1>1, <2>1 DEF Reachable
  <2>2. ASSUME NEW t \in Tasks, branch[t] # None, c \in Commits(branch[t])
        PROVE  c \in Reachable'
    <3>1. CASE c \in Integrated
      BY <1>1, <3>1 DEF Reachable
    <3>2. CASE branch'[t] # None /\ c \in Commits(branch'[t])
      BY <3>2 DEF Reachable, Commits
    <3> QED
      BY <1>1, <2>2, <3>1, <3>2
  <2> QED
    BY <2>1, <2>2 DEF Reachable
<1>2. CASE UNCHANGED <<integ, branch>>
  BY <1>2 DEF Reachable, Integrated, Commits
<1>3. CASE CreateWorktree \/ ProvisioningFails
  <2>1. PICK b : b = [base |-> mem.intent.base, log |-> <<>>]
    OBVIOUS
  <2>2. /\ branch' = [branch EXCEPT ![mem.intent.task] = b] /\ integ' = integ
        /\ Reconcilable(mem.intent.task, mem.intent.base)
    BY <1>3, <2>1 DEF CreateWorktree, ProvisioningFails, Created
  <2>3. \A t \in Tasks : branch[t] # None => branch'[t] = branch[t]
    BY <2>1, <2>2, Typed DEF Reconcilable, IInv, TypeOK
  <2>4. \A t \in Tasks : branch[t] # None =>
          branch'[t] # None /\ Commits(branch[t]) \subseteq Commits(branch'[t])
    BY <2>3
  <2> QED
    BY <1>1, <2>2, <2>4 DEF Integrated
<1>4. CASE Merge
  <2>1. PICK e : integ' = Append(integ, e) /\ branch' = branch
    BY <1>4 DEF Merge
  <2>2. \A i \in DOMAIN integ : i \in DOMAIN integ' /\ integ'[i] = integ[i]
    BY <2>1, Typed
  <2>3. Integrated \subseteq Integrated'
    BY <2>2 DEF Integrated
  <2> QED
    BY <1>1, <2>1, <2>3
<1>5. CASE CleanupBranch
  <2>1. /\ branch' = [branch EXCEPT ![mem.worktree.task] = None] /\ integ' = integ
        /\ branch[mem.worktree.task] # None =>
             Commits(branch[mem.worktree.task]) \subseteq Integrated
    BY <1>5 DEF CleanupBranch, BranchDeletable
  <2>2. \A t \in Tasks : branch'[t] = branch[t] \/ t = mem.worktree.task
    BY <2>1 DEF IInv, TypeOK
  <2>3. \A t \in Tasks : branch[t] # None =>
          \/ branch'[t] # None /\ Commits(branch[t]) \subseteq Commits(branch'[t])
          \/ Commits(branch[t]) \subseteq Integrated
    BY <2>1, <2>2
  <2> QED
    BY <1>1, <2>1, <2>3 DEF Integrated
<1>6. ASSUME NEW x, WorkOn(x)
      PROVE  Reachable \subseteq Reachable'
  <2>1. integ' = integ /\ \A t \in Tasks : branch[t] # None =>
          branch'[t] # None /\ Commits(branch[t]) \subseteq Commits(branch'[t])
    BY <1>6, WorkedLog
  <2> QED
    BY <1>1, <2>1 DEF Integrated
<1>7. CASE GitActions
  <2>1. CASE RecordDecision \/ CleanupWorktree
    BY <1>2, <2>1 DEF RecordDecision, CleanupWorktree
  <2>2. CASE BuilderWorks \/ LeftoverSessionWorks
    BY <1>6, <2>2 DEF BuilderWorks, LeftoverSessionWorks
  <2> QED
    BY <1>3, <1>4, <1>5, <1>7, <2>1, <2>2 DEF GitActions, StartRun, ResumeRun,
       OperatorCommits, OperatorMerges, OperatorRestores, OperatorCleans, OperatorRemoves
<1> QED
  BY <1>2, <1>7, Sorted DEF gitvars

(* No step of a running supervisor loses work, whatever a session left     *)
(* behind commits or edits between the checks of a cleanup and the         *)
(* removal: every commit stays on the integration branch or on a task      *)
(* branch, and a worktree that goes away held nothing uncommitted.         *)
THEOREM NothingDiscarded == Spec => NothingUnmergedDiscarded
<1> DEFINE Step == pc # "down" =>
                     /\ Reachable \subseteq Reachable'
                     /\ tree # None /\ tree' = None => CleanTree
<1>1. IInv /\ [Next]_vars => [Step]_vars
  <2> SUFFICES ASSUME IInv, Next, pc # "down"
               PROVE  /\ Reachable \subseteq Reachable'
                      /\ tree # None /\ tree' = None => CleanTree
    OBVIOUS
  <2>1. ASSUME tree # None, tree' = None
        PROVE  CleanTree
    <3>1. CleanupWorktree
      BY <2>1, OnlyCleanupRemoves
    <3> QED
      BY <2>1, <3>1 DEF CleanupWorktree, WorktreeGoes
  <2> QED
    BY <2>1, ReachableKept
<1>2. Spec => [][Step]_vars
  BY <1>1, Invariant, PTL DEF Spec
<1> QED
  BY <1>2 DEF NothingUnmergedDiscarded

-----------------------------------------------------------------------------
(* The operator's guidance                                                 *)

(* guidance in a document d, given and not used yet *)
Guided(d) == d.pending # None /\ d.pending.kind = "builder_guidance" /\ d.pending.answered

(* As long as it is on disk, the document in memory has it too, asks       *)
(* something new, or is about the commit made from it.                     *)
GuidedOK ==
  mem # None /\ disk # None /\ Guided(disk) =>
    mem.pending # None \/ EffectivePhase(mem) \in PostBuildPhases

(* Guidance on disk is for a builder yet to be asked again. *)
LEMMA GuidedBuilding ==
  ASSUME IInv, disk # None, Guided(disk)
  PROVE  EffectivePhase(disk) = "building"
<1>1. PendingOK(disk, EffectivePhase(disk))
  BY DEF IInv, DiskOK, DocOK, ContentOK
<1> QED
  BY <1>1 DEF PendingOK, KeptFor, Guided, BuilderKinds

(* A save writes the document in memory, and leaves it there. *)
LEMMA Written ==
  ASSUME IInv, Next
  PROVE  disk' = disk \/ mem' \in {disk', None}
<1>1. CASE GitActions
  <2>1. CASE StartRun \/ ResumeRun
    BY <2>1 DEF StartRun, ResumeRun, Persist, Control
  <2>2. CASE ProvisioningFails
    BY <2>2 DEF ProvisioningFails, Fail, FailWith, Persist, Die, Control
  <2>3. CASE CreateWorktree \/ RecordDecision
    BY <2>3 DEF CreateWorktree, RecordDecision, Transition
  <2>4. CASE Merge
    BY <2>4 DEF Merge, Merged, Transition
  <2>5. CASE CleanupWorktree \/ CleanupBranch
    BY <2>5 DEF CleanupWorktree, CleanupBranch, Transition
  <2>6. CASE BuilderWorks \/ LeftoverSessionWorks
    BY <2>6 DEF BuilderWorks, LeftoverSessionWorks, WorkOn, process
  <2> QED
    BY <1>1, <2>1, <2>2, <2>3, <2>4, <2>5, <2>6 DEF GitActions, OperatorCommits, OperatorMerges,
       OperatorRestores, OperatorCleans, OperatorRemoves, process
<1>2. CASE Quietly \/ Plans
  BY <1>2 DEF Quietly, Plans, Ends
<1>3. CASE Prepares
  BY <1>3 DEF Prepares
<1> QED
  BY <1>1, <1>2, <1>3, Sorted

(* Between two processes nothing is saved but the first document, and      *)
(* nothing is in memory but what is on disk.                               *)
LEMMA DownSteps ==
  ASSUME IInv, Next, pc = "down"
  PROVE  /\ disk # None => disk' = disk
         /\ mem' \in {mem, disk'}
<1>1. CASE StartRun \/ ResumeRun
  BY <1>1 DEF StartRun, ResumeRun, Persist, Control
<1>2. CASE Environment
  BY <1>2 DEF Environment, Crash, BuilderWorks, LeftoverSessionWorks, process,
     OperatorCommits, OperatorMerges, OperatorRestores, OperatorCleans, OperatorRemoves
<1>3. ~Supervise
  BY DEF Supervise, ServerStarts, StartupFails, Dispatch, RetryOperationalFailure, Invoke,
     ReachLimit, CreateWorktree, ProvisioningFails, CreateWorktreeFails, RecordDecision,
     RecordDecisionFails, Verify, AdoptMerge, Merge, MergeFails, MergeConflicts,
     ValidateCleanup, InspectWorktree, CleanupWorktree, WorktreeGoes, CleanupWorktreeFails,
     CleanupBranch, CleanupBranchFails, AgentReturns, AgentFails, PlannerComplete,
     PlannerReady, ArchitectNeedsInput,
     ArchitectDecides, BuilderReportsComplete, BuilderReportsBlocked, AuditorAccepts,
     AuditorRevises, AuditorReplans, Saving, Save, SaveFails, SaveEscapes, AutoRetry,
     Answered, AnswerGuidance, AnswerEscalation, AnswerArchitect, AnswerApproval,
     InputUnavailable, Asked
<1> QED
  BY <1>1, <1>2, <1>3 DEF Next

(* While a task is to be built, only its builder and a retry get anywhere. *)
LEMMA BuildingSteps ==
  ASSUME IInv, Next, pc \in BetweenSaves, EffectivePhase(mem) = "building"
  PROVE  \/ RetryOperationalFailure \/ AgentFails
         \/ BuilderReportsComplete \/ BuilderReportsBlocked
         \/ UNCHANGED disk /\ mem' \in {mem, None}
<1>1. mem.phase \in {"building", "operational_failure"}
  <2>1. DocOK(mem)
    BY AtWork
  <2> QED
    BY <2>1, EffectiveActive DEF TerminalPhases
<1>2. CASE Dispatch
  <2>1. pc \notin {"validated", "inspected"}
    BY <1>1 DEF IInv, ControlOK
  <2> QED
    BY <1>1, <1>2, <2>1 DEF Dispatch, Invoke, Control, ReachLimit, AtLimit, CreateWorktree,
       ProvisioningFails, CreateWorktreeFails, RecordDecision, RecordDecisionFails, Verify,
       AdoptMerge, Merge, MergeFails, MergeConflicts, ValidateCleanup, InspectWorktree,
       CleanupWorktree, WorktreeGoes, CleanupWorktreeFails, CleanupBranch, CleanupBranchFails
<1>3. CASE AgentReturns
  BY <1>1, <1>3 DEF AgentReturns, PlannerComplete, PlannerReady, ArchitectNeedsInput,
     ArchitectDecides, AuditorAccepts, AuditorRevises, AuditorReplans
<1>4. CASE Environment
  BY <1>4 DEF Environment, Crash, Die, Control, BuilderWorks, LeftoverSessionWorks, WorkOn,
     process, OperatorCommits, OperatorMerges, OperatorRestores, OperatorCleans, OperatorRemoves
<1>5. ~ (StartRun \/ ResumeRun \/ ServerStarts \/ StartupFails \/ Saving)
  BY DEF StartRun, ResumeRun, ServerStarts, StartupFails, Saving, Save, SaveFails, SaveEscapes,
     AutoRetry
<1>6. ~ (Answered \/ InputUnavailable)
  BY <1>1 DEF Answered, AnswerGuidance, AnswerEscalation, AnswerArchitect, AnswerApproval,
     InputUnavailable, Asked
<1> QED
  BY <1>2, <1>3, <1>4, <1>5, <1>6 DEF Next, Supervise

(* s says of the question and of the builder what is said in memory *)
SameBuild(s) ==
  /\ s = [f \in Fields |-> s[f]]
  /\ s.pending = mem.pending /\ s.builder = mem.builder /\ s.lastHead = mem.lastHead

(* A save that fails, like one that succeeds, keeps question and builder.  *)
LEMMA FailedBuild ==
  ASSUME NEW s, SameBuild(s), NEW failed, NEW repair, NEW next, NEW leftover,
         FailWith(s, failed, repair, next, leftover)
  PROVE  disk' = disk \/ \E u : SameBuild(u) /\ disk' = Checkpoint(u)
<1>1. PICK u : u = [s EXCEPT !.phase = "operational_failure",
                             !.error = [failed |-> failed, retryable |-> TRUE,
                                        repair |-> repair]]
  OBVIOUS
<1>2. SameBuild(u)
  BY <1>1 DEF SameBuild, Fields
<1>3. IF CheckpointFails(u) THEN Die ELSE Persist(u, next)
  BY <1>1 DEF FailWith
<1> QED
  BY <1>2, <1>3 DEF Die, Persist

(* Between two phases a process saves what it has, dies, or goes on.       *)
LEMMA OutsideSteps ==
  ASSUME IInv, Next, pc \notin BetweenSaves \cup {"down"}
  PROVE  /\ mem' \in {mem, disk', None}
         /\ disk' = disk \/ \E u : SameBuild(u) /\ disk' = Checkpoint(u)
<1>1. PICK r, a : /\ r = [mem EXCEPT !.opRetries = IF from = "operational_failure" THEN @ ELSE 0]
                  /\ a = [mem EXCEPT !.opRetries = @ + 1]
  OBVIOUS
<1>2. mem \in Documents /\ mem = [f \in Fields |-> mem[f]]
  BY FieldsOf DEF IInv, TypeOK
<1>3. SameBuild(mem) /\ SameBuild(r) /\ SameBuild(a)
  BY <1>1, <1>2 DEF SameBuild, Fields
<1>4. CASE ServerStarts \/ Crash \/ SaveEscapes \/ LeftoverSessionWorks
  BY <1>4 DEF ServerStarts, Crash, SaveEscapes, Die, Control, LeftoverSessionWorks, WorkOn,
     process
<1>5. CASE StartupFails
  <2>1. PICK failed : FailWith(mem, failed, FALSE, "down", None)
    BY <1>5 DEF StartupFails
  <2>2. mem' = None
    BY <2>1 DEF FailWith, Die, Persist, Control
  <2> QED
    BY <1>3, <2>1, <2>2, FailedBuild
<1>6. CASE Save
  <2>1. PICK next : IF CheckpointFails(r) THEN Die ELSE Persist(r, next)
    BY <1>1, <1>6 DEF Save, AfterReset
  <2> QED
    BY <1>3, <2>1 DEF Die, Persist, Control
<1>7. CASE SaveFails
  <2>1. PICK failed, repair : FailWith(r, failed, repair, "opfail", session)
    BY <1>1, <1>7 DEF SaveFails, Fail, AfterReset
  <2>2. mem' \in {disk', None}
    BY <2>1 DEF FailWith, Die, Persist, Control
  <2> QED
    BY <1>3, <2>1, <2>2, FailedBuild
<1>8. CASE AutoRetry
  <2>1. Persist(a, "idle") \/ Die
    BY <1>1, <1>8 DEF AutoRetry
  <2> QED
    BY <1>3, <2>1 DEF Die, Persist, Control
<1>9. ~ (StartRun \/ ResumeRun \/ Dispatch)
  BY DEF StartRun, ResumeRun, Dispatch, RetryOperationalFailure, Invoke, ReachLimit,
     CreateWorktree, ProvisioningFails, CreateWorktreeFails, RecordDecision,
     RecordDecisionFails, Verify, AdoptMerge, Merge, MergeFails, MergeConflicts,
     ValidateCleanup, InspectWorktree, CleanupWorktree, WorktreeGoes, CleanupWorktreeFails,
     CleanupBranch, CleanupBranchFails
<1>10. ~ (AgentReturns \/ Answered \/ InputUnavailable)
  BY DEF AgentReturns, AgentFails, PlannerComplete, PlannerReady, ArchitectNeedsInput,
     ArchitectDecides, BuilderReportsComplete, BuilderReportsBlocked, AuditorAccepts,
     AuditorRevises, AuditorReplans, Answered, AnswerGuidance, AnswerEscalation,
     AnswerArchitect, AnswerApproval, InputUnavailable, Asked
<1>11. ~ (BuilderWorks \/ OperatorCommits \/ OperatorMerges \/ OperatorRestores
            \/ OperatorCleans \/ OperatorRemoves)
  BY DEF BuilderWorks, OperatorCommits, OperatorMerges, OperatorRestores, OperatorCleans,
     OperatorRemoves
<1> QED
  BY <1>4, <1>5, <1>6, <1>7, <1>8, <1>9, <1>10, <1>11 DEF Next, Supervise, Saving, Environment

(* The next document either keeps the guidance or follows the new report.  *)
LEMMA GuidedStep ==
  ASSUME IInv, GuidedOK, Next
  PROVE  GuidedOK'
<1> SUFFICES ASSUME mem' # None, disk' # None, Guided(disk')
             PROVE  mem'.pending # None \/ EffectivePhase(mem') \in PostBuildPhases
  BY DEF GuidedOK, Guided, EffectivePhase
<1>1. CASE mem' = disk'
  BY <1>1 DEF Guided
<1>2. CASE mem' # disk'
  <2>1. disk' = disk
    BY <1>2, Written
  <2>2. CASE mem' = mem
    BY <2>1, <2>2 DEF GuidedOK
  <2>3. CASE mem' # mem
    <3>1. pc # "down"
      BY <1>2, <2>1, <2>3, DownSteps
    <3>2. pc \in BetweenSaves
      BY <1>2, <2>3, <3>1, OutsideSteps
    <3>3. disk = mem /\ EffectivePhase(mem) = "building" /\ mem = [f \in Fields |-> mem[f]]
      BY <2>1, <3>2, AtWork, InPhase, GuidedBuilding
    <3>4. CASE RetryOperationalFailure
      <4>1. mem'.pending = mem.pending
        BY <3>3, <3>4 DEF RetryOperationalFailure, Transition, Control, Fields
      <4> QED
        BY <2>1, <3>3, <4>1 DEF Guided
    <3>5. CASE AgentFails
      BY <1>2, <3>5 DEF AgentFails, FailWith, Die, Persist, Control
    <3>6. CASE BuilderReportsComplete
      <4>1. PICK commit, s :
              /\ s = [mem EXCEPT !.builder = [task |-> mem.planner.task, status |-> "COMPLETE",
                                              commit |-> commit]]
              /\ \/ Transition([s EXCEPT
                      !.lastHead = commit, !.pending = None, !.guidance = 0,
                      !.phase = IF VerifyConfigured THEN "verifying" ELSE "auditing"])
                 \/ GitFails(s)
        BY <3>6 DEF BuilderReportsComplete
      <4>2. ~GitFails(s)
        BY <1>2 DEF GitFails, Fail, FailWith, Die, Persist, Control
      <4>3. PICK e : e = IF VerifyConfigured THEN "verifying" ELSE "auditing"
        OBVIOUS
      <4>4. s = [f \in Fields |-> s[f]]
        BY <3>3, <4>1 DEF Fields
      <4>5. mem'.phase = e
        BY <4>1, <4>2, <4>3, <4>4 DEF Transition, Control, Fields
      <4> QED
        BY <4>3, <4>5 DEF EffectivePhase, PostBuildPhases
    <3>7. CASE BuilderReportsBlocked
      <4>1. PICK kind, q :
              /\ kind = IF mem.guidance + 1 > MaxGuidance THEN "builder_escalation"
                                                          ELSE "builder_guidance"
              /\ q = Ask(kind, "BLOCKED", None)
        OBVIOUS
      <4>2. q # None
        <5>1. kind \in QuestionKinds
          BY <4>1 DEF QuestionKinds
        <5>2. q \in Questions
          BY <4>1, <5>1 DEF Ask, Questions
        <5> QED
          BY <5>2, NullAssumption
      <4>3. mem' = [mem EXCEPT
              !.builder = [task |-> mem.planner.task, status |-> "BLOCKED", commit |-> None],
              !.guidance = @ + 1, !.pending = q, !.phase = "awaiting_input"]
        BY <3>7, <4>1 DEF BuilderReportsBlocked, Transition, Control
      <4>4. mem'.pending = q
        BY <3>3, <4>3 DEF Fields
      <4> QED
        BY <4>2, <4>4
    <3> QED
      BY <2>3, <3>2, <3>3, <3>4, <3>5, <3>6, <3>7, BuildingSteps
  <2> QED
    BY <2>2, <2>3
<1> QED
  BY <1>1, <1>2

(* Guidance the operator gave stays on disk, through failed builders,      *)
(* failed saves and crashes, until a document is saved that follows a      *)
(* report of a builder whose commit was verified.                          *)
THEOREM GuidanceStays == Spec => GuidanceKept
<1> DEFINE Step == disk # None /\ disk.pending # None /\ disk'.pending = None
                   /\ disk.pending.kind = "builder_guidance" /\ disk.pending.answered =>
                     disk'.builder.status = "COMPLETE" /\ disk'.lastHead = disk'.builder.commit
<1>1. Init => GuidedOK
  BY DEF Init, GuidedOK
<1>2. IInv /\ GuidedOK /\ [Next]_vars => GuidedOK'
  BY GuidedStep DEF vars, process, GuidedOK, Guided, EffectivePhase
<1>3. ASSUME IInv, GuidedOK, Next, disk # None, Guided(disk), disk'.pending = None
      PROVE  disk'.builder.status = "COMPLETE" /\ disk'.lastHead = disk'.builder.commit
  <2>1. disk' # disk
    BY <1>3 DEF Guided
  <2>2. pc # "down"
    BY <1>3, <2>1, DownSteps
  <2>3. CASE pc \in BetweenSaves
    <3>1. disk = mem /\ EffectivePhase(mem) = "building" /\ mem = [f \in Fields |-> mem[f]]
      BY <1>3, <2>3, AtWork, InPhase, GuidedBuilding
    <3>2. AgentFails \/ BuilderReportsComplete
      BY <1>3, <2>1, <2>3, <3>1, BuildingSteps
         DEF RetryOperationalFailure, BuilderReportsBlocked, Transition
    <3>3. \E u : u = [f \in Fields |-> u[f]] /\ u.pending = mem.pending /\ disk' = Checkpoint(u)
      <4>1. CASE AgentFails
        <5>1. PICK leftover : FailWith(mem, mem.phase, FALSE, "opfail", leftover)
          BY <4>1 DEF AgentFails
        <5>2. SameBuild(mem)
          BY <3>1 DEF SameBuild
        <5> QED
          BY <2>1, <5>1, <5>2, FailedBuild DEF SameBuild
      <4>2. CASE BuilderReportsComplete
        <5>1. PICK b : GitFails([mem EXCEPT !.builder = b])
          BY <2>1, <4>2 DEF BuilderReportsComplete, Transition
        <5>2. PICK u : u = [[mem EXCEPT !.builder = b] EXCEPT
                              !.phase = "operational_failure",
                              !.error = [failed |-> mem.phase, retryable |-> TRUE,
                                         repair |-> GitRepair(mem.phase)]]
          OBVIOUS
        <5>3. u = [f \in Fields |-> u[f]] /\ u.pending = mem.pending
          BY <3>1, <5>2 DEF Fields
        <5>4. disk' = Checkpoint(u)
          BY <2>1, <5>1, <5>2 DEF GitFails, Fail, FailWith, Die, Persist
        <5> QED
          BY <5>3, <5>4
      <4> QED
        BY <3>2, <4>1, <4>2
    <3>4. disk'.pending = mem.pending
      BY <3>3, Checkpointed DEF Fields
    <3> QED
      BY <1>3, <3>1, <3>4 DEF Guided
  <2>4. CASE pc \notin BetweenSaves \cup {"down"}
    <3>1. PICK u : SameBuild(u) /\ disk' = Checkpoint(u)
      BY <1>3, <2>1, <2>4, OutsideSteps
    <3>2. /\ disk'.pending = mem.pending /\ disk'.builder = mem.builder
          /\ disk'.lastHead = mem.lastHead
      BY <3>1, Checkpointed DEF SameBuild, Fields
    <3>3. mem # None /\ EffectivePhase(mem) \in PostBuildPhases
      BY <1>3, <2>2, <3>2 DEF GuidedOK, IInv, TypeOK
    <3>4. BuilderOK(mem, EffectivePhase(mem))
      BY <2>2 , <1>3 DEF IInv, MemOK, DocOK, ContentOK
    <3> QED
      BY <3>2, <3>3, <3>4 DEF BuilderOK
  <2> QED
    BY <2>2, <2>3, <2>4
<1>4. IInv /\ GuidedOK /\ [Next]_vars => [Step]_vars
  BY <1>3 DEF Guided
<1>5. Spec => [][Step]_vars
  BY <1>1, <1>2, <1>4, Invariant, PTL DEF Spec
<1> QED
  BY <1>5 DEF GuidanceKept
=============================================================================
