-------------------------- MODULE SupervisorDocuments --------------------------
(***************************************************************************)
(* What the documents of a run say in each phase, and that every result,   *)
(* answer and failure which the supervisor writes into one keeps it so:    *)
(* the inductive invariant of the run (IInv) and one lemma per rewriting   *)
(* of a document.  Supervisor_proofs puts them together, step by step.     *)
(*                                                                         *)
(* The rules are those of RunState.from_dict as the writer must see them:  *)
(* of a document d judged by the phase e, since a failure is written with  *)
(* another phase than the one it is judged by.                             *)
(***************************************************************************)
EXTENDS SupervisorProperties, FiniteSetTheorems, WellFoundedInduction, TLAPS

Fields ==
  {"phase", "planner", "architect", "builder", "auditor", "verification", "decision", "pending",
   "error", "accepted", "revisions", "replans", "architectRetries", "guidance", "opRetries",
   "intent", "worktree", "lastHead", "expectedHead", "snapshot", "integrationHead", "mergePre",
   "mergeTask", "mergeCommit", "adr"}

(* s is d with other values in the fields F *)
SameBut(d, s, F) ==
  /\ s = [f \in Fields |-> s[f]]
  /\ \A f \in Fields \ F : s[f] = d[f]

(* the phases in which a task has its worktree *)
TaskPhases == RetryTargetPhases \ {"planning", "creating_worktree"}

CleanupPhases == {"cleanup_worktree", "cleanup_branch"}

ArchitectKinds == {"architect_input", "decision_approval"}

BuilderKinds == {"builder_guidance", "builder_escalation"}

-----------------------------------------------------------------------------
(* What a document d says when the phase whose rules apply is e            *)

ProgressOK(d, e) ==
  /\ e \in RetryTargetPhases =>
       /\ d.revisions <= MaxRevisions /\ d.replans <= MaxReplans
       /\ d.architectRetries <= MaxArchitectRetries
  /\ e \in RetryTargetPhases /\ (e # "planning" \/ d.worktree # None) =>
       d.accepted < MaxAccepted

TaskOK(d, e) ==
  /\ Ready(d) => d.planner.task \in Tasks
  /\ e = "creating_worktree" =>
       d.intent # None /\ d.intent.base # None /\ d.worktree = None /\ Ready(d)
  /\ e \in TaskPhases => d.worktree # None /\ Ready(d)
  /\ e = "done" => d.worktree = None
  /\ d.worktree # None => d.intent = None

(* an operator is asked, or has just answered, about an architect's result *)
ArchitectAsked(d, e) == e = "awaiting_input" /\ d.pending.kind \in ArchitectKinds

DecisionOK(d, e) ==
  /\ e \in {"architecting", "recording_decision"} \/ ArchitectAsked(d, e) =>
       DecisionRelationshipsOK(d, e # "architecting" \/ d.pending # None)
  /\ e = "recording_decision" => d.adr # None /\ d.architect # None
  /\ d.architect # None /\ (e = "recording_decision" \/ d.architect.status = "DECIDED") =>
       d.architect.status = "DECIDED" /\ d.architect.adr # None

(* an answer kept for the phase k that will use it *)
KeptFor(d, k) ==
  /\ d.pending.answered
  /\ \/ /\ k = "architecting" /\ d.pending.kind = "architect_input"
        /\ d.pending.about = d.decision
     \/ /\ k = "building" /\ d.pending.kind = "builder_guidance"
        /\ d.pending.about = "BLOCKED" /\ d.builder # None

PendingOK(d, e) ==
  /\ e = "awaiting_input" =>
       /\ d.pending # None
       /\ d.pending.kind \in BuilderKinds =>
            /\ d.builder # None /\ d.builder.status = "BLOCKED"
            /\ d.pending.about = "BLOCKED" /\ ~d.pending.answered
       /\ d.pending.kind \in ArchitectKinds => d.architect # None
       /\ d.pending.kind = "architect_input" => d.pending.about = d.decision
       /\ d.pending.kind = "decision_approval" =>
            d.architect.status = "DECIDED" /\ d.pending.adr = d.architect.adr
  /\ e # "awaiting_input" /\ d.pending # None =>
       IF e = "failed" THEN d.error.failed = "architecting" /\ KeptFor(d, "architecting")
                              /\ DecisionRelationshipsOK(d, TRUE)
                       ELSE KeptFor(d, e)

BuilderOK(d, e) ==
  /\ Ready(d) /\ d.builder # None => d.builder.task = d.planner.task
  /\ e \in {"planning", "creating_worktree", "architecting", "recording_decision"}
       \/ ArchitectAsked(d, e) => d.builder = None
  /\ e \in PostBuildPhases =>
       /\ d.builder # None /\ d.builder.status = "COMPLETE"
       /\ d.lastHead # None /\ d.builder.commit = d.lastHead

AuditorOK(d, e) ==
  /\ Ready(d) /\ d.auditor # None /\ d.auditor.disposition = "ACCEPT" =>
       d.auditor.task = d.planner.task
  /\ d.auditor # None /\ d.auditor.disposition = "ACCEPT" =>
       e \in MergePhases \cup {"auditing", "failed"}
  /\ e \in MergePhases =>
       /\ d.auditor # None /\ d.auditor.disposition = "ACCEPT"
       /\ d.mergePre # None /\ d.mergeTask # None
  /\ e \in CleanupPhases => d.mergeCommit # None

VerifiedOK(d, e) ==
  /\ e \in PreVerificationPhases => d.verification = None
  /\ e = "verifying" => VerifyConfigured /\ d.verification = None
  /\ e \in PostBuildPhases \ {"verifying"} => (d.verification # None <=> VerifyConfigured)

ContentOK(d, e) ==
  /\ ProgressOK(d, e) /\ TaskOK(d, e) /\ DecisionOK(d, e) /\ PendingOK(d, e)
  /\ BuilderOK(d, e) /\ AuditorOK(d, e) /\ VerifiedOK(d, e)

(* the record of a failure agrees with the phase *)
ErrorOK(d) ==
  CASE d.phase = "operational_failure" ->
         d.error # None /\ d.error.retryable /\ d.error.failed \in RetryTargetPhases
    [] d.phase = "failed" -> d.error # None /\ ~d.error.retryable /\ ~d.error.repair
    [] OTHER -> d.error = None

DocOK(d) == d \in Documents /\ ErrorOK(d) /\ ContentOK(d, EffectivePhase(d))

(* what _checkpoint has written *)
CheckedOK(d, e) ==
  /\ IF d.worktree = None THEN d.expectedHead = None /\ d.snapshot = None
     ELSE d.expectedHead # None /\ (e # "cleanup_branch" => d.snapshot # None)
  /\ d.snapshot # None => IsFiniteSet(d.snapshot.untracked)

-----------------------------------------------------------------------------
(* How the documents stand to Git and to each other                        *)

(* the tasks whose branch and worktree the document d accounts for *)
Owned(d, e) ==
  IF e = "creating_worktree" THEN {d.intent.task}
  ELSE IF d.worktree # None THEN {d.worktree.task} ELSE {}

OwnsAll(d, e) == \A t \in Tasks : branch[t] # None => t \in Owned(d, e)

(* the worktree a running phase works in is there *)
LiveOK(d, e) ==
  /\ d.worktree # None /\ e \notin CleanupPhases => tree # None
  /\ e = "cleanup_branch" => tree = None /\ d.expectedHead # None
  /\ e = "done" => ContentOK(d, "planning")

(* a limit was reached, or the planner found nothing more to do *)
Ending == pc = "saving" /\ mem.phase = "done" /\ from = "planning"

GitOK ==
  /\ integ # <<>> /\ IsFiniteSet(IntegrationAdrs)
  /\ tree # None =>
       /\ branch[tree.task] # None
       /\ IsFiniteSet(tree.adrs) /\ tree.untracked \subseteq tree.adrs

DiskOK ==
  disk # None =>
    /\ DocOK(disk) /\ CheckedOK(disk, EffectivePhase(disk))
    /\ OwnsAll(disk, EffectivePhase(disk))

MemOK ==
  pc # "down" =>
    /\ DocOK(mem) /\ OwnsAll(mem, EffectivePhase(mem)) /\ LiveOK(mem, EffectivePhase(mem))
    /\ EffectivePhase(mem) \in RetryTargetPhases \/ Ending

(* the places between two saves *)
BetweenSaves == {"idle", "agent", "validated", "inspected"}
USE DEF BetweenSaves

ControlOK ==
  /\ pc \in BetweenSaves \cup {"starting", "opfail"} => mem = disk
  /\ pc \in {"saving", "signal"} => disk # None /\ from = disk.phase
                                      /\ mem.phase # "operational_failure"
  /\ pc = "signal" => mem.phase = "awaiting_input"
  /\ pc = "opfail" => /\ mem.phase = "operational_failure"
                      /\ mem.error.failed = "cleanup_worktree" => mem.error.repair
  /\ pc = "agent" => /\ mem.phase \in {"planning", "architecting", "building", "auditing"}
                     /\ mem.phase = "planning" => mem.accepted < MaxAccepted
                     /\ mem.phase = "auditing" => audited # None
  /\ pc \in {"validated", "inspected"} => mem.phase = "cleanup_worktree"
  /\ disk = None => /\ pc = "down" /\ tree = None
                    /\ \A t \in Tasks : branch[t] = None

IInv == TypeOK /\ GitOK /\ DiskOK /\ MemOK /\ ControlOK

-----------------------------------------------------------------------------
(* A finite set of numbers has a largest element, and Max is it. *)
LEMMA MaxOfFinite ==
  ASSUME NEW S \in SUBSET Nat, S # {}, IsFiniteSet(S)
  PROVE  Max(S) \in S /\ \A y \in S : y <= Max(S)
<1> DEFINE Above(x) == {y \in S : y > x}
           T == {Above(x) : x \in S}
           R == StrictSubsetOrdering(S)
<1>1. FiniteSubsetsOf(S) = SUBSET S
  BY FS_FiniteSubsetsOfFinite
<1>2. IsWellFoundedOn(R, SUBSET S)
  BY <1>1, FS_StrictSubsetOrderingWellFounded
<1>3. T \subseteq SUBSET S /\ T # {}
  OBVIOUS
<1>4. PICK U \in T : \A V \in T : <<V, U>> \notin R
  <2> HIDE DEF T, R
  <2> QED
    BY <1>2, <1>3, WFMin
<1>5. PICK x \in S : U = Above(x)
  BY <1>4
<1>6. ASSUME NEW y \in S, y > x
      PROVE  FALSE
  <2>1. Above(y) \subseteq U /\ Above(y) # U /\ Above(y) \in T
    <3>1. y \in Above(x) /\ y \notin Above(y)
      BY <1>6
    <3>2. Above(y) \subseteq Above(x)
      <4> SUFFICES ASSUME NEW z \in S, z > y PROVE z > x
        OBVIOUS
      <4>1. x \in Nat /\ y \in Nat /\ z \in Nat
        OBVIOUS
      <4> QED
        BY <1>6, <4>1
    <3> QED
      BY <1>5, <3>1, <3>2
  <2>2. U \subseteq S /\ Above(y) \subseteq S
    BY <1>5
  <2>3. <<Above(y), U>> \in R
    <3> HIDE DEF Above, T
    <3> QED
      BY <2>1, <2>2 DEF StrictSubsetOrdering
  <2> QED
    BY <1>4, <2>1, <2>3
<1>7. \E z \in S : \A y \in S : z >= y
  BY <1>5, <1>6
<1>8. Max(S) \in S /\ \A y \in S : Max(S) >= y
  BY <1>7 DEF Max
<1> QED
  BY <1>8

-----------------------------------------------------------------------------
(* Documents *)

LEMMA Limits ==
  /\ MaxAccepted \in Nat /\ MaxRevisions \in Nat /\ MaxReplans \in Nat
  /\ MaxArchitectRetries \in Nat /\ MaxGuidance \in Nat /\ MaxOpRetries \in Nat
  /\ RequireApproval \in BOOLEAN
  BY LimitsAssumption

LEMMA PhaseFacts ==
  /\ "planning" \in PreVerificationPhases /\ "creating_worktree" \in PreVerificationPhases
  /\ "architecting" \in PreVerificationPhases /\ "recording_decision" \in PreVerificationPhases
  /\ "building" \in PreVerificationPhases /\ "awaiting_input" \in PreVerificationPhases
  /\ "verifying" \in PostBuildPhases /\ "auditing" \in PostBuildPhases
  /\ "merging" \in MergePhases /\ CleanupPhases \subseteq MergePhases
  /\ MergePhases \subseteq PostBuildPhases
  /\ PreVerificationPhases \cap PostBuildPhases = {}
  /\ RetryTargetPhases \cap {"done", "failed", "operational_failure"} = {}
  /\ "done" \notin PostBuildPhases /\ "failed" \notin PostBuildPhases
  BY DEF PreVerificationPhases, PostBuildPhases, MergePhases, RetryTargetPhases, CleanupPhases

LEMMA ActivePhases ==
  /\ "planning" \in RetryTargetPhases /\ "creating_worktree" \in RetryTargetPhases
  /\ "architecting" \in RetryTargetPhases /\ "recording_decision" \in RetryTargetPhases
  /\ "building" \in RetryTargetPhases /\ "awaiting_input" \in RetryTargetPhases
  /\ "verifying" \in RetryTargetPhases /\ "auditing" \in RetryTargetPhases
  /\ "merging" \in RetryTargetPhases /\ "cleanup_worktree" \in RetryTargetPhases
  /\ "cleanup_branch" \in RetryTargetPhases
  /\ \A e \in RetryTargetPhases : e \in AllPhases
  /\ "done" \in AllPhases /\ "failed" \in AllPhases /\ "operational_failure" \in AllPhases
  BY DEF PreVerificationPhases, PostBuildPhases, MergePhases, RetryTargetPhases, TerminalPhases,
         AllPhases

LEMMA Zeros ==
  /\ 0 \in 0..(MaxRevisions + 1) /\ 0 \in 0..(MaxReplans + 1) /\ 0 \in Nat
  /\ 0 \in 0..(MaxArchitectRetries + 1) /\ 0 \in 0..MaxOpRetries /\ 0 \in 0..MaxAccepted
  /\ 0 <= MaxRevisions /\ 0 <= MaxReplans /\ 0 <= MaxArchitectRetries
  BY Limits

LEMMA Nulls ==
  /\ "planner" # None /\ "auditor" # None
  BY NullAssumption

(* A document with other values in the fields F is one if these have their *)
(* types.                                                                  *)
LEMMA Retyped ==
  ASSUME NEW d \in Documents, NEW s, NEW F, SameBut(d, s, F),
         "phase" \in F => s.phase \in AllPhases,
         "planner" \in F => s.planner \in Planners \cup {None},
         "architect" \in F => s.architect \in Architects \cup {None},
         "builder" \in F => s.builder \in Builders \cup {None},
         "auditor" \in F => s.auditor \in Auditors \cup {None},
         "verification" \in F => s.verification \in Nat \cup {None},
         "decision" \in F => s.decision \in {"planner", "auditor", None},
         "pending" \in F => s.pending \in Questions \cup {None},
         "error" \in F => s.error \in Errors \cup {None},
         "accepted" \in F => s.accepted \in 0..MaxAccepted,
         "revisions" \in F => s.revisions \in 0..(MaxRevisions + 1),
         "replans" \in F => s.replans \in 0..(MaxReplans + 1),
         "architectRetries" \in F => s.architectRetries \in 0..(MaxArchitectRetries + 1),
         "guidance" \in F => s.guidance \in Nat,
         "opRetries" \in F => s.opRetries \in 0..MaxOpRetries,
         "intent" \in F => s.intent \in Intents \cup {None},
         "worktree" \in F => s.worktree \in Worktrees \cup {None},
         "lastHead" \in F => s.lastHead \in Nat \cup {None},
         "expectedHead" \in F => s.expectedHead \in Nat \cup {None},
         "snapshot" \in F => s.snapshot \in Snapshots \cup {None},
         "integrationHead" \in F => s.integrationHead \in Nat,
         "mergePre" \in F => s.mergePre \in Nat \cup {None},
         "mergeTask" \in F => s.mergeTask \in Nat \cup {None},
         "mergeCommit" \in F => s.mergeCommit \in Nat \cup {None},
         "adr" \in F => s.adr \in Adrs \cup {None}
  PROVE  s \in Documents
  BY DEF Documents, SameBut, Fields

(* A document outside the fields a failure and a save write keeps its      *)
(* content.                                                                *)
LEMMA ContentKept ==
  ASSUME NEW d \in Documents, NEW s, NEW e, ContentOK(d, e), e = "failed" => s.error = d.error,
         SameBut(d, s, {"phase", "error", "snapshot", "expectedHead", "integrationHead",
                        "opRetries"})
  PROVE  ContentOK(s, e)
<1>1. /\ s.planner = d.planner /\ s.architect = d.architect /\ s.builder = d.builder
      /\ s.auditor = d.auditor /\ s.verification = d.verification /\ s.decision = d.decision
      /\ s.pending = d.pending /\ s.accepted = d.accepted /\ s.revisions = d.revisions
      /\ s.replans = d.replans /\ s.architectRetries = d.architectRetries
      /\ s.guidance = d.guidance /\ s.intent = d.intent /\ s.worktree = d.worktree
      /\ s.lastHead = d.lastHead /\ s.mergePre = d.mergePre /\ s.mergeTask = d.mergeTask
      /\ s.mergeCommit = d.mergeCommit /\ s.adr = d.adr
  BY DEF SameBut, Fields
<1>2. ProgressOK(s, e) /\ TaskOK(s, e)
  BY <1>1 DEF ContentOK, ProgressOK, TaskOK, Ready
<1>3. DecisionOK(s, e) /\ PendingOK(s, e)
  BY <1>1 DEF ContentOK, DecisionOK, PendingOK, DecisionRelationshipsOK, ArchitectAsked, KeptFor
<1>4. BuilderOK(s, e) /\ AuditorOK(s, e) /\ VerifiedOK(s, e)
  BY <1>1 DEF ContentOK, BuilderOK, AuditorOK, VerifiedOK, Ready, ArchitectAsked
<1> QED
  BY <1>2, <1>3, <1>4 DEF ContentOK

LEMMA HeadTyped ==
  ASSUME TypeOK, GitOK, tree # None
  PROVE  TaskHead \in Nat /\ Snapshot \in Snapshots /\ tree.task \in Tasks
         /\ branch[tree.task] \in Branches
<1>1. tree \in Trees
  BY DEF TypeOK
<1>2. branch[tree.task] \in Branches
  BY <1>1 DEF TypeOK, GitOK, Trees
<1>3. Snapshot \in Snapshots /\ tree.task \in Tasks
  BY <1>1 DEF Trees, Snapshot, Snapshots
<1> DEFINE b == branch[tree.task]
<1>4. b.base \in Nat /\ b.log \in Seq(Nat)
  BY <1>2 DEF Branches
<1>5. b.log # <<>> => b.log[Len(b.log)] \in Nat
  BY <1>4
<1> QED
  BY <1>2, <1>3, <1>4, <1>5 DEF TaskHead, HeadOf

LEMMA IntegrationTyped ==
  ASSUME TypeOK, GitOK
  PROVE  IntegrationHead \in Nat
<1>1. Len(integ) \in 1..Len(integ)
  BY DEF TypeOK, GitOK
<1>2. integ[Len(integ)] \in Entries
  BY <1>1 DEF TypeOK
<1> QED
  BY <1>2 DEF IntegrationHead, Entries

(* _checkpoint writes three fields and leaves the rest alone.              *)
LEMMA CheckpointFields ==
  ASSUME NEW s \in Documents, TypeOK, GitOK, ~CheckpointFails(s)
  PROVE  /\ Checkpoint(s) \in Documents
         /\ SameBut(s, Checkpoint(s), {"integrationHead", "expectedHead", "snapshot"})
         /\ EffectivePhase(s) = "cleanup_branch" =>
              Checkpoint(s).expectedHead = s.expectedHead /\ Checkpoint(s).snapshot = None
         /\ EffectivePhase(s) # "cleanup_branch" =>
              /\ Checkpoint(s).expectedHead = IF s.worktree = None THEN None ELSE TaskHead
              /\ Checkpoint(s).snapshot = IF s.worktree = None THEN None ELSE Snapshot
         /\ Checkpoint(s).integrationHead = IntegrationHead
<1> DEFINE gone == EffectivePhase(s) = "cleanup_branch"
           head == IF gone THEN s.expectedHead ELSE IF s.worktree = None THEN None ELSE TaskHead
           snap == IF gone \/ s.worktree = None THEN None ELSE Snapshot
           inte == IntegrationHead
<1>1. inte \in Nat
  BY IntegrationTyped
<1>2. ~gone /\ s.worktree # None => TaskHead \in Nat /\ Snapshot \in Snapshots
  BY HeadTyped DEF CheckpointFails
<1>3. head \in Nat \cup {None} /\ snap \in Snapshots \cup {None}
  BY <1>2 DEF Documents
<1>4. Checkpoint(s) = [s EXCEPT !.integrationHead = inte, !.expectedHead = head, !.snapshot = snap]
  BY DEF Checkpoint
<1> HIDE DEF gone, head, snap, inte
<1>5. /\ SameBut(s, Checkpoint(s), {"integrationHead", "expectedHead", "snapshot"})
      /\ Checkpoint(s).expectedHead = head /\ Checkpoint(s).snapshot = snap
      /\ Checkpoint(s).integrationHead = inte
  BY <1>4 DEF Documents, SameBut, Fields
<1>6. Checkpoint(s) \in Documents
  BY <1>1, <1>3, <1>5 DEF Documents, SameBut, Fields
<1> QED
  BY <1>5, <1>6 DEF gone, head, snap, inte

-----------------------------------------------------------------------------
(* The steps of the phase machine, whatever document they are about        *)

GitTyped ==
  /\ integ \in Seq(Entries)
  /\ branch \in [Tasks -> Branches \cup {None}]
  /\ tree \in Trees \cup {None}
  /\ nextId \in Nat

RestTyped ==
  /\ session \in Tasks \cup {None}
  /\ reviewed \subseteq Nat /\ approved \subseteq Nat

LEMMA EffectiveActive ==
  ASSUME NEW s, DocOK(s)
  PROVE  /\ s.phase \in RetryTargetPhases => EffectivePhase(s) = s.phase
         /\ s.phase \in TerminalPhases => EffectivePhase(s) = s.phase
         /\ s.phase = "operational_failure" => EffectivePhase(s) = s.error.failed
                                               /\ EffectivePhase(s) \in RetryTargetPhases
         /\ s.phase \in RetryTargetPhases \cup TerminalPhases \cup {"operational_failure"}
  BY DEF DocOK, ErrorOK, EffectivePhase, RetryTargetPhases, PreVerificationPhases,
     PostBuildPhases,
         MergePhases, TerminalPhases, Documents, AllPhases

(* _checkpoint changes nothing that says where the run is.                 *)
LEMMA CheckpointKeeps ==
  ASSUME TypeOK, GitOK, NEW s, DocOK(s), ~CheckpointFails(s),
         EffectivePhase(s) = "cleanup_branch" => s.expectedHead # None
  PROVE  /\ DocOK(Checkpoint(s)) /\ EffectivePhase(Checkpoint(s)) = EffectivePhase(s)
         /\ CheckedOK(Checkpoint(s), EffectivePhase(s))
         /\ Checkpoint(s).phase = s.phase /\ Checkpoint(s).worktree = s.worktree
         /\ Checkpoint(s).intent = s.intent /\ Checkpoint(s).error = s.error
         /\ EffectivePhase(s) = "cleanup_branch" => Checkpoint(s).expectedHead # None
<1> DEFINE c == Checkpoint(s)
           e == EffectivePhase(s)
<1>1. /\ c \in Documents /\ SameBut(s, c, {"integrationHead", "expectedHead", "snapshot"})
      /\ e = "cleanup_branch" => c.expectedHead = s.expectedHead /\ c.snapshot = None
      /\ e # "cleanup_branch" =>
           /\ c.expectedHead = IF s.worktree = None THEN None ELSE TaskHead
           /\ c.snapshot = IF s.worktree = None THEN None ELSE Snapshot
  BY CheckpointFields DEF DocOK
<1>2. s \in Documents /\ ContentOK(s, e) /\ ErrorOK(s)
  BY DEF DocOK
<1>3. /\ c.phase = s.phase /\ c.error = s.error /\ c.worktree = s.worktree /\ c.intent = s.intent
      /\ SameBut(s, c, {"phase", "error", "snapshot", "expectedHead", "integrationHead",
                        "opRetries"})
  BY <1>1 DEF SameBut, Fields
<1>4. EffectivePhase(c) = e
  BY <1>3 DEF EffectivePhase
<1>5. ContentOK(c, e)
  BY <1>2, <1>3, ContentKept
<1>6. ErrorOK(c)
  BY <1>2, <1>3 DEF ErrorOK
<1>7. ~(e = "cleanup_branch") /\ s.worktree # None => TaskHead # None /\ Snapshot # None
  <2> SUFFICES ASSUME e # "cleanup_branch", s.worktree # None
               PROVE  TaskHead # None /\ Snapshot # None
    OBVIOUS
  <2>1. tree \in Trees
    BY DEF CheckpointFails, TypeOK
  <2>2. c.expectedHead = TaskHead /\ c.snapshot = Snapshot
    BY <1>1
  <2> QED
    BY <2>1, HeadTyped, NullAssumption
<1>8. e = "cleanup_branch" => s.worktree # None
  BY <1>2 DEF ContentOK, TaskOK, TaskPhases, RetryTargetPhases, PostBuildPhases, MergePhases
<1>9. c.snapshot # None => IsFiniteSet(c.snapshot.untracked)
  <2>1. tree # None => IsFiniteSet(tree.untracked)
    BY FS_Subset DEF GitOK
  <2>2. c.snapshot # None => c.snapshot = Snapshot /\ tree # None
    BY <1>1 DEF CheckpointFails
  <2> QED
    BY <2>1, <2>2 DEF Snapshot
<1>10. CheckedOK(c, e)
  BY <1>1, <1>3, <1>7, <1>8, <1>9 DEF CheckedOK
<1> HIDE DEF c, e
<1> QED
  BY <1>1, <1>3, <1>4, <1>5, <1>6, <1>10 DEF DocOK, c, e

(* save_state after a checkpoint: memory and disk hold the same document.  *)
LEMMA PersistStep ==
  ASSUME IInv, NEW s, NEW next \in {"starting", "idle", "down", "opfail"}, Persist(s, next),
         DocOK(s), ~CheckpointFails(s),
         EffectivePhase(s) = "cleanup_branch" => s.expectedHead # None,
         GitTyped', GitOK', RestTyped', OwnsAll(s, EffectivePhase(s))',
         next # "down" => /\ EffectivePhase(s) \in RetryTargetPhases
                          /\ s.worktree # None /\ EffectivePhase(s) \notin CleanupPhases =>
                               tree' # None
                          /\ EffectivePhase(s) = "cleanup_branch" => tree' = None,
         next = "opfail" =>
           /\ s.phase = "operational_failure"
           /\ s.error.failed = "cleanup_worktree" => s.error.repair
  PROVE  IInv'
<1> PICK c, e : c = Checkpoint(s) /\ e = EffectivePhase(s)
  OBVIOUS
<1>1. /\ DocOK(c) /\ EffectivePhase(c) = e /\ CheckedOK(c, e) /\ c.phase = s.phase
      /\ c.worktree = s.worktree /\ c.intent = s.intent
      /\ e = "cleanup_branch" => c.expectedHead # None
      /\ c.error = s.error
  BY CheckpointKeeps DEF IInv
<1>2. /\ disk' = c /\ pc' = next /\ mem' = IF next = "down" THEN None ELSE c
      /\ from' = None /\ audited' = None /\ touched' = FALSE
  BY DEF Persist, Control
<1>3. c \in Documents /\ c # None
  BY <1>1, NullAssumption DEF DocOK
<1>4. TypeOK'
  BY <1>2, <1>3 DEF TypeOK, GitTyped, RestTyped
<1>5. OwnsAll(c, e)'
  BY <1>1 DEF OwnsAll, Owned
<1>6. DiskOK'
  BY <1>1, <1>2, <1>5 DEF DiskOK
<1>7. MemOK'
  BY <1>1, <1>2, <1>5, PhaseFacts DEF MemOK, LiveOK
<1>8. ControlOK'
  BY <1>1, <1>2, <1>3 DEF ControlOK
<1> QED
  BY <1>4, <1>6, <1>7, <1>8 DEF IInv

(* The process ends without a save. *)
LEMMA DieStep ==
  ASSUME IInv, Die, pc # "down", GitTyped', GitOK', RestTyped', disk # None,
         OwnsAll(disk, EffectivePhase(disk))'
  PROVE  IInv'
<1>1. /\ disk' = disk /\ pc' = "down" /\ mem' = None /\ from' = None /\ audited' = None
      /\ touched' = touched
  BY DEF Die, Control
<1>2. TypeOK'
  BY <1>1 DEF IInv, TypeOK, GitTyped, RestTyped
<1>3. DiskOK'
  BY <1>1 DEF IInv, DiskOK
<1> QED
  BY <1>1, <1>2, <1>3 DEF IInv, MemOK, ControlOK

(* A dispatch that succeeded and is about to be saved. *)
LEMMA TransitionStep ==
  ASSUME IInv, pc \in BetweenSaves, NEW s, NEW next \in {"saving", "signal"},
         Control(s, next), UNCHANGED <<disk, touched>>,
         DocOK(s), s.phase \in RetryTargetPhases \/ (s.phase = "done" /\ mem.phase = "planning"),
         next = "signal" => s.phase = "awaiting_input",
         next = "saving" \/ s.phase # "done",
         GitTyped', GitOK', RestTyped', OwnsAll(s, s.phase)', LiveOK(s, s.phase)',
         OwnsAll(disk, EffectivePhase(disk))'
  PROVE  IInv'
<1>1. /\ disk' = disk /\ pc' = next /\ mem' = s /\ from' = mem.phase /\ audited' = None
      /\ touched' = touched
  BY DEF Control
<1>2. /\ disk # None /\ disk = mem /\ mem \in Documents
  BY NullAssumption DEF IInv, TypeOK, ControlOK
<1>3. s \in Documents /\ s # None /\ EffectivePhase(s) = s.phase /\ s.phase # "operational_failure"
  BY NullAssumption, EffectiveActive DEF DocOK, RetryTargetPhases, PreVerificationPhases,
     PostBuildPhases,
         MergePhases, TerminalPhases
<1>4. mem.phase \in AllPhases
  BY <1>2 DEF Documents
<1>5. TypeOK'
  BY <1>1, <1>2, <1>3, <1>4 DEF IInv, TypeOK, GitTyped, RestTyped
<1>6. DiskOK'
  BY <1>1 DEF IInv, DiskOK
<1>7. MemOK'
  BY <1>1, <1>3 DEF MemOK, Ending
<1>8. ControlOK'
  BY <1>1, <1>2, <1>3 DEF IInv, ControlOK
<1> QED
  BY <1>5, <1>6, <1>7, <1>8 DEF IInv

LEMMA ErrorTyped ==
  ASSUME NEW d \in Documents, NEW s, SameBut(d, s, {"phase", "error"}), s.phase \in AllPhases,
         s.error \in Errors
  PROVE  s \in Documents
  BY DEF Documents, SameBut, Fields

(* _handle_operational_failure: what was saved can be retried. *)
LEMMA FailStep ==
  ASSUME IInv, pc # "down", NEW s \in Documents, NEW failed \in RetryTargetPhases,
         NEW repair \in BOOLEAN, NEW next \in {"down", "opfail"}, NEW leftover \in Tasks \cup {None},
         FailWith(s, failed, repair, next, leftover), ContentOK(s, failed),
         failed = "cleanup_branch" => s.expectedHead # None /\ tree' = None,
         next = "opfail" /\ failed = "cleanup_worktree" => repair,
         GitTyped', GitOK', reviewed' = reviewed, approved' \subseteq Nat,
         OwnsAll(s, failed)', tree # None => tree' # None, disk # None,
         \A t \in Tasks : branch'[t] # None => t \in Owned(disk, EffectivePhase(disk))
  PROVE  IInv'
<1> DEFINE err == [failed |-> failed, retryable |-> TRUE, repair |-> repair]
<1> PICK t : t = [s EXCEPT !.phase = "operational_failure", !.error = err]
  OBVIOUS
<1>1. t.phase = "operational_failure" /\ t.error = err /\ SameBut(s, t, {"phase", "error"})
  <2> HIDE DEF err
  <2> QED
    BY DEF Documents, SameBut, Fields
<1>2. err \in Errors /\ err # None
  <2>1. err \in Errors
    BY DEF Errors, AllPhases
  <2> QED
    BY <2>1, NullAssumption
<1>3. t \in Documents
  <2> HIDE DEF err
  <2>1. t.phase \in AllPhases
    BY <1>1 DEF AllPhases
  <2> QED
    BY <1>1, <1>2, <2>1, ErrorTyped
<1>4. /\ EffectivePhase(t) = failed /\ t.worktree = s.worktree /\ t.intent = s.intent
      /\ t.expectedHead = s.expectedHead
  BY <1>1 DEF EffectivePhase, SameBut, Fields
<1>5. ContentOK(t, failed)
  <2>1. failed # "failed"
    BY DEF RetryTargetPhases, PreVerificationPhases, PostBuildPhases, MergePhases
  <2>2. SameBut(s, t, {"phase", "error", "snapshot", "expectedHead", "integrationHead", "opRetries"})
    BY <1>1 DEF SameBut
  <2> QED
    BY <2>1, <2>2, ContentKept
<1>6. DocOK(t)
  BY <1>1, <1>2, <1>3, <1>4, <1>5 DEF DocOK, ErrorOK
<1>7. OwnsAll(t, failed)'
  BY <1>4 DEF OwnsAll, Owned
<1>8. FailWith(s, failed, repair, next, leftover) <=>
        IF CheckpointFails(t) THEN Die ELSE Persist(t, next) /\ session' = leftover
  BY DEF FailWith
<1>9. CASE CheckpointFails(t)
  <2>1. Die /\ RestTyped'
    BY <1>8, <1>9 DEF Die, Surviving, RestTyped, IInv, TypeOK
  <2>2. disk' = disk
    BY <2>1 DEF Die
  <2>3. OwnsAll(disk, EffectivePhase(disk))'
    BY <2>2 DEF OwnsAll
  <2> QED
    BY <2>1, <2>3, DieStep
<1>10. CASE ~CheckpointFails(t)
  <2>1. Persist(t, next) /\ RestTyped'
    BY <1>8, <1>10 DEF RestTyped, IInv, TypeOK
  <2>2. t.worktree # None /\ failed \notin CleanupPhases => tree' # None
    BY <1>4, <1>10 DEF CheckpointFails, CleanupPhases
  <2>3. t.error.failed = failed /\ t.error.repair = repair
    BY <1>1
  <2> QED
    BY <1>1, <1>4, <1>6, <1>7, <1>10, <2>1, <2>2, <2>3, PersistStep
<1> QED
  BY <1>9, <1>10

(* what a document says when its run ends in a LoopError *)
EndedOK(d, e) ==
  /\ Ready(d) => d.planner.task \in Tasks
  /\ d.worktree # None => d.intent = None
  /\ d.architect # None /\ d.architect.status = "DECIDED" => d.architect.adr # None
  /\ d.pending # None => /\ KeptFor(d, "architecting") /\ DecisionRelationshipsOK(d, TRUE)
                         /\ e = "architecting"
  /\ Ready(d) /\ d.builder # None => d.builder.task = d.planner.task
  /\ Ready(d) /\ d.auditor # None /\ d.auditor.disposition = "ACCEPT" =>
       d.auditor.task = d.planner.task

(* _handle_terminal_failure *)
LEMMA TerminalStep ==
  ASSUME IInv, pc # "down", NEW s \in Documents, Terminal(s), EndedOK(s, mem.phase),
         s.worktree # None => tree # None, UNCHANGED <<gitvars, nextId, reviewed, approved>>,
         s.worktree = None => \A t \in Tasks : branch[t] = None,
         s.worktree # None => OwnsAll(s, "failed")
  PROVE  IInv'
<1> DEFINE err == [failed |-> mem.phase, retryable |-> FALSE, repair |-> FALSE]
<1> PICK t : t = [s EXCEPT !.phase = "failed", !.error = err]
  OBVIOUS
<1>1. t.phase = "failed" /\ t.error = err /\ SameBut(s, t, {"phase", "error"})
  <2> HIDE DEF err
  <2> QED
    BY DEF Documents, SameBut, Fields
<1>2. err \in Errors /\ err # None
  <2>1. mem.phase \in AllPhases
    BY DEF IInv, TypeOK, Documents
  <2>2. err \in Errors
    BY <2>1 DEF Errors
  <2> QED
    BY <2>2, NullAssumption
<1>3. t \in Documents
  <2> HIDE DEF err
  <2>1. t.phase \in AllPhases
    BY <1>1 DEF AllPhases, TerminalPhases
  <2> QED
    BY <1>1, <1>2, <2>1, ErrorTyped
<1>4. /\ EffectivePhase(t) = "failed" /\ t.worktree = s.worktree /\ t.intent = s.intent
      /\ t.planner = s.planner /\ t.builder = s.builder /\ t.auditor = s.auditor
      /\ t.architect = s.architect /\ t.pending = s.pending /\ t.decision = s.decision
  BY <1>1 DEF EffectivePhase, SameBut, Fields
<1>5. ContentOK(t, "failed")
  <2>1. "failed" \notin RetryTargetPhases /\ "failed" # "done"
    BY DEF RetryTargetPhases, PreVerificationPhases, PostBuildPhases, MergePhases
  <2>2. ProgressOK(t, "failed") /\ TaskOK(t, "failed") /\ DecisionOK(t, "failed")
    BY <1>4, <2>1 DEF EndedOK, ProgressOK, TaskOK, TaskPhases, DecisionOK, ArchitectAsked, Ready
  <2>3. PendingOK(t, "failed")
    BY <1>1, <1>4 DEF EndedOK, PendingOK, KeptFor, DecisionRelationshipsOK
  <2>4. BuilderOK(t, "failed") /\ AuditorOK(t, "failed") /\ VerifiedOK(t, "failed")
    BY <1>4, <2>1 DEF EndedOK, BuilderOK, AuditorOK, VerifiedOK, Ready, ArchitectAsked,
       CleanupPhases,
       PostBuildPhases, MergePhases, PreVerificationPhases
  <2> QED
    BY <2>2, <2>3, <2>4 DEF ContentOK
<1>6. DocOK(t)
  BY <1>1, <1>2, <1>3, <1>4, <1>5 DEF DocOK, ErrorOK
<1>7. OwnsAll(t, "failed")'
  BY <1>4 DEF OwnsAll, Owned, gitvars
<1>8. Persist(t, "down") /\ RestTyped'
  BY DEF Terminal, Surviving, RestTyped, IInv, TypeOK
<1>9. ~CheckpointFails(t)
  BY <1>4 DEF CheckpointFails
<1>10. GitTyped' /\ GitOK'
  BY DEF GitTyped, GitOK, IntegrationAdrs, gitvars, IInv, TypeOK
<1> QED
  BY <1>1, <1>4, <1>6, <1>7, <1>8, <1>9, <1>10, PersistStep

-----------------------------------------------------------------------------
(* What the phases make of a document                                      *)

(* An active document outside a wrapped failure *)
LEMMA Active ==
  ASSUME NEW d, DocOK(d), d.phase \in RetryTargetPhases
  PROVE  /\ d \in Documents /\ DOMAIN d = Fields /\ d.error = None
         /\ EffectivePhase(d) = d.phase /\ ContentOK(d, d.phase)
<1>1. d \in Documents
  BY DEF DocOK
<1>2. DOMAIN d = Fields
  BY <1>1 DEF Documents, Fields
<1> QED
  BY <1>1, <1>2, ActivePhases, PhaseFacts DEF DocOK, ErrorOK, EffectivePhase

LEMMA ActiveDoc ==
  ASSUME NEW s \in Documents, s.phase \in RetryTargetPhases \cup {"done"}, s.error = None,
         ContentOK(s, s.phase)
  PROVE  DocOK(s)
  BY ActivePhases, PhaseFacts DEF DocOK, ErrorOK, EffectivePhase

(* An intent to create a worktree names the task and its base. *)
LEMMA IntentComplete ==
  ASSUME NEW d \in Documents, ContentOK(d, "creating_worktree")
  PROVE  d.intent \in Worktrees /\ d.intent # None
  BY DEF ContentOK, TaskOK, Documents, Intents, Worktrees

LEMMA DoneMove ==
  ASSUME NEW d, DocOK(d), d.phase = "planning", d.worktree = None, NEW p \in Planners \cup {None},
         p # None /\ p.status = "READY" => p.task \in Tasks,
         NEW s, s = [d EXCEPT !.planner = p, !.phase = "done"]
  PROVE  DocOK(s) /\ s.phase = "done" /\ s.worktree = d.worktree /\ s.intent = d.intent
<1>1. d \in Documents /\ DOMAIN d = Fields /\ d.error = None /\ ContentOK(d, "planning")
  BY Active, ActivePhases
<1>2. SameBut(d, s, {"planner", "phase"}) /\ s.planner = p /\ s.phase = "done"
  BY <1>1 DEF SameBut, Fields
<1>3. s \in Documents
  BY <1>1, <1>2, Retyped, ActivePhases DEF TerminalPhases
<1>4. s.error = None
  BY <1>1, <1>2 DEF SameBut, Fields
<1>5. ProgressOK(s, "done") /\ TaskOK(s, "done")
  BY <1>1, <1>2, <1>4, PhaseFacts, ActivePhases, Zeros DEF ContentOK, SameBut, Fields,
     ProgressOK, TaskOK,
     Ready, TaskPhases, Documents
<1>6. DecisionOK(s, "done") /\ PendingOK(s, "done")
  BY <1>1, <1>2, <1>4, PhaseFacts, ActivePhases DEF ContentOK, SameBut, Fields, DecisionOK,
     PendingOK,
     KeptFor, ArchitectAsked, DecisionRelationshipsOK, ArchitectKinds, BuilderKinds, Ready
<1>7. BuilderOK(s, "done")
  BY <1>1, <1>2, <1>4, PhaseFacts, ActivePhases DEF ContentOK, SameBut, Fields, BuilderOK,
     ArchitectAsked,
     ArchitectKinds, Ready
<1>8. AuditorOK(s, "done") /\ VerifiedOK(s, "done")
  BY <1>1, <1>2, <1>4, PhaseFacts, ActivePhases DEF ContentOK, SameBut, Fields, AuditorOK,
     VerifiedOK, Ready,
     MergePhases, CleanupPhases, PostBuildPhases, PreVerificationPhases
<1>9. s.worktree = d.worktree /\ s.intent = d.intent
  BY <1>2 DEF SameBut, Fields
<1>10. ContentOK(s, s.phase) /\ s.phase \in RetryTargetPhases \cup {"done"} /\ s.error = None
  BY <1>2, <1>4, <1>5, <1>6, <1>7, <1>8, ActivePhases DEF ContentOK
<1> QED
  BY <1>2, <1>3, <1>9, <1>10, ActiveDoc

(* A save that fails as the run ends goes back to planning. *)
LEMMA DonePlanning ==
  ASSUME NEW d, DocOK(d), d.phase = "planning", d.worktree = None, NEW p \in Planners \cup {None},
         p # None /\ p.status = "READY" => p.task \in Tasks,
         NEW s, s = [d EXCEPT !.planner = p, !.phase = "done"]
  PROVE  s \in Documents /\ ContentOK(s, "planning")
<1>1. d \in Documents /\ DOMAIN d = Fields /\ d.error = None /\ ContentOK(d, "planning")
  BY Active, ActivePhases
<1>2. SameBut(d, s, {"planner", "phase"}) /\ s.planner = p /\ s.phase = "done"
  BY <1>1 DEF SameBut, Fields
<1>3. s \in Documents
  BY <1>1, <1>2, Retyped, ActivePhases DEF TerminalPhases
<1>4. s.error = None
  BY <1>1, <1>2 DEF SameBut, Fields
<1>5. ProgressOK(s, "planning") /\ TaskOK(s, "planning")
  BY <1>1, <1>2, <1>4, PhaseFacts, ActivePhases, Zeros DEF ContentOK, SameBut, Fields,
     ProgressOK, TaskOK,
     Ready, TaskPhases, Documents
<1>6. DecisionOK(s, "planning") /\ PendingOK(s, "planning")
  BY <1>1, <1>2, <1>4, PhaseFacts, ActivePhases DEF ContentOK, SameBut, Fields, DecisionOK,
     PendingOK,
     KeptFor, ArchitectAsked, DecisionRelationshipsOK, ArchitectKinds, BuilderKinds, Ready
<1>7. BuilderOK(s, "planning")
  BY <1>1, <1>2, <1>4, PhaseFacts, ActivePhases DEF ContentOK, SameBut, Fields, BuilderOK,
     ArchitectAsked,
     ArchitectKinds, Ready
<1>8. AuditorOK(s, "planning") /\ VerifiedOK(s, "planning")
  BY <1>1, <1>2, <1>4, PhaseFacts, ActivePhases DEF ContentOK, SameBut, Fields, AuditorOK,
     VerifiedOK, Ready,
     MergePhases, CleanupPhases, PostBuildPhases, PreVerificationPhases
<1>9. s.worktree = d.worktree /\ s.intent = d.intent
  BY <1>2 DEF SameBut, Fields
<1> QED
  BY <1>3, <1>5, <1>6, <1>7, <1>8, <1>9 DEF ContentOK

LEMMA IntentMove ==
  ASSUME NEW d, DocOK(d), d.phase = "planning", d.worktree = None, NEW p \in Planners,
         p.status = "READY", p.task \in Tasks, NEW i \in Intents, i.base # None,
         d.accepted < MaxAccepted,
         NEW s, s = [d EXCEPT !.planner = p, !.intent = i, !.phase = "creating_worktree"]
  PROVE  DocOK(s) /\ s.phase = "creating_worktree" /\ s.intent = i /\ s.worktree = None
<1>1. d \in Documents /\ DOMAIN d = Fields /\ d.error = None /\ ContentOK(d, "planning")
  BY Active, ActivePhases
<1>2. SameBut(d, s, {"planner", "intent", "phase"}) /\ s.planner = p /\ s.intent = i /\ s.phase =
     "creating_worktree"
  BY <1>1 DEF SameBut, Fields
<1>3. s \in Documents
  BY <1>1, <1>2, Retyped, ActivePhases
<1>4. s.error = None /\ i # None /\ p # None
  BY <1>1, <1>2, ActivePhases, NullAssumption, Nulls DEF SameBut, Fields, Documents,
     ContentOK, TaskOK, TaskPhases, Ready
<1>5. ProgressOK(s, "creating_worktree") /\ TaskOK(s, "creating_worktree")
  BY <1>1, <1>2, <1>4, PhaseFacts, ActivePhases, Zeros DEF ContentOK, SameBut, Fields,
     ProgressOK, TaskOK,
     Ready, TaskPhases, Documents
<1>6. DecisionOK(s, "creating_worktree") /\ PendingOK(s, "creating_worktree")
  BY <1>1, <1>2, <1>4, PhaseFacts, ActivePhases DEF ContentOK, SameBut, Fields, DecisionOK,
     PendingOK,
     KeptFor, ArchitectAsked, DecisionRelationshipsOK, ArchitectKinds, BuilderKinds, Ready
<1>7. BuilderOK(s, "creating_worktree")
  BY <1>1, <1>2, <1>4, PhaseFacts, ActivePhases DEF ContentOK, SameBut, Fields, BuilderOK,
     ArchitectAsked,
     ArchitectKinds, Ready
<1>8. AuditorOK(s, "creating_worktree") /\ VerifiedOK(s, "creating_worktree")
  BY <1>1, <1>2, <1>4, PhaseFacts, ActivePhases DEF ContentOK, SameBut, Fields, AuditorOK,
     VerifiedOK, Ready,
     MergePhases, CleanupPhases, PostBuildPhases, PreVerificationPhases
<1>9. s.worktree = d.worktree /\ s.intent = i
  BY <1>2 DEF SameBut, Fields
<1>10. ContentOK(s, s.phase) /\ s.phase \in RetryTargetPhases \cup {"done"} /\ s.error = None
  BY <1>2, <1>4, <1>5, <1>6, <1>7, <1>8, ActivePhases DEF ContentOK
<1> QED
  BY <1>2, <1>3, <1>9, <1>10, ActiveDoc

LEMMA IntentFails ==
  ASSUME NEW d, DocOK(d), d.phase = "planning", d.worktree = None, NEW p \in Planners,
         p.status = "READY", p.task \in Tasks, NEW i \in Intents,
         NEW s, s = [d EXCEPT !.planner = p, !.intent = i]
  PROVE  s \in Documents /\ ContentOK(s, "planning") /\ s.worktree = None
<1>1. d \in Documents /\ DOMAIN d = Fields /\ d.error = None /\ ContentOK(d, "planning")
  BY Active, ActivePhases
<1>2. SameBut(d, s, {"planner", "intent"}) /\ s.planner = p /\ s.intent = i
  BY <1>1 DEF SameBut, Fields
<1>3. s \in Documents
  BY <1>1, <1>2, Retyped
<1>4. s.error = None
  BY <1>1, <1>2 DEF SameBut, Fields
<1>5. ProgressOK(s, "planning") /\ TaskOK(s, "planning")
  BY <1>1, <1>2, <1>4, PhaseFacts, ActivePhases, Zeros DEF ContentOK, SameBut, Fields,
     ProgressOK, TaskOK,
     Ready, TaskPhases, Documents
<1>6. DecisionOK(s, "planning") /\ PendingOK(s, "planning")
  BY <1>1, <1>2, <1>4, PhaseFacts, ActivePhases DEF ContentOK, SameBut, Fields, DecisionOK,
     PendingOK,
     KeptFor, ArchitectAsked, DecisionRelationshipsOK, ArchitectKinds, BuilderKinds, Ready
<1>7. BuilderOK(s, "planning")
  BY <1>1, <1>2, <1>4, PhaseFacts, ActivePhases DEF ContentOK, SameBut, Fields, BuilderOK,
     ArchitectAsked,
     ArchitectKinds, Ready
<1>8. AuditorOK(s, "planning") /\ VerifiedOK(s, "planning")
  BY <1>1, <1>2, <1>4, PhaseFacts, ActivePhases DEF ContentOK, SameBut, Fields, AuditorOK,
     VerifiedOK, Ready,
     MergePhases, CleanupPhases, PostBuildPhases, PreVerificationPhases
<1>9. s.worktree = d.worktree /\ s.intent = i
  BY <1>2 DEF SameBut, Fields
<1> QED
  BY <1>3, <1>5, <1>6, <1>7, <1>8, <1>9 DEF ContentOK

LEMMA ReplannedBuild ==
  ASSUME NEW d, DocOK(d), d.phase = "planning", d.worktree # None, NEW p \in Planners,
         p.status = "READY", p.task \in Tasks,
         NEW s, s = [d EXCEPT !.planner = p, !.revisions = 0, !.guidance = 0, !.phase = "building"]
  PROVE  DocOK(s) /\ s.phase = "building" /\ s.worktree = d.worktree /\ s.intent = d.intent
<1>1. d \in Documents /\ DOMAIN d = Fields /\ d.error = None /\ ContentOK(d, "planning")
  BY Active, ActivePhases
<1>2. SameBut(d, s, {"planner", "revisions", "guidance", "phase"}) /\ s.planner = p /\ s.revisions
     = 0 /\ s.guidance = 0 /\ s.phase = "building"
  BY <1>1 DEF SameBut, Fields
<1>3. s \in Documents
  BY <1>1, <1>2, Retyped, ActivePhases, Zeros
<1>4. s.error = None /\ p # None
  BY <1>1, <1>2, ActivePhases, NullAssumption, Nulls DEF SameBut, Fields, Documents,
     ContentOK, TaskOK, TaskPhases, Ready
<1>5. ProgressOK(s, "building") /\ TaskOK(s, "building")
  BY <1>1, <1>2, <1>4, PhaseFacts, ActivePhases, Zeros DEF ContentOK, SameBut, Fields,
     ProgressOK, TaskOK,
     Ready, TaskPhases, Documents
<1>6. DecisionOK(s, "building") /\ PendingOK(s, "building")
  BY <1>1, <1>2, <1>4, PhaseFacts, ActivePhases DEF ContentOK, SameBut, Fields, DecisionOK,
     PendingOK,
     KeptFor, ArchitectAsked, DecisionRelationshipsOK, ArchitectKinds, BuilderKinds, Ready
<1>7. BuilderOK(s, "building")
  BY <1>1, <1>2, <1>4, PhaseFacts, ActivePhases DEF ContentOK, SameBut, Fields, BuilderOK,
     ArchitectAsked,
     ArchitectKinds, Ready
<1>8. AuditorOK(s, "building") /\ VerifiedOK(s, "building")
  BY <1>1, <1>2, <1>4, PhaseFacts, ActivePhases DEF ContentOK, SameBut, Fields, AuditorOK,
     VerifiedOK, Ready,
     MergePhases, CleanupPhases, PostBuildPhases, PreVerificationPhases
<1>9. s.worktree = d.worktree /\ s.intent = d.intent
  BY <1>2 DEF SameBut, Fields
<1>10. ContentOK(s, s.phase) /\ s.phase \in RetryTargetPhases \cup {"done"} /\ s.error = None
  BY <1>2, <1>4, <1>5, <1>6, <1>7, <1>8, ActivePhases DEF ContentOK
<1> QED
  BY <1>2, <1>3, <1>9, <1>10, ActiveDoc

LEMMA ReplannedAsk ==
  ASSUME NEW d, DocOK(d), d.phase = "planning", d.worktree # None, NEW p \in Planners,
         p.status = "READY", p.task \in Tasks, p.decision,
         NEW s, s = [d EXCEPT !.planner = p, !.revisions = 0, !.guidance = 0, !.decision = "planner",
                          !.phase = "architecting"]
  PROVE  DocOK(s) /\ s.phase = "architecting" /\ s.worktree = d.worktree /\ s.intent = d.intent
<1>1. d \in Documents /\ DOMAIN d = Fields /\ d.error = None /\ ContentOK(d, "planning")
  BY Active, ActivePhases
<1>2. SameBut(d, s, {"planner", "revisions", "guidance", "decision", "phase"}) /\ s.planner = p /\
     s.revisions = 0 /\ s.guidance = 0 /\ s.decision = "planner" /\ s.phase = "architecting"
  BY <1>1 DEF SameBut, Fields
<1>3. s \in Documents
  BY <1>1, <1>2, Retyped, ActivePhases, Zeros
<1>4. s.error = None /\ p # None /\ "planner" # None
  BY <1>1, <1>2, ActivePhases, NullAssumption, Nulls DEF SameBut, Fields, Documents,
     ContentOK, TaskOK, TaskPhases, Ready
<1>5. ProgressOK(s, "architecting") /\ TaskOK(s, "architecting")
  BY <1>1, <1>2, <1>4, PhaseFacts, ActivePhases, Zeros DEF ContentOK, SameBut, Fields,
     ProgressOK, TaskOK,
     Ready, TaskPhases, Documents
<1>6. DecisionOK(s, "architecting") /\ PendingOK(s, "architecting")
  BY <1>1, <1>2, <1>4, PhaseFacts, ActivePhases DEF ContentOK, SameBut, Fields, DecisionOK,
     PendingOK,
     KeptFor, ArchitectAsked, DecisionRelationshipsOK, ArchitectKinds, BuilderKinds, Ready
<1>7. BuilderOK(s, "architecting")
  BY <1>1, <1>2, <1>4, PhaseFacts, ActivePhases DEF ContentOK, SameBut, Fields, BuilderOK,
     ArchitectAsked,
     ArchitectKinds, Ready
<1>8. AuditorOK(s, "architecting") /\ VerifiedOK(s, "architecting")
  BY <1>1, <1>2, <1>4, PhaseFacts, ActivePhases DEF ContentOK, SameBut, Fields, AuditorOK,
     VerifiedOK, Ready,
     MergePhases, CleanupPhases, PostBuildPhases, PreVerificationPhases
<1>9. s.worktree = d.worktree /\ s.intent = d.intent
  BY <1>2 DEF SameBut, Fields
<1>10. ContentOK(s, s.phase) /\ s.phase \in RetryTargetPhases \cup {"done"} /\ s.error = None
  BY <1>2, <1>4, <1>5, <1>6, <1>7, <1>8, ActivePhases DEF ContentOK
<1> QED
  BY <1>2, <1>3, <1>9, <1>10, ActiveDoc

LEMMA CreatedBuild ==
  ASSUME NEW d, DocOK(d), d.phase = "creating_worktree", TRUE,
         NEW s, s = [d EXCEPT !.worktree = d.intent, !.intent = None, !.revisions = 0, !.guidance = 0,
                          !.phase = "building"]
  PROVE  DocOK(s) /\ s.phase = "building" /\ s.worktree = d.intent /\ s.intent = None
<1>1. d \in Documents /\ DOMAIN d = Fields /\ d.error = None /\ ContentOK(d, "creating_worktree")
  BY Active, ActivePhases
<1>2. SameBut(d, s, {"worktree", "intent", "revisions", "guidance", "phase"}) /\ s.worktree =
     d.intent /\ s.intent = None /\ s.revisions = 0 /\ s.guidance = 0 /\ s.phase = "building"
  BY <1>1 DEF SameBut, Fields
<1>3. s \in Documents
  BY <1>1, <1>2, Retyped, ActivePhases, Zeros, IntentComplete
<1>4. s.error = None /\ d.planner # None
  BY <1>1, <1>2, ActivePhases, NullAssumption, Nulls DEF SameBut, Fields, Documents,
     ContentOK, TaskOK, TaskPhases, Ready
<1>5. ProgressOK(s, "building") /\ TaskOK(s, "building")
  BY <1>1, <1>2, <1>4, PhaseFacts, ActivePhases, Zeros DEF ContentOK, SameBut, Fields,
     ProgressOK, TaskOK,
     Ready, TaskPhases, Documents
<1>6. DecisionOK(s, "building") /\ PendingOK(s, "building")
  BY <1>1, <1>2, <1>4, PhaseFacts, ActivePhases DEF ContentOK, SameBut, Fields, DecisionOK,
     PendingOK,
     KeptFor, ArchitectAsked, DecisionRelationshipsOK, ArchitectKinds, BuilderKinds, Ready
<1>7. BuilderOK(s, "building")
  BY <1>1, <1>2, <1>4, PhaseFacts, ActivePhases DEF ContentOK, SameBut, Fields, BuilderOK,
     ArchitectAsked,
     ArchitectKinds, Ready
<1>8. AuditorOK(s, "building") /\ VerifiedOK(s, "building")
  BY <1>1, <1>2, <1>4, PhaseFacts, ActivePhases DEF ContentOK, SameBut, Fields, AuditorOK,
     VerifiedOK, Ready,
     MergePhases, CleanupPhases, PostBuildPhases, PreVerificationPhases
<1>9. s.worktree = d.intent /\ s.intent = None
  BY <1>2 DEF SameBut, Fields
<1>10. ContentOK(s, s.phase) /\ s.phase \in RetryTargetPhases \cup {"done"} /\ s.error = None
  BY <1>2, <1>4, <1>5, <1>6, <1>7, <1>8, ActivePhases DEF ContentOK
<1> QED
  BY <1>2, <1>3, <1>9, <1>10, ActiveDoc

LEMMA CreatedAsk ==
  ASSUME NEW d, DocOK(d), d.phase = "creating_worktree", d.planner.decision,
         NEW s, s = [d EXCEPT !.worktree = d.intent, !.intent = None, !.revisions = 0, !.guidance = 0,
                          !.decision = "planner", !.phase = "architecting"]
  PROVE  DocOK(s) /\ s.phase = "architecting" /\ s.worktree = d.intent /\ s.intent = None
<1>1. d \in Documents /\ DOMAIN d = Fields /\ d.error = None /\ ContentOK(d, "creating_worktree")
  BY Active, ActivePhases
<1>2. SameBut(d, s, {"worktree", "intent", "revisions", "guidance", "decision", "phase"}) /\
     s.worktree = d.intent /\ s.intent = None /\ s.revisions = 0 /\ s.guidance = 0 /\ s.decision =
     "planner" /\ s.phase = "architecting"
  BY <1>1 DEF SameBut, Fields
<1>3. s \in Documents
  BY <1>1, <1>2, Retyped, ActivePhases, Zeros, IntentComplete
<1>4. s.error = None /\ "planner" # None /\ d.planner # None
  BY <1>1, <1>2, ActivePhases, NullAssumption, Nulls DEF SameBut, Fields, Documents,
     ContentOK, TaskOK, TaskPhases, Ready
<1>5. ProgressOK(s, "architecting") /\ TaskOK(s, "architecting")
  BY <1>1, <1>2, <1>4, PhaseFacts, ActivePhases, Zeros DEF ContentOK, SameBut, Fields,
     ProgressOK, TaskOK,
     Ready, TaskPhases, Documents
<1>6. DecisionOK(s, "architecting") /\ PendingOK(s, "architecting")
  BY <1>1, <1>2, <1>4, PhaseFacts, ActivePhases DEF ContentOK, SameBut, Fields, DecisionOK,
     PendingOK,
     KeptFor, ArchitectAsked, DecisionRelationshipsOK, ArchitectKinds, BuilderKinds, Ready
<1>7. BuilderOK(s, "architecting")
  BY <1>1, <1>2, <1>4, PhaseFacts, ActivePhases DEF ContentOK, SameBut, Fields, BuilderOK,
     ArchitectAsked,
     ArchitectKinds, Ready
<1>8. AuditorOK(s, "architecting") /\ VerifiedOK(s, "architecting")
  BY <1>1, <1>2, <1>4, PhaseFacts, ActivePhases DEF ContentOK, SameBut, Fields, AuditorOK,
     VerifiedOK, Ready,
     MergePhases, CleanupPhases, PostBuildPhases, PreVerificationPhases
<1>9. s.worktree = d.intent /\ s.intent = None
  BY <1>2 DEF SameBut, Fields
<1>10. ContentOK(s, s.phase) /\ s.phase \in RetryTargetPhases \cup {"done"} /\ s.error = None
  BY <1>2, <1>4, <1>5, <1>6, <1>7, <1>8, ActivePhases DEF ContentOK
<1> QED
  BY <1>2, <1>3, <1>9, <1>10, ActiveDoc

LEMMA CompleteEnds ==
  ASSUME NEW d, DocOK(d), d.phase = "planning", NEW p \in Planners, p.status = "COMPLETE", d.worktree # None,
         NEW s, s = [d EXCEPT !.planner = p]
  PROVE  s \in Documents /\ EndedOK(s, "planning") /\ s.worktree = d.worktree /\ s.worktree # None
<1>1. d \in Documents /\ DOMAIN d = Fields /\ d.error = None /\ ContentOK(d, "planning")
  BY Active, ActivePhases
<1>2. SameBut(d, s, {"planner"}) /\ s.planner = p
  BY <1>1 DEF SameBut, Fields
<1>3. s \in Documents
  BY <1>1, <1>2, Retyped
<1>4. EndedOK(s, "planning")
  BY <1>1, <1>2, PhaseFacts, ActivePhases DEF ContentOK, SameBut, Fields, EndedOK, TaskOK,
     DecisionOK,
     PendingOK, KeptFor, BuilderOK, AuditorOK, DecisionRelationshipsOK, Ready, ArchitectAsked,
     BuilderKinds
<1>5. s.worktree = d.worktree /\ s.worktree # None
  BY <1>1, <1>2, PhaseFacts, ActivePhases DEF SameBut, Fields, ContentOK, TaskOK, TaskPhases
<1> QED
  BY <1>3, <1>4, <1>5

LEMMA QuestionEnds ==
  ASSUME NEW d, DocOK(d), d.phase = "architecting", NEW a \in Architects, a.status = "NEEDS_INPUT", a.question = d.decision,
         NEW n \in 0..(MaxArchitectRetries + 1),
         NEW s, s = [d EXCEPT !.architect = a, !.architectRetries = n]
  PROVE  s \in Documents /\ EndedOK(s, "architecting") /\ s.worktree = d.worktree /\ s.worktree # None
<1>1. d \in Documents /\ DOMAIN d = Fields /\ d.error = None /\ ContentOK(d, "architecting")
  BY Active, ActivePhases
<1>2. SameBut(d, s, {"architect", "architectRetries"}) /\ s.architect = a /\ s.architectRetries =
     n
  BY <1>1 DEF SameBut, Fields
<1>3. s \in Documents
  BY <1>1, <1>2, Retyped
<1>4. EndedOK(s, "architecting")
  BY <1>1, <1>2, PhaseFacts, ActivePhases DEF ContentOK, SameBut, Fields, EndedOK, TaskOK,
     DecisionOK,
     PendingOK, KeptFor, BuilderOK, AuditorOK, DecisionRelationshipsOK, Ready, ArchitectAsked,
     BuilderKinds
<1>5. s.worktree = d.worktree /\ s.worktree # None
  BY <1>1, <1>2, PhaseFacts, ActivePhases DEF SameBut, Fields, ContentOK, TaskOK, TaskPhases
<1> QED
  BY <1>3, <1>4, <1>5

LEMMA QuestionMove ==
  ASSUME NEW d, DocOK(d), d.phase = "architecting", NEW a \in Architects, a.status = "NEEDS_INPUT", a.question = d.decision,
         NEW n \in 0..(MaxArchitectRetries + 1), n <= MaxArchitectRetries,
         NEW q \in Questions, q.kind = "architect_input", q.about = d.decision,
         NEW s, s = [d EXCEPT !.architect = a, !.architectRetries = n, !.pending = q,
                          !.phase = "awaiting_input"]
  PROVE  DocOK(s) /\ s.phase = "awaiting_input" /\ s.worktree = d.worktree /\ s.intent = d.intent
<1>1. d \in Documents /\ DOMAIN d = Fields /\ d.error = None /\ ContentOK(d, "architecting")
  BY Active, ActivePhases
<1>2. SameBut(d, s, {"architect", "architectRetries", "pending", "phase"}) /\ s.architect = a /\
     s.architectRetries = n /\ s.pending = q /\ s.phase = "awaiting_input"
  BY <1>1 DEF SameBut, Fields
<1>3. s \in Documents
  BY <1>1, <1>2, Retyped, ActivePhases
<1>4. s.error = None /\ a # None /\ q # None
  BY <1>1, <1>2, ActivePhases, NullAssumption, Nulls DEF SameBut, Fields, Documents,
     ContentOK, TaskOK, TaskPhases, Ready
<1>5. ProgressOK(s, "awaiting_input") /\ TaskOK(s, "awaiting_input")
  BY <1>1, <1>2, <1>4, PhaseFacts, ActivePhases, Zeros DEF ContentOK, SameBut, Fields,
     ProgressOK, TaskOK,
     Ready, TaskPhases, Documents
<1>6. DecisionOK(s, "awaiting_input") /\ PendingOK(s, "awaiting_input")
  BY <1>1, <1>2, <1>4, PhaseFacts, ActivePhases DEF ContentOK, SameBut, Fields, DecisionOK,
     PendingOK,
     KeptFor, ArchitectAsked, DecisionRelationshipsOK, ArchitectKinds, BuilderKinds, Ready
<1>7. BuilderOK(s, "awaiting_input")
  BY <1>1, <1>2, <1>4, PhaseFacts, ActivePhases DEF ContentOK, SameBut, Fields, BuilderOK,
     ArchitectAsked,
     ArchitectKinds, Ready
<1>8. AuditorOK(s, "awaiting_input") /\ VerifiedOK(s, "awaiting_input")
  BY <1>1, <1>2, <1>4, PhaseFacts, ActivePhases DEF ContentOK, SameBut, Fields, AuditorOK,
     VerifiedOK, Ready,
     MergePhases, CleanupPhases, PostBuildPhases, PreVerificationPhases
<1>9. s.worktree = d.worktree /\ s.intent = d.intent
  BY <1>2 DEF SameBut, Fields
<1>10. ContentOK(s, s.phase) /\ s.phase \in RetryTargetPhases \cup {"done"} /\ s.error = None
  BY <1>2, <1>4, <1>5, <1>6, <1>7, <1>8, ActivePhases DEF ContentOK
<1> QED
  BY <1>2, <1>3, <1>9, <1>10, ActiveDoc

LEMMA ProposalMove ==
  ASSUME NEW d, DocOK(d), d.phase = "architecting", NEW a \in Architects, a.status = "DECIDED", a.question = d.decision,
         a.adr # None, NEW q \in Questions, q.kind = "decision_approval", q.adr = a.adr,
         NEW s, s = [d EXCEPT !.architect = a, !.pending = q, !.phase = "awaiting_input"]
  PROVE  DocOK(s) /\ s.phase = "awaiting_input" /\ s.worktree = d.worktree /\ s.intent = d.intent
<1>1. d \in Documents /\ DOMAIN d = Fields /\ d.error = None /\ ContentOK(d, "architecting")
  BY Active, ActivePhases
<1>2. SameBut(d, s, {"architect", "pending", "phase"}) /\ s.architect = a /\ s.pending = q /\
     s.phase = "awaiting_input"
  BY <1>1 DEF SameBut, Fields
<1>3. s \in Documents
  BY <1>1, <1>2, Retyped, ActivePhases
<1>4. s.error = None /\ a # None /\ q # None
  BY <1>1, <1>2, ActivePhases, NullAssumption, Nulls DEF SameBut, Fields, Documents,
     ContentOK, TaskOK, TaskPhases, Ready
<1>5. ProgressOK(s, "awaiting_input") /\ TaskOK(s, "awaiting_input")
  BY <1>1, <1>2, <1>4, PhaseFacts, ActivePhases, Zeros DEF ContentOK, SameBut, Fields,
     ProgressOK, TaskOK,
     Ready, TaskPhases, Documents
<1>6. DecisionOK(s, "awaiting_input") /\ PendingOK(s, "awaiting_input")
  BY <1>1, <1>2, <1>4, PhaseFacts, ActivePhases DEF ContentOK, SameBut, Fields, DecisionOK,
     PendingOK,
     KeptFor, ArchitectAsked, DecisionRelationshipsOK, ArchitectKinds, BuilderKinds, Ready
<1>7. BuilderOK(s, "awaiting_input")
  BY <1>1, <1>2, <1>4, PhaseFacts, ActivePhases DEF ContentOK, SameBut, Fields, BuilderOK,
     ArchitectAsked,
     ArchitectKinds, Ready
<1>8. AuditorOK(s, "awaiting_input") /\ VerifiedOK(s, "awaiting_input")
  BY <1>1, <1>2, <1>4, PhaseFacts, ActivePhases DEF ContentOK, SameBut, Fields, AuditorOK,
     VerifiedOK, Ready,
     MergePhases, CleanupPhases, PostBuildPhases, PreVerificationPhases
<1>9. s.worktree = d.worktree /\ s.intent = d.intent
  BY <1>2 DEF SameBut, Fields
<1>10. ContentOK(s, s.phase) /\ s.phase \in RetryTargetPhases \cup {"done"} /\ s.error = None
  BY <1>2, <1>4, <1>5, <1>6, <1>7, <1>8, ActivePhases DEF ContentOK
<1> QED
  BY <1>2, <1>3, <1>9, <1>10, ActiveDoc

LEMMA DecidedMove ==
  ASSUME NEW d, DocOK(d), d.phase = "architecting", NEW a \in Architects, a.status = "DECIDED", a.question = d.decision,
         a.adr # None, NEW r \in Adrs,
         NEW s, s = [d EXCEPT !.architect = a, !.adr = r, !.pending = None,
                          !.phase = "recording_decision"]
  PROVE  DocOK(s) /\ s.phase = "recording_decision" /\ s.worktree = d.worktree /\ s.intent = d.intent
<1>1. d \in Documents /\ DOMAIN d = Fields /\ d.error = None /\ ContentOK(d, "architecting")
  BY Active, ActivePhases
<1>2. SameBut(d, s, {"architect", "adr", "pending", "phase"}) /\ s.architect = a /\ s.adr = r /\
     s.pending = None /\ s.phase = "recording_decision"
  BY <1>1 DEF SameBut, Fields
<1>3. s \in Documents
  BY <1>1, <1>2, Retyped, ActivePhases
<1>4. s.error = None /\ a # None /\ r # None
  BY <1>1, <1>2, ActivePhases, NullAssumption, Nulls DEF SameBut, Fields, Documents,
     ContentOK, TaskOK, TaskPhases, Ready
<1>5. ProgressOK(s, "recording_decision") /\ TaskOK(s, "recording_decision")
  BY <1>1, <1>2, <1>4, PhaseFacts, ActivePhases, Zeros DEF ContentOK, SameBut, Fields,
     ProgressOK, TaskOK,
     Ready, TaskPhases, Documents
<1>6. DecisionOK(s, "recording_decision") /\ PendingOK(s, "recording_decision")
  BY <1>1, <1>2, <1>4, PhaseFacts, ActivePhases DEF ContentOK, SameBut, Fields, DecisionOK,
     PendingOK,
     KeptFor, ArchitectAsked, DecisionRelationshipsOK, ArchitectKinds, BuilderKinds, Ready
<1>7. BuilderOK(s, "recording_decision")
  BY <1>1, <1>2, <1>4, PhaseFacts, ActivePhases DEF ContentOK, SameBut, Fields, BuilderOK,
     ArchitectAsked,
     ArchitectKinds, Ready
<1>8. AuditorOK(s, "recording_decision") /\ VerifiedOK(s, "recording_decision")
  BY <1>1, <1>2, <1>4, PhaseFacts, ActivePhases DEF ContentOK, SameBut, Fields, AuditorOK,
     VerifiedOK, Ready,
     MergePhases, CleanupPhases, PostBuildPhases, PreVerificationPhases
<1>9. s.worktree = d.worktree /\ s.intent = d.intent
  BY <1>2 DEF SameBut, Fields
<1>10. ContentOK(s, s.phase) /\ s.phase \in RetryTargetPhases \cup {"done"} /\ s.error = None
  BY <1>2, <1>4, <1>5, <1>6, <1>7, <1>8, ActivePhases DEF ContentOK
<1> QED
  BY <1>2, <1>3, <1>9, <1>10, ActiveDoc

LEMMA DecidedFails ==
  ASSUME NEW d, DocOK(d), d.phase = "architecting", NEW a \in Architects, a.status = "DECIDED", a.question = d.decision,
         a.adr # None,
         NEW s, s = [d EXCEPT !.architect = a]
  PROVE  s \in Documents /\ ContentOK(s, "architecting") /\ s.worktree = d.worktree
<1>1. d \in Documents /\ DOMAIN d = Fields /\ d.error = None /\ ContentOK(d, "architecting")
  BY Active, ActivePhases
<1>2. SameBut(d, s, {"architect"}) /\ s.architect = a
  BY <1>1 DEF SameBut, Fields
<1>3. s \in Documents
  BY <1>1, <1>2, Retyped
<1>4. s.error = None /\ a # None
  BY <1>1, <1>2, ActivePhases, NullAssumption, Nulls DEF SameBut, Fields, Documents,
     ContentOK, TaskOK, TaskPhases, Ready
<1>5. ProgressOK(s, "architecting") /\ TaskOK(s, "architecting")
  BY <1>1, <1>2, <1>4, PhaseFacts, ActivePhases, Zeros DEF ContentOK, SameBut, Fields,
     ProgressOK, TaskOK,
     Ready, TaskPhases, Documents
<1>6. DecisionOK(s, "architecting") /\ PendingOK(s, "architecting")
  BY <1>1, <1>2, <1>4, PhaseFacts, ActivePhases DEF ContentOK, SameBut, Fields, DecisionOK,
     PendingOK,
     KeptFor, ArchitectAsked, DecisionRelationshipsOK, ArchitectKinds, BuilderKinds, Ready
<1>7. BuilderOK(s, "architecting")
  BY <1>1, <1>2, <1>4, PhaseFacts, ActivePhases DEF ContentOK, SameBut, Fields, BuilderOK,
     ArchitectAsked,
     ArchitectKinds, Ready
<1>8. AuditorOK(s, "architecting") /\ VerifiedOK(s, "architecting")
  BY <1>1, <1>2, <1>4, PhaseFacts, ActivePhases DEF ContentOK, SameBut, Fields, AuditorOK,
     VerifiedOK, Ready,
     MergePhases, CleanupPhases, PostBuildPhases, PreVerificationPhases
<1>9. s.worktree = d.worktree /\ s.intent = d.intent
  BY <1>2 DEF SameBut, Fields
<1> QED
  BY <1>3, <1>5, <1>6, <1>7, <1>8, <1>9 DEF ContentOK

LEMMA RecordedMove ==
  ASSUME NEW d, DocOK(d), d.phase = "recording_decision", NEW e, e = IF d.decision = "planner" THEN "building" ELSE "planning",
         NEW s, s = [d EXCEPT !.adr = None, !.decision = None, !.architectRetries = 0, !.phase = e]
  PROVE  DocOK(s) /\ s.phase = e /\ s.worktree = d.worktree /\ s.intent = d.intent
<1>1. d \in Documents /\ DOMAIN d = Fields /\ d.error = None /\ ContentOK(d, "recording_decision")
  BY Active, ActivePhases
<1>2. SameBut(d, s, {"adr", "decision", "architectRetries", "phase"}) /\ s.adr = None /\
     s.decision = None /\ s.architectRetries = 0 /\ s.phase = e
  BY <1>1 DEF SameBut, Fields
<1>3. s \in Documents
  BY <1>1, <1>2, Retyped, ActivePhases, Zeros
<1>4. s.error = None /\ (e = "building" \/ e = "planning")
  BY <1>1, <1>2, ActivePhases, NullAssumption, Nulls DEF SameBut, Fields, Documents,
     ContentOK, TaskOK, TaskPhases, Ready
<1>5. ProgressOK(s, e) /\ TaskOK(s, e)
  BY <1>1, <1>2, <1>4, PhaseFacts, ActivePhases, Zeros DEF ContentOK, SameBut, Fields,
     ProgressOK, TaskOK,
     Ready, TaskPhases, Documents
<1>6. DecisionOK(s, e) /\ PendingOK(s, e)
  BY <1>1, <1>2, <1>4, PhaseFacts, ActivePhases DEF ContentOK, SameBut, Fields, DecisionOK,
     PendingOK,
     KeptFor, ArchitectAsked, DecisionRelationshipsOK, ArchitectKinds, BuilderKinds, Ready
<1>7. BuilderOK(s, e)
  BY <1>1, <1>2, <1>4, PhaseFacts, ActivePhases DEF ContentOK, SameBut, Fields, BuilderOK,
     ArchitectAsked,
     ArchitectKinds, Ready
<1>8. AuditorOK(s, e) /\ VerifiedOK(s, e)
  BY <1>1, <1>2, <1>4, PhaseFacts, ActivePhases DEF ContentOK, SameBut, Fields, AuditorOK,
     VerifiedOK, Ready,
     MergePhases, CleanupPhases, PostBuildPhases, PreVerificationPhases
<1>9. s.worktree = d.worktree /\ s.intent = d.intent
  BY <1>2 DEF SameBut, Fields
<1>10. ContentOK(s, s.phase) /\ s.phase \in RetryTargetPhases \cup {"done"} /\ s.error = None
  BY <1>2, <1>4, <1>5, <1>6, <1>7, <1>8, ActivePhases DEF ContentOK
<1> QED
  BY <1>2, <1>3, <1>9, <1>10, ActiveDoc

LEMMA CompleteMove ==
  ASSUME NEW d, DocOK(d), d.phase = "building", NEW b \in Builders, b.task = d.planner.task, b.status = "COMPLETE",
         NEW h \in Nat, b.commit = h, NEW e \in AllPhases, 
         (e = "verifying" /\ VerifyConfigured) \/ (e = "auditing" /\ ~VerifyConfigured),
         NEW s, s = [d EXCEPT !.builder = b, !.lastHead = h, !.pending = None, !.guidance = 0,
                          !.phase = e]
  PROVE  DocOK(s) /\ s.phase = e /\ s.worktree = d.worktree /\ s.intent = d.intent
<1>1. d \in Documents /\ DOMAIN d = Fields /\ d.error = None /\ ContentOK(d, "building")
  BY Active, ActivePhases
<1>2. SameBut(d, s, {"builder", "lastHead", "pending", "guidance", "phase"}) /\ s.builder = b /\
     s.lastHead = h /\ s.pending = None /\ s.guidance = 0 /\ s.phase = e
  BY <1>1 DEF SameBut, Fields
<1>3. s \in Documents
  BY <1>1, <1>2, Retyped, ActivePhases, Zeros
<1>4. s.error = None /\ b # None /\ h # None
  BY <1>1, <1>2, ActivePhases, NullAssumption, Nulls DEF SameBut, Fields, Documents,
     ContentOK, TaskOK, TaskPhases, Ready
<1>5. ProgressOK(s, e) /\ TaskOK(s, e)
  BY <1>1, <1>2, <1>4, PhaseFacts, ActivePhases, Zeros DEF ContentOK, SameBut, Fields,
     ProgressOK, TaskOK,
     Ready, TaskPhases, Documents
<1>6. DecisionOK(s, e) /\ PendingOK(s, e)
  BY <1>1, <1>2, <1>4, PhaseFacts, ActivePhases DEF ContentOK, SameBut, Fields, DecisionOK,
     PendingOK,
     KeptFor, ArchitectAsked, DecisionRelationshipsOK, ArchitectKinds, BuilderKinds, Ready
<1>7. BuilderOK(s, e)
  BY <1>1, <1>2, <1>4, PhaseFacts, ActivePhases DEF ContentOK, SameBut, Fields, BuilderOK,
     ArchitectAsked,
     ArchitectKinds, Ready
<1>8. AuditorOK(s, e) /\ VerifiedOK(s, e)
  BY <1>1, <1>2, <1>4, PhaseFacts, ActivePhases DEF ContentOK, SameBut, Fields, AuditorOK,
     VerifiedOK, Ready,
     MergePhases, CleanupPhases, PostBuildPhases, PreVerificationPhases
<1>9. s.worktree = d.worktree /\ s.intent = d.intent
  BY <1>2 DEF SameBut, Fields
<1>10. ContentOK(s, s.phase) /\ s.phase \in RetryTargetPhases \cup {"done"} /\ s.error = None
  BY <1>2, <1>4, <1>5, <1>6, <1>7, <1>8, ActivePhases DEF ContentOK
<1> QED
  BY <1>2, <1>3, <1>9, <1>10, ActiveDoc

LEMMA CompleteFails ==
  ASSUME NEW d, DocOK(d), d.phase = "building", NEW b \in Builders, b.task = d.planner.task,
         NEW s, s = [d EXCEPT !.builder = b]
  PROVE  s \in Documents /\ ContentOK(s, "building") /\ s.worktree = d.worktree
<1>1. d \in Documents /\ DOMAIN d = Fields /\ d.error = None /\ ContentOK(d, "building")
  BY Active, ActivePhases
<1>2. SameBut(d, s, {"builder"}) /\ s.builder = b
  BY <1>1 DEF SameBut, Fields
<1>3. s \in Documents
  BY <1>1, <1>2, Retyped
<1>4. s.error = None /\ b # None
  BY <1>1, <1>2, ActivePhases, NullAssumption, Nulls DEF SameBut, Fields, Documents,
     ContentOK, TaskOK, TaskPhases, Ready
<1>5. ProgressOK(s, "building") /\ TaskOK(s, "building")
  BY <1>1, <1>2, <1>4, PhaseFacts, ActivePhases, Zeros DEF ContentOK, SameBut, Fields,
     ProgressOK, TaskOK,
     Ready, TaskPhases, Documents
<1>6. DecisionOK(s, "building") /\ PendingOK(s, "building")
  BY <1>1, <1>2, <1>4, PhaseFacts, ActivePhases DEF ContentOK, SameBut, Fields, DecisionOK,
     PendingOK,
     KeptFor, ArchitectAsked, DecisionRelationshipsOK, ArchitectKinds, BuilderKinds, Ready
<1>7. BuilderOK(s, "building")
  BY <1>1, <1>2, <1>4, PhaseFacts, ActivePhases DEF ContentOK, SameBut, Fields, BuilderOK,
     ArchitectAsked,
     ArchitectKinds, Ready
<1>8. AuditorOK(s, "building") /\ VerifiedOK(s, "building")
  BY <1>1, <1>2, <1>4, PhaseFacts, ActivePhases DEF ContentOK, SameBut, Fields, AuditorOK,
     VerifiedOK, Ready,
     MergePhases, CleanupPhases, PostBuildPhases, PreVerificationPhases
<1>9. s.worktree = d.worktree /\ s.intent = d.intent
  BY <1>2 DEF SameBut, Fields
<1> QED
  BY <1>3, <1>5, <1>6, <1>7, <1>8, <1>9 DEF ContentOK

LEMMA BlockedMove ==
  ASSUME NEW d, DocOK(d), d.phase = "building", NEW b \in Builders, b.task = d.planner.task, b.status = "BLOCKED",
         NEW n \in Nat, NEW q \in Questions, q.kind \in BuilderKinds, q.about = "BLOCKED", ~q.answered,
         NEW s, s = [d EXCEPT !.builder = b, !.guidance = n, !.pending = q,
                          !.phase = "awaiting_input"]
  PROVE  DocOK(s) /\ s.phase = "awaiting_input" /\ s.worktree = d.worktree /\ s.intent = d.intent
<1>1. d \in Documents /\ DOMAIN d = Fields /\ d.error = None /\ ContentOK(d, "building")
  BY Active, ActivePhases
<1>2. SameBut(d, s, {"builder", "guidance", "pending", "phase"}) /\ s.builder = b /\ s.guidance =
     n /\ s.pending = q /\ s.phase = "awaiting_input"
  BY <1>1 DEF SameBut, Fields
<1>3. s \in Documents
  BY <1>1, <1>2, Retyped, ActivePhases
<1>4. s.error = None /\ b # None /\ q # None
  BY <1>1, <1>2, ActivePhases, NullAssumption, Nulls DEF SameBut, Fields, Documents,
     ContentOK, TaskOK, TaskPhases, Ready
<1>5. ProgressOK(s, "awaiting_input") /\ TaskOK(s, "awaiting_input")
  BY <1>1, <1>2, <1>4, PhaseFacts, ActivePhases, Zeros DEF ContentOK, SameBut, Fields,
     ProgressOK, TaskOK,
     Ready, TaskPhases, Documents
<1>6. DecisionOK(s, "awaiting_input") /\ PendingOK(s, "awaiting_input")
  BY <1>1, <1>2, <1>4, PhaseFacts, ActivePhases DEF ContentOK, SameBut, Fields, DecisionOK,
     PendingOK,
     KeptFor, ArchitectAsked, DecisionRelationshipsOK, ArchitectKinds, BuilderKinds, Ready, BuilderKinds
<1>7. BuilderOK(s, "awaiting_input")
  BY <1>1, <1>2, <1>4, PhaseFacts, ActivePhases DEF ContentOK, SameBut, Fields, BuilderOK,
     ArchitectAsked,
     ArchitectKinds, Ready, BuilderKinds
<1>8. AuditorOK(s, "awaiting_input") /\ VerifiedOK(s, "awaiting_input")
  BY <1>1, <1>2, <1>4, PhaseFacts, ActivePhases DEF ContentOK, SameBut, Fields, AuditorOK,
     VerifiedOK, Ready,
     MergePhases, CleanupPhases, PostBuildPhases, PreVerificationPhases
<1>9. s.worktree = d.worktree /\ s.intent = d.intent
  BY <1>2 DEF SameBut, Fields
<1>10. ContentOK(s, s.phase) /\ s.phase \in RetryTargetPhases \cup {"done"} /\ s.error = None
  BY <1>2, <1>4, <1>5, <1>6, <1>7, <1>8, ActivePhases DEF ContentOK
<1> QED
  BY <1>2, <1>3, <1>9, <1>10, ActiveDoc

LEMMA VerifiedMove ==
  ASSUME NEW d, DocOK(d), d.phase = "verifying", NEW h \in Nat,
         NEW s, s = [d EXCEPT !.verification = h, !.phase = "auditing"]
  PROVE  DocOK(s) /\ s.phase = "auditing" /\ s.worktree = d.worktree /\ s.intent = d.intent
<1>1. d \in Documents /\ DOMAIN d = Fields /\ d.error = None /\ ContentOK(d, "verifying")
  BY Active, ActivePhases
<1>2. SameBut(d, s, {"verification", "phase"}) /\ s.verification = h /\ s.phase = "auditing"
  BY <1>1 DEF SameBut, Fields
<1>3. s \in Documents
  BY <1>1, <1>2, Retyped, ActivePhases
<1>4. s.error = None /\ h # None /\ VerifyConfigured \in BOOLEAN
  BY <1>1, <1>2, NullAssumption, Nulls, VerifyConfiguredAssumption DEF SameBut, Fields,
     Documents, ContentOK, TaskOK, TaskPhases, Ready
<1>5. ProgressOK(s, "auditing") /\ TaskOK(s, "auditing")
  BY <1>1, <1>2, <1>4, PhaseFacts, ActivePhases, Zeros DEF ContentOK, SameBut, Fields,
     ProgressOK, TaskOK,
     Ready, TaskPhases, Documents
<1>6. DecisionOK(s, "auditing") /\ PendingOK(s, "auditing")
  BY <1>1, <1>2, <1>4, PhaseFacts, ActivePhases DEF ContentOK, SameBut, Fields, DecisionOK,
     PendingOK,
     KeptFor, ArchitectAsked, DecisionRelationshipsOK, ArchitectKinds, BuilderKinds, Ready
<1>7. BuilderOK(s, "auditing")
  BY <1>1, <1>2, <1>4, PhaseFacts, ActivePhases DEF ContentOK, SameBut, Fields, BuilderOK,
     ArchitectAsked,
     ArchitectKinds, Ready
<1>8. AuditorOK(s, "auditing") /\ VerifiedOK(s, "auditing")
  BY <1>1, <1>2, <1>4, PhaseFacts, ActivePhases DEF ContentOK, SameBut, Fields, AuditorOK,
     VerifiedOK, Ready,
     MergePhases, CleanupPhases, PostBuildPhases, PreVerificationPhases
<1>9. s.worktree = d.worktree /\ s.intent = d.intent
  BY <1>2 DEF SameBut, Fields
<1>10. ContentOK(s, s.phase) /\ s.phase \in RetryTargetPhases \cup {"done"} /\ s.error = None
  BY <1>2, <1>4, <1>5, <1>6, <1>7, <1>8, ActivePhases DEF ContentOK
<1> QED
  BY <1>2, <1>3, <1>9, <1>10, ActiveDoc

LEMMA AcceptMove ==
  ASSUME NEW d, DocOK(d), d.phase = "auditing", NEW a \in Auditors, a.task = d.planner.task, a.disposition = "ACCEPT",
         NEW g \in Nat, NEW h \in Nat,
         NEW s, s = [d EXCEPT !.auditor = a, !.mergePre = g, !.mergeTask = h,
                          !.phase = "merging"]
  PROVE  DocOK(s) /\ s.phase = "merging" /\ s.worktree = d.worktree /\ s.intent = d.intent
<1>1. d \in Documents /\ DOMAIN d = Fields /\ d.error = None /\ ContentOK(d, "auditing")
  BY Active, ActivePhases
<1>2. SameBut(d, s, {"auditor", "mergePre", "mergeTask", "phase"}) /\ s.auditor = a /\ s.mergePre
     = g /\ s.mergeTask = h /\ s.phase = "merging"
  BY <1>1 DEF SameBut, Fields
<1>3. s \in Documents
  BY <1>1, <1>2, Retyped, ActivePhases
<1>4. s.error = None /\ a # None /\ g # None /\ h # None
  BY <1>1, <1>2, ActivePhases, NullAssumption, Nulls DEF SameBut, Fields, Documents,
     ContentOK, TaskOK, TaskPhases, Ready
<1>5. ProgressOK(s, "merging") /\ TaskOK(s, "merging")
  BY <1>1, <1>2, <1>4, PhaseFacts, ActivePhases, Zeros DEF ContentOK, SameBut, Fields,
     ProgressOK, TaskOK,
     Ready, TaskPhases, Documents
<1>6. DecisionOK(s, "merging") /\ PendingOK(s, "merging")
  BY <1>1, <1>2, <1>4, PhaseFacts, ActivePhases DEF ContentOK, SameBut, Fields, DecisionOK,
     PendingOK,
     KeptFor, ArchitectAsked, DecisionRelationshipsOK, ArchitectKinds, BuilderKinds, Ready
<1>7. BuilderOK(s, "merging")
  BY <1>1, <1>2, <1>4, PhaseFacts, ActivePhases DEF ContentOK, SameBut, Fields, BuilderOK,
     ArchitectAsked,
     ArchitectKinds, Ready
<1>8. AuditorOK(s, "merging") /\ VerifiedOK(s, "merging")
  BY <1>1, <1>2, <1>4, PhaseFacts, ActivePhases DEF ContentOK, SameBut, Fields, AuditorOK,
     VerifiedOK, Ready,
     MergePhases, CleanupPhases, PostBuildPhases, PreVerificationPhases
<1>9. s.worktree = d.worktree /\ s.intent = d.intent
  BY <1>2 DEF SameBut, Fields
<1>10. ContentOK(s, s.phase) /\ s.phase \in RetryTargetPhases \cup {"done"} /\ s.error = None
  BY <1>2, <1>4, <1>5, <1>6, <1>7, <1>8, ActivePhases DEF ContentOK
<1> QED
  BY <1>2, <1>3, <1>9, <1>10, ActiveDoc

LEMMA AcceptFails ==
  ASSUME NEW d, DocOK(d), d.phase = "auditing", NEW a \in Auditors, a.task = d.planner.task,
         NEW s, s = [d EXCEPT !.auditor = a]
  PROVE  s \in Documents /\ ContentOK(s, "auditing") /\ s.worktree = d.worktree
<1>1. d \in Documents /\ DOMAIN d = Fields /\ d.error = None /\ ContentOK(d, "auditing")
  BY Active, ActivePhases
<1>2. SameBut(d, s, {"auditor"}) /\ s.auditor = a
  BY <1>1 DEF SameBut, Fields
<1>3. s \in Documents
  BY <1>1, <1>2, Retyped
<1>4. s.error = None /\ a # None
  BY <1>1, <1>2, ActivePhases, NullAssumption, Nulls DEF SameBut, Fields, Documents,
     ContentOK, TaskOK, TaskPhases, Ready
<1>5. ProgressOK(s, "auditing") /\ TaskOK(s, "auditing")
  BY <1>1, <1>2, <1>4, PhaseFacts, ActivePhases, Zeros DEF ContentOK, SameBut, Fields,
     ProgressOK, TaskOK,
     Ready, TaskPhases, Documents
<1>6. DecisionOK(s, "auditing") /\ PendingOK(s, "auditing")
  BY <1>1, <1>2, <1>4, PhaseFacts, ActivePhases DEF ContentOK, SameBut, Fields, DecisionOK,
     PendingOK,
     KeptFor, ArchitectAsked, DecisionRelationshipsOK, ArchitectKinds, BuilderKinds, Ready
<1>7. BuilderOK(s, "auditing")
  BY <1>1, <1>2, <1>4, PhaseFacts, ActivePhases DEF ContentOK, SameBut, Fields, BuilderOK,
     ArchitectAsked,
     ArchitectKinds, Ready
<1>8. AuditorOK(s, "auditing") /\ VerifiedOK(s, "auditing")
  BY <1>1, <1>2, <1>4, PhaseFacts, ActivePhases DEF ContentOK, SameBut, Fields, AuditorOK,
     VerifiedOK, Ready,
     MergePhases, CleanupPhases, PostBuildPhases, PreVerificationPhases
<1>9. s.worktree = d.worktree /\ s.intent = d.intent
  BY <1>2 DEF SameBut, Fields
<1> QED
  BY <1>3, <1>5, <1>6, <1>7, <1>8, <1>9 DEF ContentOK

LEMMA ReviseMove ==
  ASSUME NEW d, DocOK(d), d.phase = "auditing", NEW a \in Auditors, a.task = d.planner.task, a.disposition = "REVISE",
         NEW n \in 0..(MaxRevisions + 1), n <= MaxRevisions,
         NEW s, s = [d EXCEPT !.auditor = a, !.revisions = n, !.verification = None,
                          !.phase = "building"]
  PROVE  DocOK(s) /\ s.phase = "building" /\ s.worktree = d.worktree /\ s.intent = d.intent
<1>1. d \in Documents /\ DOMAIN d = Fields /\ d.error = None /\ ContentOK(d, "auditing")
  BY Active, ActivePhases
<1>2. SameBut(d, s, {"auditor", "revisions", "verification", "phase"}) /\ s.auditor = a /\
     s.revisions = n /\ s.verification = None /\ s.phase = "building"
  BY <1>1 DEF SameBut, Fields
<1>3. s \in Documents
  BY <1>1, <1>2, Retyped, ActivePhases
<1>4. s.error = None /\ a # None
  BY <1>1, <1>2, ActivePhases, NullAssumption, Nulls DEF SameBut, Fields, Documents,
     ContentOK, TaskOK, TaskPhases, Ready
<1>5. ProgressOK(s, "building") /\ TaskOK(s, "building")
  BY <1>1, <1>2, <1>4, PhaseFacts, ActivePhases, Zeros DEF ContentOK, SameBut, Fields,
     ProgressOK, TaskOK,
     Ready, TaskPhases, Documents
<1>6. DecisionOK(s, "building") /\ PendingOK(s, "building")
  BY <1>1, <1>2, <1>4, PhaseFacts, ActivePhases DEF ContentOK, SameBut, Fields, DecisionOK,
     PendingOK,
     KeptFor, ArchitectAsked, DecisionRelationshipsOK, ArchitectKinds, BuilderKinds, Ready
<1>7. BuilderOK(s, "building")
  BY <1>1, <1>2, <1>4, PhaseFacts, ActivePhases DEF ContentOK, SameBut, Fields, BuilderOK,
     ArchitectAsked,
     ArchitectKinds, Ready
<1>8. AuditorOK(s, "building") /\ VerifiedOK(s, "building")
  BY <1>1, <1>2, <1>4, PhaseFacts, ActivePhases DEF ContentOK, SameBut, Fields, AuditorOK,
     VerifiedOK, Ready,
     MergePhases, CleanupPhases, PostBuildPhases, PreVerificationPhases
<1>9. s.worktree = d.worktree /\ s.intent = d.intent
  BY <1>2 DEF SameBut, Fields
<1>10. ContentOK(s, s.phase) /\ s.phase \in RetryTargetPhases \cup {"done"} /\ s.error = None
  BY <1>2, <1>4, <1>5, <1>6, <1>7, <1>8, ActivePhases DEF ContentOK
<1> QED
  BY <1>2, <1>3, <1>9, <1>10, ActiveDoc

LEMMA ReviseEnds ==
  ASSUME NEW d, DocOK(d), d.phase = "auditing", NEW a \in Auditors, a.task = d.planner.task, a.disposition = "REVISE",
         NEW n \in 0..(MaxRevisions + 1),
         NEW s, s = [d EXCEPT !.auditor = a, !.revisions = n]
  PROVE  s \in Documents /\ EndedOK(s, "auditing") /\ s.worktree = d.worktree /\ s.worktree # None
<1>1. d \in Documents /\ DOMAIN d = Fields /\ d.error = None /\ ContentOK(d, "auditing")
  BY Active, ActivePhases
<1>2. SameBut(d, s, {"auditor", "revisions"}) /\ s.auditor = a /\ s.revisions = n
  BY <1>1 DEF SameBut, Fields
<1>3. s \in Documents
  BY <1>1, <1>2, Retyped
<1>4. EndedOK(s, "auditing")
  BY <1>1, <1>2, PhaseFacts, ActivePhases DEF ContentOK, SameBut, Fields, EndedOK, TaskOK,
     DecisionOK,
     PendingOK, KeptFor, BuilderOK, AuditorOK, DecisionRelationshipsOK, Ready, ArchitectAsked,
     BuilderKinds
<1>5. s.worktree = d.worktree /\ s.worktree # None
  BY <1>1, <1>2, PhaseFacts, ActivePhases DEF SameBut, Fields, ContentOK, TaskOK, TaskPhases
<1> QED
  BY <1>3, <1>4, <1>5

LEMMA ReplanMove ==
  ASSUME NEW d, DocOK(d), d.phase = "auditing", NEW a \in Auditors, a.task = d.planner.task, a.disposition = "REPLAN",
         NEW n \in 0..(MaxReplans + 1), n <= MaxReplans,
         NEW s, s = [d EXCEPT !.auditor = a, !.replans = n, !.builder = None,
                          !.verification = None, !.phase = "planning"]
  PROVE  DocOK(s) /\ s.phase = "planning" /\ s.worktree = d.worktree /\ s.intent = d.intent
<1>1. d \in Documents /\ DOMAIN d = Fields /\ d.error = None /\ ContentOK(d, "auditing")
  BY Active, ActivePhases
<1>2. SameBut(d, s, {"auditor", "replans", "builder", "verification", "phase"}) /\ s.auditor = a
     /\ s.replans = n /\ s.builder = None /\ s.verification = None /\ s.phase = "planning"
  BY <1>1 DEF SameBut, Fields
<1>3. s \in Documents
  BY <1>1, <1>2, Retyped, ActivePhases
<1>4. s.error = None /\ a # None
  BY <1>1, <1>2, ActivePhases, NullAssumption, Nulls DEF SameBut, Fields, Documents,
     ContentOK, TaskOK, TaskPhases, Ready
<1>5. ProgressOK(s, "planning") /\ TaskOK(s, "planning")
  BY <1>1, <1>2, <1>4, PhaseFacts, ActivePhases, Zeros DEF ContentOK, SameBut, Fields,
     ProgressOK, TaskOK,
     Ready, TaskPhases, Documents
<1>6. DecisionOK(s, "planning") /\ PendingOK(s, "planning")
  BY <1>1, <1>2, <1>4, PhaseFacts, ActivePhases DEF ContentOK, SameBut, Fields, DecisionOK,
     PendingOK,
     KeptFor, ArchitectAsked, DecisionRelationshipsOK, ArchitectKinds, BuilderKinds, Ready
<1>7. BuilderOK(s, "planning")
  BY <1>1, <1>2, <1>4, PhaseFacts, ActivePhases DEF ContentOK, SameBut, Fields, BuilderOK,
     ArchitectAsked,
     ArchitectKinds, Ready
<1>8. AuditorOK(s, "planning") /\ VerifiedOK(s, "planning")
  BY <1>1, <1>2, <1>4, PhaseFacts, ActivePhases DEF ContentOK, SameBut, Fields, AuditorOK,
     VerifiedOK, Ready,
     MergePhases, CleanupPhases, PostBuildPhases, PreVerificationPhases
<1>9. s.worktree = d.worktree /\ s.intent = d.intent
  BY <1>2 DEF SameBut, Fields
<1>10. ContentOK(s, s.phase) /\ s.phase \in RetryTargetPhases \cup {"done"} /\ s.error = None
  BY <1>2, <1>4, <1>5, <1>6, <1>7, <1>8, ActivePhases DEF ContentOK
<1> QED
  BY <1>2, <1>3, <1>9, <1>10, ActiveDoc

LEMMA ReplanAskMove ==
  ASSUME NEW d, DocOK(d), d.phase = "auditing", NEW a \in Auditors, a.task = d.planner.task, a.disposition = "REPLAN",
         NEW n \in 0..(MaxReplans + 1), n <= MaxReplans, a.decision, NEW k, k = "auditor",
         NEW s, s = [d EXCEPT !.auditor = a, !.replans = n, !.builder = None,
                          !.verification = None, !.decision = k,
                          !.phase = "architecting"]
  PROVE  DocOK(s) /\ s.phase = "architecting" /\ s.worktree = d.worktree /\ s.intent = d.intent
<1>1. d \in Documents /\ DOMAIN d = Fields /\ d.error = None /\ ContentOK(d, "auditing")
  BY Active, ActivePhases
<1>2. SameBut(d, s, {"auditor", "replans", "builder", "verification", "decision", "phase"}) /\
     s.auditor = a /\ s.replans = n /\ s.builder = None /\ s.verification = None /\ s.decision = k
     /\ s.phase = "architecting"
  BY <1>1 DEF SameBut, Fields
<1>3. s \in Documents
  BY <1>1, <1>2, Retyped, ActivePhases
<1>4. s.error = None /\ a # None /\ k # None /\ d.planner # None
  BY <1>1, <1>2, ActivePhases, NullAssumption, Nulls DEF SameBut, Fields, Documents,
     ContentOK, TaskOK, TaskPhases, Ready
<1>5. ProgressOK(s, "architecting") /\ TaskOK(s, "architecting")
  BY <1>1, <1>2, <1>4, PhaseFacts, ActivePhases, Zeros DEF ContentOK, SameBut, Fields,
     ProgressOK, TaskOK,
     Ready, TaskPhases, Documents
<1>6. DecisionOK(s, "architecting") /\ PendingOK(s, "architecting")
  BY <1>1, <1>2, <1>4, PhaseFacts, ActivePhases DEF ContentOK, SameBut, Fields, DecisionOK,
     PendingOK,
     KeptFor, ArchitectAsked, DecisionRelationshipsOK, ArchitectKinds, BuilderKinds, Ready
<1>7. BuilderOK(s, "architecting")
  BY <1>1, <1>2, <1>4, PhaseFacts, ActivePhases DEF ContentOK, SameBut, Fields, BuilderOK,
     ArchitectAsked,
     ArchitectKinds, Ready
<1>8. AuditorOK(s, "architecting") /\ VerifiedOK(s, "architecting")
  BY <1>1, <1>2, <1>4, PhaseFacts, ActivePhases DEF ContentOK, SameBut, Fields, AuditorOK,
     VerifiedOK, Ready,
     MergePhases, CleanupPhases, PostBuildPhases, PreVerificationPhases
<1>9. s.worktree = d.worktree /\ s.intent = d.intent
  BY <1>2 DEF SameBut, Fields
<1>10. ContentOK(s, s.phase) /\ s.phase \in RetryTargetPhases \cup {"done"} /\ s.error = None
  BY <1>2, <1>4, <1>5, <1>6, <1>7, <1>8, ActivePhases DEF ContentOK
<1> QED
  BY <1>2, <1>3, <1>9, <1>10, ActiveDoc

LEMMA ReplanEnds ==
  ASSUME NEW d, DocOK(d), d.phase = "auditing", NEW a \in Auditors, a.task = d.planner.task, a.disposition = "REPLAN",
         NEW n \in 0..(MaxReplans + 1),
         NEW s, s = [d EXCEPT !.auditor = a, !.replans = n]
  PROVE  s \in Documents /\ EndedOK(s, "auditing") /\ s.worktree = d.worktree /\ s.worktree # None
<1>1. d \in Documents /\ DOMAIN d = Fields /\ d.error = None /\ ContentOK(d, "auditing")
  BY Active, ActivePhases
<1>2. SameBut(d, s, {"auditor", "replans"}) /\ s.auditor = a /\ s.replans = n
  BY <1>1 DEF SameBut, Fields
<1>3. s \in Documents
  BY <1>1, <1>2, Retyped
<1>4. EndedOK(s, "auditing")
  BY <1>1, <1>2, PhaseFacts, ActivePhases DEF ContentOK, SameBut, Fields, EndedOK, TaskOK,
     DecisionOK,
     PendingOK, KeptFor, BuilderOK, AuditorOK, DecisionRelationshipsOK, Ready, ArchitectAsked,
     BuilderKinds
<1>5. s.worktree = d.worktree /\ s.worktree # None
  BY <1>1, <1>2, PhaseFacts, ActivePhases DEF SameBut, Fields, ContentOK, TaskOK, TaskPhases
<1> QED
  BY <1>3, <1>4, <1>5

LEMMA MergedMove ==
  ASSUME NEW d, DocOK(d), d.phase = "merging", NEW c \in Nat,
         NEW s, s = [d EXCEPT !.mergeCommit = c, !.phase = "cleanup_worktree"]
  PROVE  DocOK(s) /\ s.phase = "cleanup_worktree" /\ s.worktree = d.worktree /\ s.intent = d.intent
<1>1. d \in Documents /\ DOMAIN d = Fields /\ d.error = None /\ ContentOK(d, "merging")
  BY Active, ActivePhases
<1>2. SameBut(d, s, {"mergeCommit", "phase"}) /\ s.mergeCommit = c /\ s.phase = "cleanup_worktree"
  BY <1>1 DEF SameBut, Fields
<1>3. s \in Documents
  BY <1>1, <1>2, Retyped, ActivePhases
<1>4. s.error = None /\ c # None
  BY <1>1, <1>2, ActivePhases, NullAssumption, Nulls DEF SameBut, Fields, Documents,
     ContentOK, TaskOK, TaskPhases, Ready
<1>5. ProgressOK(s, "cleanup_worktree") /\ TaskOK(s, "cleanup_worktree")
  BY <1>1, <1>2, <1>4, PhaseFacts, ActivePhases, Zeros DEF ContentOK, SameBut, Fields,
     ProgressOK, TaskOK,
     Ready, TaskPhases, Documents
<1>6. DecisionOK(s, "cleanup_worktree") /\ PendingOK(s, "cleanup_worktree")
  BY <1>1, <1>2, <1>4, PhaseFacts, ActivePhases DEF ContentOK, SameBut, Fields, DecisionOK,
     PendingOK,
     KeptFor, ArchitectAsked, DecisionRelationshipsOK, ArchitectKinds, BuilderKinds, Ready
<1>7. BuilderOK(s, "cleanup_worktree")
  BY <1>1, <1>2, <1>4, PhaseFacts, ActivePhases DEF ContentOK, SameBut, Fields, BuilderOK,
     ArchitectAsked,
     ArchitectKinds, Ready
<1>8. AuditorOK(s, "cleanup_worktree") /\ VerifiedOK(s, "cleanup_worktree")
  BY <1>1, <1>2, <1>4, PhaseFacts, ActivePhases DEF ContentOK, SameBut, Fields, AuditorOK,
     VerifiedOK, Ready,
     MergePhases, CleanupPhases, PostBuildPhases, PreVerificationPhases
<1>9. s.worktree = d.worktree /\ s.intent = d.intent
  BY <1>2 DEF SameBut, Fields
<1>10. ContentOK(s, s.phase) /\ s.phase \in RetryTargetPhases \cup {"done"} /\ s.error = None
  BY <1>2, <1>4, <1>5, <1>6, <1>7, <1>8, ActivePhases DEF ContentOK
<1> QED
  BY <1>2, <1>3, <1>9, <1>10, ActiveDoc

LEMMA RemovedMove ==
  ASSUME NEW d, DocOK(d), d.phase = "cleanup_worktree", TRUE,
         NEW s, s = [d EXCEPT !.phase = "cleanup_branch"]
  PROVE  DocOK(s) /\ s.phase = "cleanup_branch" /\ s.worktree = d.worktree /\ s.intent = d.intent
<1>1. d \in Documents /\ DOMAIN d = Fields /\ d.error = None /\ ContentOK(d, "cleanup_worktree")
  BY Active, ActivePhases
<1>2. SameBut(d, s, {"phase"}) /\ s.phase = "cleanup_branch"
  BY <1>1 DEF SameBut, Fields
<1>3. s \in Documents
  BY <1>1, <1>2, Retyped, ActivePhases
<1>4. s.error = None
  BY <1>1, <1>2 DEF SameBut, Fields
<1>5. ProgressOK(s, "cleanup_branch") /\ TaskOK(s, "cleanup_branch")
  BY <1>1, <1>2, <1>4, PhaseFacts, ActivePhases, Zeros DEF ContentOK, SameBut, Fields,
     ProgressOK, TaskOK,
     Ready, TaskPhases, Documents
<1>6. DecisionOK(s, "cleanup_branch") /\ PendingOK(s, "cleanup_branch")
  BY <1>1, <1>2, <1>4, PhaseFacts, ActivePhases DEF ContentOK, SameBut, Fields, DecisionOK,
     PendingOK,
     KeptFor, ArchitectAsked, DecisionRelationshipsOK, ArchitectKinds, BuilderKinds, Ready, CleanupPhases, MergePhases, PostBuildPhases
<1>7. BuilderOK(s, "cleanup_branch")
  BY <1>1, <1>2, <1>4, PhaseFacts, ActivePhases DEF ContentOK, SameBut, Fields, BuilderOK,
     ArchitectAsked,
     ArchitectKinds, Ready, CleanupPhases, MergePhases, PostBuildPhases
<1>8. AuditorOK(s, "cleanup_branch") /\ VerifiedOK(s, "cleanup_branch")
  BY <1>1, <1>2, <1>4, PhaseFacts, ActivePhases DEF ContentOK, SameBut, Fields, AuditorOK,
     VerifiedOK, Ready,
     MergePhases, CleanupPhases, PostBuildPhases, PreVerificationPhases
<1>9. s.worktree = d.worktree /\ s.intent = d.intent
  BY <1>2 DEF SameBut, Fields
<1>10. ContentOK(s, s.phase) /\ s.phase \in RetryTargetPhases \cup {"done"} /\ s.error = None
  BY <1>2, <1>4, <1>5, <1>6, <1>7, <1>8, ActivePhases DEF ContentOK
<1> QED
  BY <1>2, <1>3, <1>9, <1>10, ActiveDoc

LEMMA ReplanAnswerMove ==
  ASSUME NEW d, DocOK(d), d.phase = "awaiting_input", NEW n \in 0..(MaxReplans + 1), n <= MaxReplans,
         NEW s, s = [d EXCEPT !.replans = n, !.pending = None, !.builder = None,
                          !.verification = None, !.phase = "planning"]
  PROVE  DocOK(s) /\ s.phase = "planning" /\ s.worktree = d.worktree /\ s.intent = d.intent
<1>1. d \in Documents /\ DOMAIN d = Fields /\ d.error = None /\ ContentOK(d, "awaiting_input")
  BY Active, ActivePhases
<1>2. SameBut(d, s, {"replans", "pending", "builder", "verification", "phase"}) /\ s.replans = n
     /\ s.pending = None /\ s.builder = None /\ s.verification = None /\ s.phase = "planning"
  BY <1>1 DEF SameBut, Fields
<1>3. s \in Documents
  BY <1>1, <1>2, Retyped, ActivePhases
<1>4. s.error = None
  BY <1>1, <1>2 DEF SameBut, Fields
<1>5. ProgressOK(s, "planning") /\ TaskOK(s, "planning")
  BY <1>1, <1>2, <1>4, PhaseFacts, ActivePhases, Zeros DEF ContentOK, SameBut, Fields,
     ProgressOK, TaskOK,
     Ready, TaskPhases, Documents
<1>6. DecisionOK(s, "planning") /\ PendingOK(s, "planning")
  BY <1>1, <1>2, <1>4, PhaseFacts, ActivePhases DEF ContentOK, SameBut, Fields, DecisionOK,
     PendingOK,
     KeptFor, ArchitectAsked, DecisionRelationshipsOK, ArchitectKinds, BuilderKinds, Ready
<1>7. BuilderOK(s, "planning")
  BY <1>1, <1>2, <1>4, PhaseFacts, ActivePhases DEF ContentOK, SameBut, Fields, BuilderOK,
     ArchitectAsked,
     ArchitectKinds, Ready
<1>8. AuditorOK(s, "planning") /\ VerifiedOK(s, "planning")
  BY <1>1, <1>2, <1>4, PhaseFacts, ActivePhases DEF ContentOK, SameBut, Fields, AuditorOK,
     VerifiedOK, Ready,
     MergePhases, CleanupPhases, PostBuildPhases, PreVerificationPhases
<1>9. s.worktree = d.worktree /\ s.intent = d.intent
  BY <1>2 DEF SameBut, Fields
<1>10. ContentOK(s, s.phase) /\ s.phase \in RetryTargetPhases \cup {"done"} /\ s.error = None
  BY <1>2, <1>4, <1>5, <1>6, <1>7, <1>8, ActivePhases DEF ContentOK
<1> QED
  BY <1>2, <1>3, <1>9, <1>10, ActiveDoc

LEMMA ReplanAnswerEnds ==
  ASSUME NEW d, DocOK(d), d.phase = "awaiting_input", NEW n \in 0..(MaxReplans + 1),
         NEW s, s = [d EXCEPT !.replans = n, !.pending = None]
  PROVE  s \in Documents /\ EndedOK(s, "awaiting_input") /\ s.worktree = d.worktree /\ s.worktree # None
<1>1. d \in Documents /\ DOMAIN d = Fields /\ d.error = None /\ ContentOK(d, "awaiting_input")
  BY Active, ActivePhases
<1>2. SameBut(d, s, {"replans", "pending"}) /\ s.replans = n /\ s.pending = None
  BY <1>1 DEF SameBut, Fields
<1>3. s \in Documents
  BY <1>1, <1>2, Retyped
<1>4. EndedOK(s, "awaiting_input")
  BY <1>1, <1>2, PhaseFacts, ActivePhases DEF ContentOK, SameBut, Fields, EndedOK, TaskOK,
     DecisionOK,
     PendingOK, KeptFor, BuilderOK, AuditorOK, DecisionRelationshipsOK, Ready, ArchitectAsked,
     BuilderKinds
<1>5. s.worktree = d.worktree /\ s.worktree # None
  BY <1>1, <1>2, PhaseFacts, ActivePhases DEF SameBut, Fields, ContentOK, TaskOK, TaskPhases
<1> QED
  BY <1>3, <1>4, <1>5

LEMMA AbandonEnds ==
  ASSUME NEW d, DocOK(d), d.phase = "awaiting_input", TRUE,
         NEW s, s = [d EXCEPT !.pending = None]
  PROVE  s \in Documents /\ EndedOK(s, "awaiting_input") /\ s.worktree = d.worktree /\ s.worktree # None
<1>1. d \in Documents /\ DOMAIN d = Fields /\ d.error = None /\ ContentOK(d, "awaiting_input")
  BY Active, ActivePhases
<1>2. SameBut(d, s, {"pending"}) /\ s.pending = None
  BY <1>1 DEF SameBut, Fields
<1>3. s \in Documents
  BY <1>1, <1>2, Retyped
<1>4. EndedOK(s, "awaiting_input")
  BY <1>1, <1>2, PhaseFacts, ActivePhases DEF ContentOK, SameBut, Fields, EndedOK, TaskOK,
     DecisionOK,
     PendingOK, KeptFor, BuilderOK, AuditorOK, DecisionRelationshipsOK, Ready, ArchitectAsked,
     BuilderKinds
<1>5. s.worktree = d.worktree /\ s.worktree # None
  BY <1>1, <1>2, PhaseFacts, ActivePhases DEF SameBut, Fields, ContentOK, TaskOK, TaskPhases
<1> QED
  BY <1>3, <1>4, <1>5

LEMMA GuidanceMove ==
  ASSUME NEW d, DocOK(d), d.phase = "awaiting_input", d.pending.kind = "builder_guidance",
         NEW q \in Questions, q.kind = d.pending.kind,
         q.about = d.pending.about, q.adr = d.pending.adr, q.answered,
         NEW s, s = [d EXCEPT !.pending = q, !.phase = "building"]
  PROVE  DocOK(s) /\ s.phase = "building" /\ s.worktree = d.worktree /\ s.intent = d.intent
<1>1. d \in Documents /\ DOMAIN d = Fields /\ d.error = None /\ ContentOK(d, "awaiting_input")
  BY Active, ActivePhases
<1>2. SameBut(d, s, {"pending", "phase"}) /\ s.pending = q /\ s.phase = "building"
  BY <1>1 DEF SameBut, Fields
<1>3. s \in Documents
  BY <1>1, <1>2, Retyped, ActivePhases
<1>4. s.error = None /\ q # None
  BY <1>1, <1>2, ActivePhases, NullAssumption, Nulls DEF SameBut, Fields, Documents,
     ContentOK, TaskOK, TaskPhases, Ready
<1>5. ProgressOK(s, "building") /\ TaskOK(s, "building")
  BY <1>1, <1>2, <1>4, PhaseFacts, ActivePhases, Zeros DEF ContentOK, SameBut, Fields,
     ProgressOK, TaskOK,
     Ready, TaskPhases, Documents
<1>6. DecisionOK(s, "building") /\ PendingOK(s, "building")
  BY <1>1, <1>2, <1>4, PhaseFacts, ActivePhases DEF ContentOK, SameBut, Fields, DecisionOK,
     PendingOK,
     KeptFor, ArchitectAsked, DecisionRelationshipsOK, ArchitectKinds, BuilderKinds, Ready
<1>7. BuilderOK(s, "building")
  BY <1>1, <1>2, <1>4, PhaseFacts, ActivePhases DEF ContentOK, SameBut, Fields, BuilderOK,
     ArchitectAsked,
     ArchitectKinds, Ready
<1>8. AuditorOK(s, "building") /\ VerifiedOK(s, "building")
  BY <1>1, <1>2, <1>4, PhaseFacts, ActivePhases DEF ContentOK, SameBut, Fields, AuditorOK,
     VerifiedOK, Ready,
     MergePhases, CleanupPhases, PostBuildPhases, PreVerificationPhases
<1>9. s.worktree = d.worktree /\ s.intent = d.intent
  BY <1>2 DEF SameBut, Fields
<1>10. ContentOK(s, s.phase) /\ s.phase \in RetryTargetPhases \cup {"done"} /\ s.error = None
  BY <1>2, <1>4, <1>5, <1>6, <1>7, <1>8, ActivePhases DEF ContentOK
<1> QED
  BY <1>2, <1>3, <1>9, <1>10, ActiveDoc

LEMMA AdviceMove ==
  ASSUME NEW d, DocOK(d), d.phase = "awaiting_input", d.pending.kind = "architect_input",
         NEW q \in Questions, q.kind = d.pending.kind,
         q.about = d.pending.about, q.adr = d.pending.adr, q.answered,
         NEW s, s = [d EXCEPT !.pending = q, !.phase = "architecting"]
  PROVE  DocOK(s) /\ s.phase = "architecting" /\ s.worktree = d.worktree /\ s.intent = d.intent
<1>1. d \in Documents /\ DOMAIN d = Fields /\ d.error = None /\ ContentOK(d, "awaiting_input")
  BY Active, ActivePhases
<1>2. SameBut(d, s, {"pending", "phase"}) /\ s.pending = q /\ s.phase = "architecting"
  BY <1>1 DEF SameBut, Fields
<1>3. s \in Documents
  BY <1>1, <1>2, Retyped, ActivePhases
<1>4. s.error = None /\ q # None
  BY <1>1, <1>2, ActivePhases, NullAssumption, Nulls DEF SameBut, Fields, Documents,
     ContentOK, TaskOK, TaskPhases, Ready
<1>5. ProgressOK(s, "architecting") /\ TaskOK(s, "architecting")
  BY <1>1, <1>2, <1>4, PhaseFacts, ActivePhases, Zeros DEF ContentOK, SameBut, Fields,
     ProgressOK, TaskOK,
     Ready, TaskPhases, Documents
<1>6. DecisionOK(s, "architecting") /\ PendingOK(s, "architecting")
  BY <1>1, <1>2, <1>4, PhaseFacts, ActivePhases DEF ContentOK, SameBut, Fields, DecisionOK,
     PendingOK,
     KeptFor, ArchitectAsked, DecisionRelationshipsOK, ArchitectKinds, BuilderKinds, Ready
<1>7. BuilderOK(s, "architecting")
  BY <1>1, <1>2, <1>4, PhaseFacts, ActivePhases DEF ContentOK, SameBut, Fields, BuilderOK,
     ArchitectAsked,
     ArchitectKinds, Ready
<1>8. AuditorOK(s, "architecting") /\ VerifiedOK(s, "architecting")
  BY <1>1, <1>2, <1>4, PhaseFacts, ActivePhases DEF ContentOK, SameBut, Fields, AuditorOK,
     VerifiedOK, Ready,
     MergePhases, CleanupPhases, PostBuildPhases, PreVerificationPhases
<1>9. s.worktree = d.worktree /\ s.intent = d.intent
  BY <1>2 DEF SameBut, Fields
<1>10. ContentOK(s, s.phase) /\ s.phase \in RetryTargetPhases \cup {"done"} /\ s.error = None
  BY <1>2, <1>4, <1>5, <1>6, <1>7, <1>8, ActivePhases DEF ContentOK
<1> QED
  BY <1>2, <1>3, <1>9, <1>10, ActiveDoc

LEMMA ApprovalMove ==
  ASSUME NEW d, DocOK(d), d.phase = "awaiting_input", d.pending.kind = "decision_approval",
         NEW r \in Adrs,
         NEW s, s = [d EXCEPT !.adr = r, !.phase = "recording_decision", !.pending = None]
  PROVE  DocOK(s) /\ s.phase = "recording_decision" /\ s.worktree = d.worktree /\ s.intent = d.intent
<1>1. d \in Documents /\ DOMAIN d = Fields /\ d.error = None /\ ContentOK(d, "awaiting_input")
  BY Active, ActivePhases
<1>2. SameBut(d, s, {"adr", "pending", "phase"}) /\ s.adr = r /\ s.pending = None /\ s.phase =
     "recording_decision"
  BY <1>1 DEF SameBut, Fields
<1>3. s \in Documents
  BY <1>1, <1>2, Retyped, ActivePhases
<1>4. s.error = None /\ r # None
  BY <1>1, <1>2, ActivePhases, NullAssumption, Nulls DEF SameBut, Fields, Documents,
     ContentOK, TaskOK, TaskPhases, Ready
<1>5. ProgressOK(s, "recording_decision") /\ TaskOK(s, "recording_decision")
  BY <1>1, <1>2, <1>4, PhaseFacts, ActivePhases, Zeros DEF ContentOK, SameBut, Fields,
     ProgressOK, TaskOK,
     Ready, TaskPhases, Documents
<1>6. DecisionOK(s, "recording_decision") /\ PendingOK(s, "recording_decision")
  BY <1>1, <1>2, <1>4, PhaseFacts, ActivePhases DEF ContentOK, SameBut, Fields, DecisionOK,
     PendingOK,
     KeptFor, ArchitectAsked, DecisionRelationshipsOK, ArchitectKinds, BuilderKinds, Ready
<1>7. BuilderOK(s, "recording_decision")
  BY <1>1, <1>2, <1>4, PhaseFacts, ActivePhases DEF ContentOK, SameBut, Fields, BuilderOK,
     ArchitectAsked,
     ArchitectKinds, Ready
<1>8. AuditorOK(s, "recording_decision") /\ VerifiedOK(s, "recording_decision")
  BY <1>1, <1>2, <1>4, PhaseFacts, ActivePhases DEF ContentOK, SameBut, Fields, AuditorOK,
     VerifiedOK, Ready,
     MergePhases, CleanupPhases, PostBuildPhases, PreVerificationPhases
<1>9. s.worktree = d.worktree /\ s.intent = d.intent
  BY <1>2 DEF SameBut, Fields
<1>10. ContentOK(s, s.phase) /\ s.phase \in RetryTargetPhases \cup {"done"} /\ s.error = None
  BY <1>2, <1>4, <1>5, <1>6, <1>7, <1>8, ActivePhases DEF ContentOK
<1> QED
  BY <1>2, <1>3, <1>9, <1>10, ActiveDoc

LEMMA ApprovalFails ==
  ASSUME NEW d, DocOK(d), d.phase = "awaiting_input", d.pending.kind = "decision_approval",
         NEW q \in Questions, q.kind = d.pending.kind,
         q.about = d.pending.about, q.adr = d.pending.adr, q.answered,
         NEW s, s = [d EXCEPT !.pending = q]
  PROVE  s \in Documents /\ ContentOK(s, "awaiting_input") /\ s.worktree = d.worktree
<1>1. d \in Documents /\ DOMAIN d = Fields /\ d.error = None /\ ContentOK(d, "awaiting_input")
  BY Active, ActivePhases
<1>2. SameBut(d, s, {"pending"}) /\ s.pending = q
  BY <1>1 DEF SameBut, Fields
<1>3. s \in Documents
  BY <1>1, <1>2, Retyped
<1>4. s.error = None /\ q # None
  BY <1>1, <1>2, ActivePhases, NullAssumption, Nulls DEF SameBut, Fields, Documents,
     ContentOK, TaskOK, TaskPhases, Ready
<1>5. ProgressOK(s, "awaiting_input") /\ TaskOK(s, "awaiting_input")
  BY <1>1, <1>2, <1>4, PhaseFacts, ActivePhases, Zeros DEF ContentOK, SameBut, Fields,
     ProgressOK, TaskOK,
     Ready, TaskPhases, Documents
<1>6. DecisionOK(s, "awaiting_input") /\ PendingOK(s, "awaiting_input")
  BY <1>1, <1>2, <1>4, PhaseFacts, ActivePhases DEF ContentOK, SameBut, Fields, DecisionOK,
     PendingOK,
     KeptFor, ArchitectAsked, DecisionRelationshipsOK, ArchitectKinds, BuilderKinds, Ready
<1>7. BuilderOK(s, "awaiting_input")
  BY <1>1, <1>2, <1>4, PhaseFacts, ActivePhases DEF ContentOK, SameBut, Fields, BuilderOK,
     ArchitectAsked,
     ArchitectKinds, Ready
<1>8. AuditorOK(s, "awaiting_input") /\ VerifiedOK(s, "awaiting_input")
  BY <1>1, <1>2, <1>4, PhaseFacts, ActivePhases DEF ContentOK, SameBut, Fields, AuditorOK,
     VerifiedOK, Ready,
     MergePhases, CleanupPhases, PostBuildPhases, PreVerificationPhases
<1>9. s.worktree = d.worktree /\ s.intent = d.intent
  BY <1>2 DEF SameBut, Fields
<1> QED
  BY <1>3, <1>5, <1>6, <1>7, <1>8, <1>9 DEF ContentOK

LEMMA RefusalMove ==
  ASSUME NEW d, DocOK(d), d.phase = "awaiting_input", d.pending.kind = "decision_approval",
         NEW q \in Questions, q.kind = "architect_input", q.about = d.decision,
         NEW s, s = [d EXCEPT !.pending = q]
  PROVE  DocOK(s) /\ s.phase = "awaiting_input" /\ s.worktree = d.worktree /\ s.intent = d.intent
<1>1. d \in Documents /\ DOMAIN d = Fields /\ d.error = None /\ ContentOK(d, "awaiting_input")
  BY Active, ActivePhases
<1>2. SameBut(d, s, {"pending", "phase"}) /\ s.pending = q /\ s.phase = "awaiting_input"
  BY <1>1 DEF SameBut, Fields
<1>3. s \in Documents
  BY <1>1, <1>2, Retyped, ActivePhases
<1>4. s.error = None /\ q # None
  BY <1>1, <1>2, ActivePhases, NullAssumption, Nulls DEF SameBut, Fields, Documents,
     ContentOK, TaskOK, TaskPhases, Ready
<1>5. ProgressOK(s, "awaiting_input") /\ TaskOK(s, "awaiting_input")
  BY <1>1, <1>2, <1>4, PhaseFacts, ActivePhases, Zeros DEF ContentOK, SameBut, Fields,
     ProgressOK, TaskOK,
     Ready, TaskPhases, Documents
<1>6. DecisionOK(s, "awaiting_input") /\ PendingOK(s, "awaiting_input")
  BY <1>1, <1>2, <1>4, PhaseFacts, ActivePhases DEF ContentOK, SameBut, Fields, DecisionOK,
     PendingOK,
     KeptFor, ArchitectAsked, DecisionRelationshipsOK, ArchitectKinds, BuilderKinds, Ready
<1>7. BuilderOK(s, "awaiting_input")
  BY <1>1, <1>2, <1>4, PhaseFacts, ActivePhases DEF ContentOK, SameBut, Fields, BuilderOK,
     ArchitectAsked,
     ArchitectKinds, Ready
<1>8. AuditorOK(s, "awaiting_input") /\ VerifiedOK(s, "awaiting_input")
  BY <1>1, <1>2, <1>4, PhaseFacts, ActivePhases DEF ContentOK, SameBut, Fields, AuditorOK,
     VerifiedOK, Ready,
     MergePhases, CleanupPhases, PostBuildPhases, PreVerificationPhases
<1>9. s.worktree = d.worktree /\ s.intent = d.intent
  BY <1>2 DEF SameBut, Fields
<1>10. ContentOK(s, s.phase) /\ s.phase \in RetryTargetPhases \cup {"done"} /\ s.error = None
  BY <1>2, <1>4, <1>5, <1>6, <1>7, <1>8, ActivePhases DEF ContentOK
<1> QED
  BY <1>2, <1>3, <1>9, <1>10, ActiveDoc

(* _do_retry_operational_failure returns to the phase that failed. *)
LEMMA RetriedMove ==
  ASSUME NEW d, DocOK(d), d.phase = "operational_failure",
         NEW e, e = d.error.failed, NEW s, s = [d EXCEPT !.error = None, !.phase = e]
  PROVE  /\ DocOK(s) /\ s.phase = e /\ EffectivePhase(d) = e /\ e \in RetryTargetPhases
         /\ s.worktree = d.worktree /\ s.intent = d.intent
<1>1. /\ d \in Documents /\ EffectivePhase(d) = e /\ e \in RetryTargetPhases
      /\ ContentOK(d, e)
  BY EffectiveActive DEF DocOK
<1>2. SameBut(d, s, {"error", "phase"}) /\ s.error = None /\ s.phase = e
  BY <1>1 DEF Documents, SameBut, Fields
<1>3. s \in Documents
  BY <1>1, <1>2, Retyped, ActivePhases
<1>4. SameBut(d, s, {"phase", "error", "snapshot", "expectedHead", "integrationHead", "opRetries"})
  BY <1>2 DEF SameBut
<1>5. ContentOK(s, e)
  <2>1. e # "failed"
    BY <1>1, PhaseFacts
  <2> QED
    BY <1>1, <1>4, <2>1, ContentKept
<1>6. s.worktree = d.worktree /\ s.intent = d.intent
  BY <1>2 DEF SameBut, Fields
<1> QED
  BY <1>1, <1>2, <1>3, <1>5, <1>6, ActiveDoc

(* The count of unattended retries is all that changes. *)
LEMMA CountMove ==
  ASSUME NEW d, DocOK(d), NEW n \in 0..MaxOpRetries, NEW s, s = [d EXCEPT !.opRetries = n]
  PROVE  /\ DocOK(s) /\ s.phase = d.phase /\ EffectivePhase(s) = EffectivePhase(d)
         /\ s.worktree = d.worktree /\ s.intent = d.intent /\ s.expectedHead = d.expectedHead
<1>1. d \in Documents /\ ContentOK(d, EffectivePhase(d)) /\ ErrorOK(d)
  BY DEF DocOK
<1>2. SameBut(d, s, {"opRetries"}) /\ s.opRetries = n
  BY <1>1 DEF Documents, SameBut, Fields
<1>3. s \in Documents
  BY <1>1, <1>2, Retyped
<1>4. SameBut(d, s, {"phase", "error", "snapshot", "expectedHead", "integrationHead", "opRetries"})
  BY <1>2 DEF SameBut
<1>5. /\ s.phase = d.phase /\ s.error = d.error /\ s.worktree = d.worktree
      /\ s.intent = d.intent /\ s.expectedHead = d.expectedHead
  BY <1>2 DEF SameBut, Fields
<1>6. EffectivePhase(s) = EffectivePhase(d)
  BY <1>5 DEF EffectivePhase
<1>7. ContentOK(s, EffectivePhase(d))
  BY <1>1, <1>4, <1>5, ContentKept
<1>8. ErrorOK(s)
  BY <1>1, <1>5 DEF ErrorOK
<1> QED
  BY <1>3, <1>5, <1>6, <1>7, <1>8 DEF DocOK

(* A document with no task in it *)
LEMMA BlankPlanning ==
  ASSUME NEW s \in Documents, s.phase = "planning", s.error = None, s.worktree = None,
         s.planner = None, s.architect = None, s.builder = None, s.auditor = None,
         s.verification = None, s.pending = None,
         s.revisions = 0, s.replans = 0, s.architectRetries = 0
  PROVE  DocOK(s)
<1>1. ProgressOK(s, "planning") /\ TaskOK(s, "planning")
  BY Zeros, PhaseFacts, ActivePhases DEF ProgressOK, TaskOK, TaskPhases, Ready
<1>2. DecisionOK(s, "planning") /\ PendingOK(s, "planning")
  BY PhaseFacts DEF DecisionOK, PendingOK, ArchitectAsked
<1>3. BuilderOK(s, "planning") /\ AuditorOK(s, "planning") /\ VerifiedOK(s, "planning")
  BY PhaseFacts DEF BuilderOK, AuditorOK, VerifiedOK, Ready, CleanupPhases, PostBuildPhases,
     MergePhases, PreVerificationPhases
<1>4. ContentOK(s, s.phase) /\ s.phase \in RetryTargetPhases \cup {"done"}
  BY <1>1, <1>2, <1>3, ActivePhases DEF ContentOK
<1> QED
  BY <1>4, ActiveDoc

(* _finish_task_cleanup *)
LEMMA FinishedMove ==
  ASSUME NEW d, DocOK(d), d.phase = "cleanup_branch", NEW s, s = Finished(d)
  PROVE  DocOK(s) /\ s.phase = "planning" /\ s.worktree = None /\ s.accepted = d.accepted + 1
<1> DEFINE F == {"accepted", "worktree", "lastHead", "revisions", "replans", "architectRetries",
                 "guidance", "planner", "architect", "builder", "verification", "auditor",
                 "decision", "mergePre", "mergeTask", "mergeCommit", "phase"}
<1>1. /\ d \in Documents /\ d.error = None /\ ContentOK(d, "cleanup_branch")
      /\ d.accepted \in 0..MaxAccepted
  BY Active, ActivePhases DEF Documents
<1>2. d.accepted + 1 \in 0..MaxAccepted /\ d.pending = None
  BY <1>1, Limits, PhaseFacts, ActivePhases DEF ContentOK, ProgressOK, PendingOK, KeptFor,
     TaskPhases
<1> HIDE DEF F
<1>3. s = [f \in Fields |-> s[f]]
  <2>1. DOMAIN d = Fields
    BY <1>1 DEF Documents, Fields
  <2>2. DOMAIN s = DOMAIN d /\ s = [f \in DOMAIN s |-> s[f]]
    BY DEF Finished
  <2> QED
    BY <2>1, <2>2
<1>4. /\ s.pending = d.pending /\ s.error = d.error /\ s.opRetries = d.opRetries
      /\ s.intent = d.intent /\ s.expectedHead = d.expectedHead /\ s.snapshot = d.snapshot
      /\ s.integrationHead = d.integrationHead /\ s.adr = d.adr
  BY <1>1 DEF Documents, Finished
<1>5. SameBut(d, s, F)
  BY <1>4, <1>3 DEF SameBut, Fields, F
<1>6. /\ s.accepted = d.accepted + 1 /\ s.worktree = None /\ s.lastHead = None
      /\ s.revisions = 0 /\ s.replans = 0 /\ s.architectRetries = 0 /\ s.guidance = 0
      /\ s.planner = None /\ s.architect = None /\ s.builder = None
      /\ s.verification = None /\ s.auditor = None /\ s.decision = None
      /\ s.mergePre = None /\ s.mergeTask = None /\ s.mergeCommit = None
      /\ s.phase = "planning"
  BY <1>1 DEF Documents, Finished
<1>7. s \in Documents
  BY <1>1, <1>2, <1>5, <1>6, Retyped, Zeros, ActivePhases DEF F
<1> QED
  BY <1>1, <1>2, <1>4, <1>6, <1>7, BlankPlanning

LEMMA NewRunMove ==
  ASSUME NEW h \in Nat, NEW s, s = NewRun(h)
  PROVE  DocOK(s) /\ s.phase = "planning" /\ s.worktree = None
<1>1. s \in Documents
  BY Zeros, ActivePhases DEF NewRun, Documents
<1>2. /\ s.phase = "planning" /\ s.error = None /\ s.worktree = None
      /\ s.planner = None /\ s.architect = None /\ s.builder = None /\ s.auditor = None
      /\ s.verification = None /\ s.pending = None
      /\ s.revisions = 0 /\ s.replans = 0 /\ s.architectRetries = 0
  BY DEF NewRun
<1> QED
  BY <1>1, <1>2, BlankPlanning
=============================================================================
