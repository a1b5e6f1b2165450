------------------------------- MODULE RunState -------------------------------
(***************************************************************************)
(* The persisted run document and the rules a document must satisfy to be  *)
(* loaded again.  Documents are validated only when they are read          *)
(* (load_state), never when they are written (save_state), so "the writer  *)
(* produced something the reader accepts" is a property of the whole       *)
(* supervisor and not of either function.                                  *)
(*                                                                         *)
(* Free text (objectives, findings, messages) is left out.  A decision     *)
(* question is identified by who raised it; BLOCKED stands for both        *)
(* non-COMPLETE builder statuses, which every rule treats alike.           *)
(***************************************************************************)
EXTENDS Naturals

CONSTANTS Tasks,             \* task ids a planner may choose
          None,              \* null
          VerifyConfigured   \* [verify].commands is not empty

ASSUME VerifyConfiguredAssumption == VerifyConfigured \in BOOLEAN
ASSUME NoneAssumption == None \notin Tasks

TerminalPhases == {"done", "failed"}

PreVerificationPhases == {"planning", "creating_worktree", "architecting",
                          "recording_decision", "building", "awaiting_input"}

MergePhases == {"merging", "cleanup_worktree", "cleanup_branch"}

PostBuildPhases == {"verifying", "auditing"} \cup MergePhases

RetryTargetPhases == PreVerificationPhases \cup PostBuildPhases

AllPhases == RetryTargetPhases \cup TerminalPhases \cup {"operational_failure"}

QuestionKinds == {"architect_input", "decision_approval",
                  "builder_guidance", "builder_escalation"}

-----------------------------------------------------------------------------
(* The document start_new_run() creates, before its first checkpoint. *)
NewRun(head) ==
  [ phase |-> "planning",
    planner |-> None, architect |-> None, builder |-> None, auditor |-> None,
    verification |-> None, decision |-> None, pending |-> None, error |-> None,
    accepted |-> 0, revisions |-> 0, replans |-> 0, architectRetries |-> 0,
    guidance |-> 0, opRetries |-> 0,
    intent |-> None, worktree |-> None, lastHead |-> None,
    expectedHead |-> None, snapshot |-> None, integrationHead |-> head,
    mergePre |-> None, mergeTask |-> None, mergeCommit |-> None,
    adr |-> None ]

(* The phase whose rules apply: a wrapped failure is judged by its target. *)
EffectivePhase(s) ==
  IF s.phase = "operational_failure" THEN s.error.failed ELSE s.phase

Ready(s) == s.planner # None /\ s.planner.status = "READY"

ErrorRecordOK(s) ==
  /\ s.phase \in {"operational_failure", "failed"} => s.error # None
  /\ s.error # None =>
       /\ s.error.repair => s.error.retryable
       /\ s.error.retryable => s.error.failed \in RetryTargetPhases
       /\ s.phase = "operational_failure" => s.error.retryable
       /\ s.phase = "failed" => ~s.error.retryable

(* Role results name the planner's task; only a REPLAN verdict is history. *)
NestedResultsOK(s) ==
  Ready(s) =>
    /\ s.builder # None => s.builder.task = s.planner.task
    /\ s.auditor # None /\ s.auditor.disposition # "REPLAN" =>
         s.auditor.task = s.planner.task

TaskIdentityOK(s) ==
  IF s.worktree = None
    THEN s.expectedHead = None /\ s.snapshot = None
    ELSE /\ s.expectedHead # None
         /\ EffectivePhase(s) # "cleanup_branch" => s.snapshot # None

DecisionRelationshipsOK(s, needAnswer) ==
  /\ s.decision # None
  /\ s.planner # None
  /\ s.decision = "planner" => s.planner.decision
  /\ s.decision = "auditor" =>
       /\ s.auditor # None
       /\ s.auditor.task = s.planner.task
       /\ s.auditor.decision
  /\ needAnswer /\ s.architect # None => s.architect.question = s.decision

(* A question's context repeats the result it was raised from. *)
PendingContextOK(s) ==
  IF s.pending.kind \in {"builder_guidance", "builder_escalation"}
    THEN s.builder # None /\ s.pending.about = s.builder.status
    ELSE /\ DecisionRelationshipsOK(s, TRUE)
         /\ s.pending.kind = "architect_input" => s.pending.about = s.decision
         /\ s.pending.kind = "decision_approval" =>
              s.architect # None /\ s.pending.adr = s.architect.adr

(* Outside awaiting_input only an answered question of the phase that will *)
(* consume the answer may be kept.                                         *)
PendingPhaseOK(s) ==
  LET keeper == IF s.phase = "failed" THEN s.error.failed ELSE EffectivePhase(s)
  IN  s.pending # None /\ EffectivePhase(s) # "awaiting_input" =>
        /\ s.pending.answered
        /\ \/ keeper = "architecting" /\ s.pending.kind = "architect_input"
           \/ keeper = "building" /\ s.pending.kind = "builder_guidance"
        /\ PendingContextOK(s)

VerificationOK(s) ==
  LET phase == EffectivePhase(s)
  IN  /\ phase \in PreVerificationPhases => s.verification = None
      /\ phase = "verifying" => VerifyConfigured /\ s.verification = None
      /\ phase \in PostBuildPhases \ {"verifying"} =>
           (s.verification # None) = VerifyConfigured

AwaitingInputOK(s) ==
  EffectivePhase(s) = "awaiting_input" =>
    /\ s.worktree # None
    /\ Ready(s)
    /\ s.pending # None
    /\ s.pending.kind \in {"builder_guidance", "builder_escalation"} =>
         s.builder # None /\ s.builder.status = "BLOCKED"
    /\ s.pending.kind \in {"architect_input", "decision_approval"} =>
         s.architect # None
    /\ s.pending.kind = "decision_approval" => s.architect.status = "DECIDED"
    /\ PendingContextOK(s)

DecisionPhasesOK(s) ==
  LET phase == EffectivePhase(s)
  IN  /\ phase \in {"architecting", "recording_decision"} =>
           DecisionRelationshipsOK(s, phase = "recording_decision" \/ s.pending # None)
      /\ phase = "recording_decision" =>
           s.adr # None /\ s.architect # None /\ s.architect.status = "DECIDED"

(* From building on, the checkpoint, the verified commit, the builder's    *)
(* report and the merge intent all name one commit.                        *)
PostBuildOK(s) ==
  LET phase == EffectivePhase(s)
  IN  phase \in PostBuildPhases =>
        /\ s.builder # None /\ s.builder.status = "COMPLETE"
        /\ s.lastHead # None /\ s.builder.commit = s.lastHead
        /\ s.expectedHead = s.lastHead
        /\ phase \in MergePhases =>
             /\ s.mergePre # None
             /\ s.mergeTask = s.lastHead
             /\ s.auditor # None /\ s.auditor.disposition = "ACCEPT"
        /\ phase \in {"cleanup_worktree", "cleanup_branch"} => s.mergeCommit # None

PhaseRequirementsOK(s) ==
  LET phase == EffectivePhase(s)
  IN  /\ phase = "creating_worktree" =>
           s.intent # None /\ s.intent.base # None /\ s.worktree = None /\ Ready(s)
      /\ phase \in (RetryTargetPhases \ {"planning", "creating_worktree"}) =>
           s.worktree # None /\ Ready(s)
      /\ phase = "done" => s.worktree = None

(* RunState.from_dict accepts the document. *)
Loadable(s) ==
  /\ ErrorRecordOK(s)
  /\ NestedResultsOK(s)
  /\ TaskIdentityOK(s)
  /\ PendingPhaseOK(s)
  /\ VerificationOK(s)
  /\ AwaitingInputOK(s)
  /\ DecisionPhasesOK(s)
  /\ PostBuildOK(s)
  /\ PhaseRequirementsOK(s)
=============================================================================
