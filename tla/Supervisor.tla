------------------------------ MODULE Supervisor ------------------------------
(***************************************************************************)
(* One run of the supervisor: the phase machine of Supervisor.advance()    *)
(* and Supervisor.run(), the run document it keeps in memory and on disk,  *)
(* and the Git state (integration branch, task branch, task worktree) its  *)
(* phases change.  A process works on the run, stops or crashes at any     *)
(* point, and a later process resumes from the document on disk.           *)
(*                                                                         *)
(* A transition is two steps.  Its dispatch mutates memory and Git; the    *)
(* following save checkpoints Git into the document and replaces the file. *)
(* A crash between the two loses the memory and keeps the Git effect.      *)
(*                                                                         *)
(* Bounds: MaxId caps the commits and decision proposals ever created; the *)
(* Limits are the run's own.                                               *)
(***************************************************************************)
EXTENDS RunState, Sequences, FiniteSets, FiniteSetsExt

CONSTANTS MaxAccepted, MaxRevisions, MaxReplans, MaxArchitectRetries,
          MaxGuidance, MaxOpRetries,
          MaxId,
          RequireApproval,     \* require_decision_approval
          ProvisionConfigured, \* [provision].commands is not empty
          Answers,             \* what the operator may type
          Faults,              \* kinds of environment failure that may occur
          OperatorActs         \* what the operator may do to the repository

ASSUME LimitsAssumption ==
  /\ {MaxAccepted, MaxRevisions, MaxReplans, MaxArchitectRetries,
      MaxGuidance, MaxOpRetries, MaxId} \subseteq Nat
  /\ {RequireApproval, ProvisionConfigured} \subseteq BOOLEAN
ASSUME EnvironmentAssumption ==
  /\ Answers \subseteq {"text", "yes", "replan", "abandon"}
  /\ Faults \subseteq {"agent", "leftover", "git", "decision", "provision",
                       "startup", "crash"}
  /\ OperatorActs \subseteq {"commit", "merge", "restore", "clean", "remove"}

VARIABLES
  mem,      \* the process's RunState; None while no process runs
  disk,     \* the saved document; None before the first save
  pc,       \* "down", "starting", "idle", "agent", "saving", "signal", "opfail";
            \* within a cleanup also "validated" and "inspected"
  from,     \* phase_before of the transition being saved
  integ,    \* integration branch: its first-parent chain, oldest first
  branch,   \* task branches: the base and the commits since it
  tree,     \* the task worktree directory
  nextId,   \* next unused commit or proposal id
  session,  \* task whose abandoned builder session may still be editing
  audited,  \* ghost: task HEAD when the running auditor was invoked
  reviewed, \* ghost: commits an auditor accepted
  approved, \* ghost: proposals the operator approved
  touched   \* ghost: an agent or operator changed the worktree since the save

process == <<mem, disk, pc, from>>
gitvars == <<integ, branch, tree>>
ghosts == <<audited, reviewed, approved, touched>>
vars == <<process, gitvars, nextId, session, ghosts>>

-----------------------------------------------------------------------------
(* Git *)

IntegrationHead == integ[Len(integ)].id

Integrated == UNION {integ[i].brings : i \in DOMAIN integ}

HeadOf(b) == IF b.log = <<>> THEN b.base ELSE b.log[Len(b.log)]

TaskHead == HeadOf(branch[tree.task])

Commits(b) == {b.log[i] : i \in DOMAIN b.log}

Snapshot == [edited |-> tree.edited, untracked |-> tree.untracked]

CleanTree == ~tree.edited /\ tree.untracked = {}

(* first-parent merges of head made after the commit pre *)
MergesOf(pre, head) ==
  {i \in DOMAIN integ :
     /\ integ[i].second = head
     /\ \E j \in 1..(i - 1) : integ[j].id = pre}

MergeEntry(id, head, b) ==
  [id |-> id, second |-> head, brings |-> Commits(b), adrs |-> tree.adrs]

(* ADR files of the integration branch, which a new worktree starts with *)
IntegrationAdrs == UNION {integ[i].adrs : i \in DOMAIN integ}

-----------------------------------------------------------------------------
(* Persistence *)

(* _checkpoint: re-read both HEADs and the worktree's status. *)
Checkpoint(s) ==
  LET gone == EffectivePhase(s) = "cleanup_branch"
  IN  [s EXCEPT
        !.integrationHead = IntegrationHead,
        !.expectedHead = IF gone THEN @ ELSE IF s.worktree = None THEN None ELSE TaskHead,
        !.snapshot = IF gone \/ s.worktree = None THEN None ELSE Snapshot]

(* git is run in a directory that is no longer there: FileNotFoundError *)
CheckpointFails(s) ==
  EffectivePhase(s) # "cleanup_branch" /\ s.worktree # None /\ tree = None

Control(s, next) ==
  /\ mem' = IF next = "down" THEN None ELSE s
  /\ pc' = next
  /\ from' = IF next \in {"saving", "signal"} THEN mem.phase ELSE None
  /\ audited' = IF next = "agent" /\ tree # None THEN TaskHead ELSE None

Surviving(next) == session' = IF next = "down" THEN None ELSE session

(* save_state: an atomic replace of the run's file *)
Persist(s, next) ==
  /\ Control(Checkpoint(s), next)
  /\ disk' = Checkpoint(s)
  /\ touched' = FALSE

Die == Control(mem, "down") /\ Surviving("down") /\ UNCHANGED <<disk, touched>>

(* A dispatch that succeeded; the save is a step of its own. *)
Transition(s) ==
  Control(s, "saving") /\ Surviving("saving") /\ UNCHANGED <<disk, touched>>

(* _handle_operational_failure: record and save the failure.  A record     *)
(* that cannot be saved ends the process (FailurePersistenceError).        *)
FailWith(s, failed, repair, next, leftover) ==
  LET t == [s EXCEPT !.phase = "operational_failure",
                     !.error = [failed |-> failed, retryable |-> TRUE, repair |-> repair]]
  IN  IF CheckpointFails(t)
        THEN Die
        ELSE Persist(t, next) /\ session' = leftover

Fail(s, failed, repair) == FailWith(s, failed, repair, "opfail", session)

(* _classify_operational_failure for a GitError *)
GitRepair(phase) == phase \in {"cleanup_worktree", "creating_worktree"}

GitFails(s) == Fail(s, mem.phase, GitRepair(mem.phase))

(* _handle_terminal_failure: a LoopError ends the run. *)
Terminal(s) ==
  /\ Persist([s EXCEPT !.phase = "failed",
                       !.error = [failed |-> mem.phase, retryable |-> FALSE,
                                  repair |-> FALSE]], "down")
  /\ Surviving("down")

-----------------------------------------------------------------------------
Init ==
  /\ mem = None /\ disk = None /\ pc = "down" /\ from = None
  /\ integ = <<[id |-> 0, second |-> None, brings |-> {}, adrs |-> {}]>>
  /\ branch = [t \in Tasks |-> None]
  /\ tree = None
  /\ nextId = 1
  /\ session = None
  /\ audited = None /\ reviewed = {} /\ approved = {} /\ touched = FALSE

(* start_new_run: the document is saved before the server is started. *)
StartRun ==
  /\ pc = "down" /\ disk = None
  /\ Persist(NewRun(IntegrationHead), "starting")
  /\ UNCHANGED <<gitvars, nextId, session, reviewed, approved>>

(* Mutant: a decision file written by a lost transition is not expected. *)
TaskWorktreeValidNoDrift(s) ==
  /\ tree # None /\ tree.task = s.worktree.task
  /\ branch[s.worktree.task] # None
  /\ TaskHead = s.expectedHead
  /\ Snapshot = s.snapshot

(* validate_task_worktree and the status comparison after it.  Resuming    *)
(* recording_decision accepts one new file: the pending ADR itself.        *)
TaskWorktreeValid(s) ==
  /\ tree # None /\ tree.task = s.worktree.task
  /\ branch[s.worktree.task] # None
  /\ TaskHead = s.expectedHead
  /\ \/ Snapshot = s.snapshot
     \/ /\ EffectivePhase(s) = "recording_decision"
        /\ s.adr \in tree.adrs \ s.snapshot.untracked
        /\ Snapshot = [s.snapshot EXCEPT !.untracked = @ \cup {s.adr}]

(* _validate_resume *)
ValidateResume(s) ==
  /\ \E i \in DOMAIN integ : integ[i].id = s.integrationHead
  /\ s.worktree # None =>
       CASE EffectivePhase(s) = "cleanup_branch" ->
              /\ tree = None
              /\ branch[s.worktree.task] # None =>
                   Commits(branch[s.worktree.task]) \subseteq Integrated
         [] EffectivePhase(s) = "cleanup_worktree" ->
              tree # None => tree.task = s.worktree.task
         [] OTHER -> TaskWorktreeValid(s)

Resumable(s) == Loadable(s) /\ ValidateResume(s)

(* load_state and resume; the CLI turns a terminal run away first. *)
ResumeRun ==
  /\ pc = "down" /\ disk # None
  /\ disk.phase \notin TerminalPhases
  /\ Resumable(disk)
  /\ mem' = disk /\ pc' = "starting"
  /\ UNCHANGED <<disk, from, gitvars, nextId, session, ghosts>>

ServerStarts ==
  /\ pc = "starting"
  /\ Control(mem, "idle")
  /\ UNCHANGED <<disk, gitvars, nextId, session, reviewed, approved, touched>>

(* record_external_failure: a startup failure on top of an unresolved one  *)
(* keeps that one's retry target.                                          *)
StartupFails ==
  /\ pc = "starting" /\ "startup" \in Faults
  /\ FailWith(mem, EffectivePhase(mem), FALSE, "down", None)
  /\ UNCHANGED <<gitvars, nextId, reviewed, approved>>

(* A kill, Ctrl-C or an exhausted step budget. *)
Crash ==
  /\ pc # "down" /\ "crash" \in Faults
  /\ Die
  /\ UNCHANGED <<gitvars, nextId, reviewed, approved>>

-----------------------------------------------------------------------------
(* Saving a finished transition *)

(* Mutant: unwrapping a failure counts as progress. *)
AfterResetAlways == [mem EXCEPT !.opRetries = 0]

AfterReset == [mem EXCEPT !.opRetries = IF from = "operational_failure" THEN @ ELSE 0]

(* _save_after_transition, and the save of an _InputRequiredSignal *)
Save ==
  /\ pc \in {"saving", "signal"}
  /\ LET next == IF mem.phase \in TerminalPhases THEN "down" ELSE "idle"
     IN  IF CheckpointFails(AfterReset)
           THEN Die
           ELSE Persist(AfterReset, next) /\ Surviving(next)
  /\ UNCHANGED <<gitvars, nextId, reviewed, approved>>

(* Mutant: always classified against the phase just entered. *)
SaveFailsEntered ==
  /\ pc = "saving" /\ "git" \in Faults
  /\ Fail(AfterReset, mem.phase, GitRepair(mem.phase))
  /\ UNCHANGED <<gitvars, nextId, reviewed, approved>>

(* A GitError while saving is classified against the phase just entered,   *)
(* or against the one just left when the new one is terminal.              *)
SaveFails ==
  /\ pc = "saving" /\ "git" \in Faults
  /\ LET failed == IF mem.phase \in TerminalPhases THEN from ELSE mem.phase
     IN  Fail(AfterReset, failed, GitRepair(failed))
  /\ UNCHANGED <<gitvars, nextId, reviewed, approved>>

(* The save of an _InputRequiredSignal, and run()'s save of the retry      *)
(* count, are outside every handler: a GitError there ends the process.    *)
SaveEscapes ==
  /\ pc = "signal" \/ (pc = "opfail" /\ ~mem.error.repair /\ mem.opRetries < MaxOpRetries)
  /\ "git" \in Faults
  /\ Die
  /\ UNCHANGED <<gitvars, nextId, reviewed, approved>>

(* run(): retry unattended while the budget lasts, otherwise raise. *)
AutoRetry ==
  /\ pc = "opfail"
  /\ IF ~mem.error.repair /\ mem.opRetries < MaxOpRetries
       THEN /\ Persist([mem EXCEPT !.opRetries = @ + 1], "idle")
            /\ UNCHANGED session
       ELSE Die
  /\ UNCHANGED <<gitvars, nextId, reviewed, approved>>

(* _do_retry_operational_failure *)
RetryOperationalFailure ==
  /\ pc = "idle" /\ mem.phase = "operational_failure"
  /\ Transition([mem EXCEPT !.error = None, !.phase = mem.error.failed])
  /\ UNCHANGED <<gitvars, nextId, reviewed, approved>>

-----------------------------------------------------------------------------
(* Agents *)

(* Mutant: one task more than the limit. *)
AtLimitOffByOne == mem.phase = "planning" /\ mem.accepted > MaxAccepted

AtLimit == mem.phase = "planning" /\ mem.accepted >= MaxAccepted

(* run_agent: the auditor and builder read the worktree from here on. *)
Invoke ==
  /\ pc = "idle"
  /\ mem.phase \in {"planning", "architecting", "building", "auditing"}
  /\ ~AtLimit
  /\ Control(mem, "agent")
  /\ UNCHANGED <<disk, gitvars, nextId, session, reviewed, approved, touched>>

(* A timeout, a transport error, or output that violates the contract      *)
(* after every malformed-output retry.  Only a timeout tries to abort the  *)
(* session, and only as a best effort: a builder's may live on.            *)
AgentFails ==
  /\ pc = "agent" /\ "agent" \in Faults
  /\ \E leftover \in {session} \cup
          (IF "leftover" \in Faults /\ mem.phase = "building" THEN {tree.task} ELSE {}) :
       FailWith(mem, mem.phase, FALSE, "opfail", leftover)
  /\ UNCHANGED <<gitvars, nextId, reviewed, approved>>

(* Work in the task worktree: a commit of everything, or loose edits. *)
WorkOn(t) ==
  /\ tree # None /\ tree.task = t
  /\ \/ /\ nextId <= MaxId
        /\ nextId' = nextId + 1
        /\ branch' = [branch EXCEPT ![t].log = Append(@, nextId)]
        /\ tree' = [tree EXCEPT !.edited = FALSE, !.untracked = {}]
     \/ /\ tree' = [tree EXCEPT !.edited = TRUE]
        /\ UNCHANGED <<branch, nextId>>
  /\ touched' = TRUE
  /\ UNCHANGED <<process, integ, session, audited, reviewed, approved>>

BuilderWorks == pc = "agent" /\ mem.phase = "building" /\ WorkOn(tree.task)

LeftoverSessionWorks == pc # "down" /\ session # None /\ WorkOn(session)

-----------------------------------------------------------------------------
(* Planning *)

ReachLimit ==
  /\ pc = "idle" /\ AtLimit
  /\ Transition([mem EXCEPT !.phase = "done"])
  /\ UNCHANGED <<gitvars, nextId, reviewed, approved>>

(* the continuation shared by a new and a revised task *)
Route(s) ==
  IF s.planner.decision
    THEN [s EXCEPT !.decision = "planner", !.phase = "architecting"]
    ELSE [s EXCEPT !.phase = "building"]

PlannerComplete ==
  /\ pc = "agent" /\ mem.phase = "planning"
  /\ LET s == [mem EXCEPT !.planner = [status |-> "COMPLETE", task |-> None, decision |-> FALSE]]
     IN  IF mem.worktree # None
           THEN Terminal(s)
           ELSE Transition([s EXCEPT !.phase = "done"])
  /\ UNCHANGED <<gitvars, nextId, reviewed, approved>>

PlannerReady ==
  /\ pc = "agent" /\ mem.phase = "planning"
  /\ \E t \in Tasks, d \in BOOLEAN :
       LET s == [mem EXCEPT !.planner = [status |-> "READY", task |-> t, decision |-> d]]
       IN  IF mem.worktree # None
             THEN Transition(Route([s EXCEPT !.revisions = 0, !.guidance = 0]))
             ELSE \/ Transition([s EXCEPT !.intent = [task |-> t, base |-> IntegrationHead],
                                          !.phase = "creating_worktree"])
                  \/ /\ "git" \in Faults
                     /\ GitFails([s EXCEPT !.intent = [task |-> t, base |-> None]])
  /\ UNCHANGED <<gitvars, nextId, reviewed, approved>>

-----------------------------------------------------------------------------
(* Creating the worktree *)

(* create_or_reconcile_task_worktree: nothing there yet, or exactly what   *)
(* an interrupted attempt left.                                            *)
Reconcilable(t, base) ==
  \/ tree = None /\ branch[t] = None
  \/ /\ tree # None /\ tree.task = t /\ CleanTree
     /\ branch[t] = [base |-> base, log |-> <<>>]

Created ==
  LET t == mem.intent.task
  IN  /\ branch' = [branch EXCEPT ![t] = [base |-> mem.intent.base, log |-> <<>>]]
      /\ tree' = IF tree # None THEN tree
                 ELSE [task |-> t, edited |-> FALSE, untracked |-> {},
                       adrs |-> IntegrationAdrs]
      /\ UNCHANGED integ

CreateWorktree ==
  /\ pc = "idle" /\ mem.phase = "creating_worktree"
  /\ Reconcilable(mem.intent.task, mem.intent.base)
  /\ Created
  /\ Transition(Route([mem EXCEPT !.worktree = mem.intent, !.intent = None,
                                  !.revisions = 0, !.guidance = 0]))
  /\ UNCHANGED <<nextId, reviewed, approved>>

(* The worktree is kept and the intent is not cleared: a retry reconciles. *)
ProvisioningFails ==
  /\ pc = "idle" /\ mem.phase = "creating_worktree"
  /\ ProvisionConfigured /\ "provision" \in Faults
  /\ Reconcilable(mem.intent.task, mem.intent.base)
  /\ Created
  /\ Fail(mem, "creating_worktree", FALSE)
  /\ UNCHANGED <<nextId, reviewed, approved>>

CreateWorktreeFails ==
  /\ pc = "idle" /\ mem.phase = "creating_worktree"
  /\ ~Reconcilable(mem.intent.task, mem.intent.base) \/ "git" \in Faults
  /\ GitFails(mem)
  /\ UNCHANGED <<gitvars, nextId, reviewed, approved>>

-----------------------------------------------------------------------------
(* Architecture decisions *)

(* a pending question: what its context repeats is the status, decision    *)
(* question or proposal it is about                                        *)
Ask(kind, about, adr) == [kind |-> kind, about |-> about, adr |-> adr, answered |-> FALSE]

(* Mutant: only committed decision files are counted. *)
NextAdrNumberCommitted ==
  1 + Max({0} \cup {a.number : a \in tree.adrs \ tree.untracked})

NextAdrNumber == 1 + Max({0} \cup {a.number : a \in tree.adrs})

(* _prepare_record_decision: fix the file name and the content's hash. *)
PrepareRecord(s) ==
  [s EXCEPT !.adr = [number |-> NextAdrNumber, content |-> s.architect.adr],
            !.phase = "recording_decision"]

ArchitectNeedsInput ==
  /\ pc = "agent" /\ mem.phase = "architecting"
  /\ LET s == [mem EXCEPT
                 !.architect = [status |-> "NEEDS_INPUT", question |-> mem.decision,
                                adr |-> None],
                 !.architectRetries = @ + 1]
     IN  IF s.architectRetries > MaxArchitectRetries
           THEN Terminal(s)
           ELSE Transition([s EXCEPT
                  !.pending = Ask("architect_input", mem.decision, None),
                  !.phase = "awaiting_input"])
  /\ UNCHANGED <<gitvars, nextId, reviewed, approved>>

(* Mutant: approval is asked for the first proposal only. *)
ArchitectDecidesAfterFirst ==
  /\ pc = "agent" /\ mem.phase = "architecting"
  /\ nextId <= MaxId /\ nextId' = nextId + 1
  /\ LET s == [mem EXCEPT !.architect = [status |-> "DECIDED", question |-> mem.decision,
                                         adr |-> nextId]]
     IN  IF RequireApproval /\ mem.architect = None
           THEN /\ Control([s EXCEPT !.pending = Ask("decision_approval", None, nextId),
                                     !.phase = "awaiting_input"], "signal")
                /\ UNCHANGED <<disk, touched, session>>
           ELSE Transition([PrepareRecord(s) EXCEPT !.pending = None])
  /\ UNCHANGED <<gitvars, reviewed, approved>>

ArchitectDecides ==
  /\ pc = "agent" /\ mem.phase = "architecting"
  /\ nextId <= MaxId /\ nextId' = nextId + 1
  /\ LET s == [mem EXCEPT !.architect = [status |-> "DECIDED", question |-> mem.decision,
                                         adr |-> nextId]]
     IN  IF RequireApproval
           THEN /\ Control([s EXCEPT
                     !.pending = Ask("decision_approval", None, nextId),
                     !.phase = "awaiting_input"], "signal")
                /\ UNCHANGED <<disk, touched, session>>
           ELSE \/ Transition([PrepareRecord(s) EXCEPT !.pending = None])
                \/ "decision" \in Faults /\ Fail(s, "architecting", TRUE)
  /\ UNCHANGED <<gitvars, reviewed, approved>>

(* write_adr_idempotent: create the file, or find it already written. *)
RecordDecision ==
  /\ pc = "idle" /\ mem.phase = "recording_decision"
  /\ tree' = IF mem.adr \in tree.adrs THEN tree
             ELSE [tree EXCEPT !.adrs = @ \cup {mem.adr}, !.untracked = @ \cup {mem.adr}]
  /\ Transition([mem EXCEPT !.adr = None, !.decision = None, !.architectRetries = 0,
                            !.phase = IF mem.decision = "planner" THEN "building"
                                                                  ELSE "planning"])
  /\ UNCHANGED <<integ, branch, nextId, reviewed, approved>>

RecordDecisionFails ==
  /\ pc = "idle" /\ mem.phase = "recording_decision" /\ "decision" \in Faults
  /\ Fail(mem, "recording_decision", TRUE)
  /\ UNCHANGED <<gitvars, nextId, reviewed, approved>>

-----------------------------------------------------------------------------
(* Building and verifying *)

(* verify_builder_commit: clean, at the reported commit, past the base. *)
BuilderCommitVerified(commit) ==
  CleanTree /\ commit = TaskHead /\ branch[tree.task].log # <<>>

(* Mutant: the guidance is dropped before the commit is verified. *)
BuilderReportsCompleteEarly ==
  /\ pc = "agent" /\ mem.phase = "building"
  /\ \E commit \in {0, TaskHead} :
       LET s == [mem EXCEPT !.builder = [task |-> mem.planner.task, status |-> "COMPLETE",
                                         commit |-> commit],
                            !.pending = None]
       IN  IF BuilderCommitVerified(commit)
             THEN Transition([s EXCEPT !.lastHead = commit, !.guidance = 0,
                    !.phase = IF VerifyConfigured THEN "verifying" ELSE "auditing"])
             ELSE GitFails(s)
  /\ UNCHANGED <<gitvars, nextId, reviewed, approved>>

(* The report may name HEAD or (0) something else.  The result is stored   *)
(* before the commit is verified; the answered guidance is dropped after.  *)
BuilderReportsComplete ==
  /\ pc = "agent" /\ mem.phase = "building"
  /\ \E commit \in {0, TaskHead} :
       LET s == [mem EXCEPT !.builder = [task |-> mem.planner.task, status |-> "COMPLETE",
                                         commit |-> commit]]
       IN  \/ /\ BuilderCommitVerified(commit)
              /\ Transition([s EXCEPT
                    !.lastHead = commit, !.pending = None, !.guidance = 0,
                    !.phase = IF VerifyConfigured THEN "verifying" ELSE "auditing"])
           \/ /\ ~BuilderCommitVerified(commit) \/ "git" \in Faults
              /\ GitFails(s)
  /\ UNCHANGED <<gitvars, nextId, reviewed, approved>>

BuilderReportsBlocked ==
  /\ pc = "agent" /\ mem.phase = "building"
  /\ LET kind == IF mem.guidance + 1 > MaxGuidance THEN "builder_escalation"
                                                   ELSE "builder_guidance"
     IN  Transition([mem EXCEPT
           !.builder = [task |-> mem.planner.task, status |-> "BLOCKED", commit |-> None],
           !.guidance = @ + 1,
           !.pending = Ask(kind, "BLOCKED", None),
           !.phase = "awaiting_input"])
  /\ UNCHANGED <<gitvars, nextId, reviewed, approved>>

(* Mutant: the commands run in the integration worktree. *)
VerifyIntegration ==
  /\ pc = "idle" /\ mem.phase = "verifying"
  /\ Transition([mem EXCEPT !.verification = IntegrationHead, !.phase = "auditing"])
  /\ UNCHANGED <<gitvars, nextId, reviewed, approved>>

(* Failing commands are findings for the auditor: only Git can fail here. *)
Verify ==
  /\ pc = "idle" /\ mem.phase = "verifying"
  /\ \/ Transition([mem EXCEPT !.verification = TaskHead, !.phase = "auditing"])
     \/ "git" \in Faults /\ GitFails(mem)
  /\ UNCHANGED <<gitvars, nextId, reviewed, approved>>

-----------------------------------------------------------------------------
(* Auditing *)

Verdict(disposition, d) ==
  [mem EXCEPT !.auditor = [task |-> mem.planner.task, disposition |-> disposition,
                           decision |-> d]]

(* Both merge heads are read after the auditor has answered. *)
AuditorAccepts ==
  /\ pc = "agent" /\ mem.phase = "auditing"
  /\ LET s == Verdict("ACCEPT", FALSE)
     IN  \/ /\ Transition([s EXCEPT !.mergePre = IntegrationHead, !.mergeTask = TaskHead,
                                    !.phase = "merging"])
            /\ reviewed' = reviewed \cup {audited}
         \/ "git" \in Faults /\ GitFails(s) /\ UNCHANGED reviewed
  /\ UNCHANGED <<gitvars, nextId, approved>>

(* Mutant: out of revisions, the commit at hand is merged. *)
AuditorRevisesOrMerges ==
  /\ pc = "agent" /\ mem.phase = "auditing"
  /\ LET s == [Verdict("REVISE", FALSE) EXCEPT !.revisions = @ + 1]
     IN  IF s.revisions > MaxRevisions
           THEN Transition([s EXCEPT !.mergePre = IntegrationHead, !.mergeTask = TaskHead,
                                     !.phase = "merging"])
           ELSE Transition([s EXCEPT !.verification = None, !.phase = "building"])
  /\ UNCHANGED <<gitvars, nextId, reviewed, approved>>

AuditorRevises ==
  /\ pc = "agent" /\ mem.phase = "auditing"
  /\ LET s == [Verdict("REVISE", FALSE) EXCEPT !.revisions = @ + 1]
     IN  IF s.revisions > MaxRevisions
           THEN Terminal(s)
           ELSE Transition([s EXCEPT !.verification = None, !.phase = "building"])
  /\ UNCHANGED <<gitvars, nextId, reviewed, approved>>

AuditorReplans ==
  /\ pc = "agent" /\ mem.phase = "auditing"
  /\ \E d \in BOOLEAN :
       LET s == [Verdict("REPLAN", d) EXCEPT !.replans = @ + 1]
       IN  IF s.replans > MaxReplans
             THEN Terminal(s)
             ELSE Transition([s EXCEPT
                    !.builder = None, !.verification = None,
                    !.decision = IF d THEN "auditor" ELSE @,
                    !.phase = IF d THEN "architecting" ELSE "planning"])
  /\ UNCHANGED <<gitvars, nextId, reviewed, approved>>

-----------------------------------------------------------------------------
(* Merging *)

MergeIntentStands == TaskHead = mem.mergeTask

Merged(commit) == Transition([mem EXCEPT !.mergeCommit = commit, !.phase = "cleanup_worktree"])

(* reconcile_or_merge_task: an interrupted attempt's merge is adopted. *)
AdoptMerge ==
  /\ pc = "idle" /\ mem.phase = "merging" /\ MergeIntentStands
  /\ \E i \in MergesOf(mem.mergePre, mem.mergeTask) : Merged(integ[i].id)
  /\ UNCHANGED <<gitvars, nextId, reviewed, approved>>

Merge ==
  /\ pc = "idle" /\ mem.phase = "merging" /\ MergeIntentStands
  /\ MergesOf(mem.mergePre, mem.mergeTask) = {}
  /\ mem.mergeTask \notin Integrated
  /\ integ' = Append(integ, MergeEntry(nextId, mem.mergeTask, branch[tree.task]))
  /\ nextId' = nextId + 1
  /\ Merged(nextId)
  /\ UNCHANGED <<branch, tree, reviewed, approved>>

(* HEAD left the audited commit, the commit is already integrated some     *)
(* other way ("Already up to date"), or Git itself fails.                  *)
MergeFails ==
  /\ pc = "idle" /\ mem.phase = "merging"
  /\ \/ ~MergeIntentStands
     \/ mem.mergeTask \in Integrated /\ MergesOf(mem.mergePre, mem.mergeTask) = {}
     \/ "git" \in Faults
  /\ GitFails(mem)
  /\ UNCHANGED <<gitvars, nextId, reviewed, approved>>

(* Only commits on the integration branch since the task's base can        *)
(* conflict with it; the merge is aborted.                                 *)
MergeConflicts ==
  /\ pc = "idle" /\ mem.phase = "merging" /\ MergeIntentStands
  /\ MergesOf(mem.mergePre, mem.mergeTask) = {}
  /\ IntegrationHead # mem.worktree.base
  /\ Fail(mem, "merging", TRUE)
  /\ UNCHANGED <<gitvars, nextId, reviewed, approved>>

-----------------------------------------------------------------------------
(* Cleaning up *)

(* _validate_merge_cleanup_safety: the recorded merge is the merge of the  *)
(* audited commit, and the branch has not moved since.                     *)
CleanupSafe ==
  /\ \E i \in DOMAIN integ : integ[i].id = mem.mergeCommit /\ integ[i].second = mem.mergeTask
  /\ branch[mem.worktree.task] # None => HeadOf(branch[mem.worktree.task]) = mem.mergeTask

(* remove_task_worktree_only up to is_clean *)
TreeRemovable == tree # None => tree.task = mem.worktree.task /\ CleanTree

(* Removing the worktree takes three commands, and a session left behind   *)
(* may work between them: the branch tip is compared, ...                  *)
ValidateCleanup ==
  /\ pc = "idle" /\ mem.phase = "cleanup_worktree"
  /\ CleanupSafe
  /\ Control(mem, "validated")
  /\ UNCHANGED <<disk, gitvars, nextId, session, reviewed, approved, touched>>

(* ... the worktree is found clean, ...                                    *)
InspectWorktree ==
  /\ pc = "validated" /\ tree # None
  /\ TreeRemovable
  /\ Control(mem, "inspected")
  /\ UNCHANGED <<disk, gitvars, nextId, session, reviewed, approved, touched>>

(* ... and git removes it, unless it is not clean any more; a worktree     *)
(* that is not registered needs neither.                                   *)
WorktreeGoes ==
  /\ \/ pc = "validated" /\ tree = None
     \/ pc = "inspected" /\ CleanTree
  /\ tree' = None

(* Mutant: the task is over once its worktree is gone. *)
CleanupWorktreeFinishes ==
  /\ WorktreeGoes
  /\ Transition([mem EXCEPT !.worktree = None, !.accepted = @ + 1, !.phase = "planning"])
  /\ UNCHANGED <<integ, branch, nextId, reviewed, approved>>

(* Mutant: the branch goes with its worktree. *)
CleanupWorktreeAndBranch ==
  /\ WorktreeGoes
  /\ branch' = [branch EXCEPT ![mem.worktree.task] = None]
  /\ Transition([mem EXCEPT !.phase = "cleanup_branch"])
  /\ UNCHANGED <<integ, nextId, reviewed, approved>>

CleanupWorktree ==
  /\ WorktreeGoes
  /\ Transition([mem EXCEPT !.phase = "cleanup_branch"])
  /\ UNCHANGED <<integ, branch, nextId, reviewed, approved>>

CleanupWorktreeFails ==
  /\ \/ /\ pc = "idle" /\ mem.phase = "cleanup_worktree"
        /\ ~CleanupSafe \/ "git" \in Faults
     \/ pc = "validated" /\ (~TreeRemovable \/ "git" \in Faults)
     \/ pc = "inspected" /\ (~CleanTree \/ "git" \in Faults)
  /\ GitFails(mem)
  /\ UNCHANGED <<gitvars, nextId, reviewed, approved>>

BranchDeletable ==
  branch[mem.worktree.task] # None => Commits(branch[mem.worktree.task]) \subseteq Integrated

(* _finish_task_cleanup *)
Finished(s) ==
  [s EXCEPT !.accepted = @ + 1, !.worktree = None, !.lastHead = None,
            !.revisions = 0, !.replans = 0, !.architectRetries = 0, !.guidance = 0,
            !.planner = None, !.architect = None, !.builder = None,
            !.verification = None, !.auditor = None, !.decision = None,
            !.mergePre = None, !.mergeTask = None, !.mergeCommit = None,
            !.phase = "planning"]

(* Without a worktree nobody commits on the branch: its checks and its     *)
(* deletion are one step.                                                  *)

(* Mutant: a branch already gone is taken for a task already counted. *)
CleanupBranchCountsOnce ==
  /\ pc = "idle" /\ mem.phase = "cleanup_branch"
  /\ CleanupSafe /\ BranchDeletable
  /\ branch' = [branch EXCEPT ![mem.worktree.task] = None]
  /\ Transition(IF branch[mem.worktree.task] # None THEN Finished(mem)
                ELSE [Finished(mem) EXCEPT !.accepted = mem.accepted])
  /\ UNCHANGED <<integ, tree, nextId, reviewed, approved>>

CleanupBranch ==
  /\ pc = "idle" /\ mem.phase = "cleanup_branch"
  /\ CleanupSafe /\ BranchDeletable
  /\ branch' = [branch EXCEPT ![mem.worktree.task] = None]
  /\ Transition(Finished(mem))
  /\ UNCHANGED <<integ, tree, nextId, reviewed, approved>>

CleanupBranchFails ==
  /\ pc = "idle" /\ mem.phase = "cleanup_branch"
  /\ ~CleanupSafe \/ ~BranchDeletable \/ "git" \in Faults
  /\ GitFails(mem)
  /\ UNCHANGED <<gitvars, nextId, reviewed, approved>>

-----------------------------------------------------------------------------
(* Operator input *)

Asked == pc = "idle" /\ mem.phase = "awaiting_input"

(* No terminal: the state is saved as it is and the process returns. *)
InputUnavailable ==
  /\ Asked
  /\ \/ Persist(mem, "down") /\ Surviving("down")
     \/ "git" \in Faults /\ GitFails(mem)
  /\ UNCHANGED <<gitvars, nextId, reviewed, approved>>

(* _replan_from_awaiting_input *)
ReplanFromInput ==
  LET s == [mem EXCEPT !.replans = @ + 1, !.pending = None]
  IN  IF s.replans > MaxReplans
        THEN Terminal(s)
        ELSE Transition([s EXCEPT !.builder = None, !.verification = None,
                                  !.phase = "planning"])

AnswerGuidance ==
  /\ Asked /\ mem.pending.kind = "builder_guidance"
  /\ \E answer \in Answers :
       IF answer = "replan"
         THEN ReplanFromInput
         ELSE Transition([mem EXCEPT !.pending.answered = TRUE, !.phase = "building"])
  /\ UNCHANGED <<gitvars, nextId, reviewed, approved>>

(* Anything but the two words asks again. *)
AnswerEscalation ==
  /\ Asked /\ mem.pending.kind = "builder_escalation"
  /\ \E answer \in Answers :
       CASE answer = "replan" -> ReplanFromInput
         [] answer = "abandon" -> Terminal([mem EXCEPT !.pending = None])
         [] OTHER -> Transition(mem)
  /\ UNCHANGED <<gitvars, nextId, reviewed, approved>>

AnswerArchitect ==
  /\ Asked /\ mem.pending.kind = "architect_input"
  /\ \E answer \in Answers :
       Transition([mem EXCEPT !.pending.answered = TRUE, !.phase = "architecting"])
  /\ UNCHANGED <<gitvars, nextId, reviewed, approved>>

(* The answered approval is kept until the recording intent is prepared.   *)
AnswerApproval ==
  /\ Asked /\ mem.pending.kind = "decision_approval"
  /\ \E answer \in Answers :
       IF answer = "yes"
         THEN /\ approved' = approved \cup {mem.architect.adr}
              /\ \/ Transition([PrepareRecord(mem) EXCEPT !.pending = None])
                 \/ /\ "decision" \in Faults
                    /\ Fail([mem EXCEPT !.pending.answered = TRUE], "awaiting_input", TRUE)
         ELSE /\ Transition([mem EXCEPT !.pending = Ask("architect_input", mem.decision, None)])
              /\ UNCHANGED approved
  /\ UNCHANGED <<gitvars, nextId, reviewed>>

-----------------------------------------------------------------------------
(* The operator between two processes *)

OperatorCommits ==
  /\ pc = "down" /\ "commit" \in OperatorActs /\ nextId <= MaxId
  /\ integ' = Append(integ, [id |-> nextId, second |-> None, brings |-> {}, adrs |-> {}])
  /\ nextId' = nextId + 1
  /\ UNCHANGED <<process, branch, tree, session, ghosts>>

(* The documented conflict repair: merge exactly merge_task_head. *)
OperatorMerges ==
  /\ pc = "down" /\ "merge" \in OperatorActs /\ disk # None
  /\ disk.phase = "operational_failure" /\ disk.error.failed = "merging" /\ disk.error.repair
  /\ tree # None /\ disk.mergeTask \notin Integrated
  /\ TaskHead = disk.mergeTask
  /\ integ' = Append(integ, MergeEntry(nextId, disk.mergeTask, branch[tree.task]))
  /\ nextId' = nextId + 1
  /\ UNCHANGED <<process, branch, tree, session, ghosts>>

(* Put branch and worktree back to the last checkpoint. *)
OperatorRestores ==
  /\ pc = "down" /\ "restore" \in OperatorActs
  /\ touched /\ tree # None /\ disk.worktree # None /\ disk.snapshot # None
  /\ \E n \in 0..Len(branch[tree.task].log) :
       LET b == [branch[tree.task] EXCEPT !.log = SubSeq(@, 1, n)]
       IN  /\ HeadOf(b) = disk.expectedHead
           /\ branch' = [branch EXCEPT ![tree.task] = b]
  /\ tree' = [tree EXCEPT !.edited = disk.snapshot.edited,
                          !.untracked = disk.snapshot.untracked,
                          !.adrs = (@ \ tree.untracked) \cup disk.snapshot.untracked]
  /\ touched' = FALSE
  /\ UNCHANGED <<process, integ, nextId, session, audited, reviewed, approved>>

(* Discard uncommitted files so that cleanup may remove the worktree. *)
OperatorCleans ==
  /\ pc = "down" /\ "clean" \in OperatorActs
  /\ tree # None /\ ~CleanTree
  /\ tree' = [tree EXCEPT !.edited = FALSE, !.adrs = @ \ tree.untracked, !.untracked = {}]
  /\ touched' = TRUE
  /\ UNCHANGED <<process, integ, branch, nextId, session, audited, reviewed, approved>>

(* Remove the worktree by hand when its cleanup was refused. *)
OperatorRemoves ==
  /\ pc = "down" /\ "remove" \in OperatorActs
  /\ tree # None /\ disk # None /\ EffectivePhase(disk) = "cleanup_worktree"
  /\ tree' = None
  /\ touched' = TRUE
  /\ UNCHANGED <<process, integ, branch, nextId, session, audited, reviewed, approved>>

-----------------------------------------------------------------------------
Dispatch ==
  \/ RetryOperationalFailure \/ Invoke \/ ReachLimit
  \/ CreateWorktree \/ ProvisioningFails \/ CreateWorktreeFails
  \/ RecordDecision \/ RecordDecisionFails \/ Verify
  \/ AdoptMerge \/ Merge \/ MergeFails \/ MergeConflicts
  \/ ValidateCleanup \/ InspectWorktree
  \/ CleanupWorktree \/ CleanupWorktreeFails
  \/ CleanupBranch \/ CleanupBranchFails

Answered == AnswerGuidance \/ AnswerEscalation \/ AnswerArchitect \/ AnswerApproval

AgentReturns ==
  \/ AgentFails
  \/ PlannerComplete \/ PlannerReady
  \/ ArchitectNeedsInput \/ ArchitectDecides
  \/ BuilderReportsComplete \/ BuilderReportsBlocked
  \/ AuditorAccepts \/ AuditorRevises \/ AuditorReplans

Saving == Save \/ SaveFails \/ SaveEscapes \/ AutoRetry

Supervise ==
  \/ ServerStarts \/ StartupFails \/ Dispatch \/ AgentReturns \/ Saving
  \/ Answered \/ InputUnavailable

Environment ==
  \/ Crash \/ BuilderWorks \/ LeftoverSessionWorks
  \/ OperatorCommits \/ OperatorMerges \/ OperatorRestores \/ OperatorCleans
  \/ OperatorRemoves

Next == StartRun \/ ResumeRun \/ Supervise \/ Environment

Spec == Init /\ [][Next]_vars
=============================================================================
