------------------------- MODULE SupervisorProperties -------------------------
(***************************************************************************)
(* What a run of the supervisor must be, whatever its agents answer,       *)
(* wherever it fails and however often it is resumed.                      *)
(***************************************************************************)
EXTENDS Supervisor


Adrs == [number : Nat, content : Nat]

Planners == [status : {"READY", "COMPLETE"}, task : Tasks \cup {None}, decision : BOOLEAN]

Architects ==
  [status : {"NEEDS_INPUT", "DECIDED"}, question : {"planner", "auditor"}, adr : Nat \cup {None}]

Builders == [task : Tasks, status : {"COMPLETE", "BLOCKED"}, commit : Nat \cup {None}]

Auditors == [task : Tasks, disposition : {"ACCEPT", "REVISE", "REPLAN"}, decision : BOOLEAN]

Questions ==
  [kind : QuestionKinds, answered : BOOLEAN,
   about : {"BLOCKED", "planner", "auditor", None}, adr : Nat \cup {None}]

Errors == [failed : AllPhases, retryable : BOOLEAN, repair : BOOLEAN]

Intents == [task : Tasks, base : Nat \cup {None}]

Worktrees == [task : Tasks, base : Nat]

Snapshots == [edited : BOOLEAN, untracked : SUBSET Adrs]

Documents ==
  [ phase : AllPhases,
    planner : Planners \cup {None}, architect : Architects \cup {None},
    builder : Builders \cup {None}, auditor : Auditors \cup {None},
    verification : Nat \cup {None}, decision : {"planner", "auditor", None},
    pending : Questions \cup {None}, error : Errors \cup {None},
    accepted : 0..MaxAccepted, revisions : 0..(MaxRevisions + 1),
    replans : 0..(MaxReplans + 1), architectRetries : 0..(MaxArchitectRetries + 1),
    guidance : Nat, opRetries : 0..MaxOpRetries,
    intent : Intents \cup {None}, worktree : Worktrees \cup {None},
    lastHead : Nat \cup {None}, expectedHead : Nat \cup {None},
    snapshot : Snapshots \cup {None}, integrationHead : Nat,
    mergePre : Nat \cup {None}, mergeTask : Nat \cup {None}, mergeCommit : Nat \cup {None},
    adr : Adrs \cup {None} ]

Trees == [task : Tasks, edited : BOOLEAN, untracked : SUBSET Adrs, adrs : SUBSET Adrs]

Branches == [base : Nat, log : Seq(Nat)]

Entries == [id : Nat, second : Nat \cup {None}, brings : SUBSET Nat, adrs : SUBSET Adrs]

(* null is none of the values it stands beside *)
ASSUME NullAssumption ==
  /\ None \notin Nat /\ None \notin AllPhases \cup {"planner", "auditor"} /\ None \notin Documents
  /\ None \notin Planners /\ None \notin Architects /\ None \notin Builders
  /\ None \notin Auditors /\ None \notin Questions /\ None \notin Errors
  /\ None \notin Intents /\ None \notin Snapshots /\ None \notin Adrs
  /\ None \notin Trees /\ None \notin Branches

TypeOK ==
  /\ mem \in Documents \cup {None}
  /\ disk \in Documents \cup {None}
  /\ pc \in {"down", "starting", "idle", "agent", "validated", "inspected", "saving",
              "signal", "opfail"}
  /\ (pc = "down") = (mem = None)
  /\ from \in AllPhases \cup {None}
  /\ integ \in Seq(Entries)
  /\ branch \in [Tasks -> Branches \cup {None}]
  /\ tree \in Trees \cup {None}
  /\ nextId \in Nat
  /\ session \in Tasks \cup {None}
  /\ audited \in Nat \cup {None} /\ reviewed \subseteq Nat /\ approved \subseteq Nat
  /\ touched \in BOOLEAN

(* Two documents the code is known to write and then refuse to load; the   *)
(* violation runs reach them.  The first: a COMPLETE report whose commit   *)
(* was refused, kept beside the BLOCKED guidance it was answering.         *)
RefusedGuidedCommit(s) ==
  /\ EffectivePhase(s) = "building" /\ s.pending # None
  /\ s.pending.kind = "builder_guidance" /\ s.builder.status = "COMPLETE"

(* The second: a REVISE verdict kept after the operator replanned the task *)
(* and the planner named another one.                                      *)
StaleRevision(s) ==
  /\ Ready(s) /\ s.auditor # None
  /\ s.auditor.disposition = "REVISE" /\ s.auditor.task # s.planner.task

(* Whatever is saved, at any phase and after any failure, load_state       *)
(* accepts again.                                                          *)
SavedDocumentLoads ==
  disk # None => Loadable(disk) \/ RefusedGuidedCommit(disk) \/ StaleRevision(disk)

(* A crash between any two steps leaves a run that resume() accepts, as    *)
(* long as nobody worked in the task worktree since the last save: every   *)
(* Git effect a lost transition may have had is one that the validation of *)
(* the phase on disk allows.                                               *)
CrashedRunResumes ==
  pc = "down" /\ disk # None /\ disk.phase \notin TerminalPhases /\ ~touched =>
    Resumable(disk) \/ RefusedGuidedCommit(disk) \/ StaleRevision(disk)

(* Each accepted task is merged once: retries, crashes and the operator's  *)
(* own merge never add a second merge, and the counter runs behind by one  *)
(* exactly while the task's merge or cleanup is on disk as unfinished.     *)
MergedOncePerTask ==
  disk # None =>
    LET merges == Cardinality({i \in DOMAIN integ : integ[i].second # None})
        extra  == merges - disk.accepted
    IN  /\ extra \in {0, 1}
        /\ extra = 1 => EffectivePhase(disk) \in MergePhases
        /\ extra = 0 => EffectivePhase(disk) \notin {"cleanup_worktree", "cleanup_branch"}

(* What reaches the integration branch is the commit the auditor was shown *)
(* when it accepted.                                                       *)
MergedWasReviewed == {integ[i].second : i \in DOMAIN integ} \ {None} \subseteq reviewed

(* With verification configured, a commit is merged only when the commands *)
(* ran on that very commit.                                                *)
MergedWasVerified ==
  mem # None /\ VerifyConfigured /\ mem.phase \in MergePhases =>
    mem.verification = mem.mergeTask

(* Every task branch and worktree is named by the document on disk, so a   *)
(* resume, or the operator, can find it.                                   *)
NothingOrphaned ==
  LET known == IF disk = None THEN {}
               ELSE {r.task : r \in {disk.intent, disk.worktree} \ {None}}
  IN  /\ \A t \in Tasks : branch[t] # None => t \in known
      /\ tree # None => tree.task \in known

(* No two decisions recorded in a worktree share an ADR number. *)
AdrNumbersUnique ==
  tree # None => \A a, b \in tree.adrs : a.number = b.number => a = b

(* With approval required, every recorded decision is word for word one    *)
(* the operator said yes to: a rejected or superseded proposal never is.   *)
RecordedWasApproved ==
  RequireApproval /\ tree # None => \A a \in tree.adrs : a.content \in approved

(* Guidance the operator gave stays on disk until a builder has answered   *)
(* it with a verified commit, a new question or a replan.                  *)
GuidanceKept ==
  [][disk # None /\ disk.pending # None /\ disk'.pending = None
     /\ disk.pending.kind = "builder_guidance" /\ disk.pending.answered =>
        disk'.builder.status = "COMPLETE" /\ disk'.lastHead = disk'.builder.commit]_vars

(* the commits some branch still leads to *)
Reachable ==
  Integrated \cup UNION {Commits(branch[t]) : t \in {u \in Tasks : branch[u] # None}}

(* Whatever a session left behind commits or edits between the checks of a *)
(* cleanup and what they guard, no step of a running supervisor loses work:*)
(* every commit stays on the integration branch or on a task branch, and a *)
(* worktree that goes away held nothing uncommitted.                       *)
NothingUnmergedDiscarded ==
  [][pc # "down" =>
       /\ Reachable \subseteq Reachable'
       /\ tree # None /\ tree' = None => CleanTree]_vars

(* A failure recorded as retryable can be retried by a resume. *)
RetryableFailureLoads ==
  disk # None /\ disk.phase = "operational_failure" => Loadable(disk)

(* A run that is neither finished nor failed can be loaded. *)
UnfinishedRunLoads ==
  disk # None /\ disk.phase \notin TerminalPhases \cup {"operational_failure"} =>
    Loadable(disk)

-----------------------------------------------------------------------------
(* Every process takes its next step: agents are timed out, Git commands   *)
(* return, and a headless input provider answers at once.  No outcome is   *)
(* promised, only that there is one.                                       *)
Fairness == WF_vars(Supervise)

FairSpec == Spec /\ Fairness

(* A process that was started returns to its caller. *)
RunReturns == pc # "down" ~> pc = "down"
=============================================================================
