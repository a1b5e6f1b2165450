--------------------------- MODULE Supervisor_proofs ---------------------------
(***************************************************************************)
(* Every step of a run keeps IInv, for every set of tasks, every limit,    *)
(* every set of faults and whatever the operator does: first the ways in   *)
(* which a step may end (a transition, a failure, a death, a restart) as   *)
(* lemmas, then one lemma per action, then the theorems.                   *)
(***************************************************************************)
EXTENDS SupervisorDocuments, SequenceTheorems

USE DEF BetweenSaves

-----------------------------------------------------------------------------
(* A process between two dispatches *)

LEMMA AtWork ==
  ASSUME IInv, pc \in BetweenSaves
  PROVE  /\ disk = mem /\ mem # None /\ mem \in Documents /\ DocOK(mem)
         /\ OwnsAll(mem, EffectivePhase(mem)) /\ LiveOK(mem, EffectivePhase(mem))
         /\ EffectivePhase(mem) \in RetryTargetPhases
         /\ mem.phase \in RetryTargetPhases =>
              /\ EffectivePhase(mem) = mem.phase
              /\ ContentOK(mem, mem.phase)
         /\ GitTyped /\ GitOK /\ RestTyped /\ TypeOK
<1>1. /\ disk = mem /\ DocOK(mem) /\ OwnsAll(mem, EffectivePhase(mem))
      /\ LiveOK(mem, EffectivePhase(mem)) /\ EffectivePhase(mem) \in RetryTargetPhases
  BY DEF IInv, MemOK, ControlOK, Ending
<1>2. GitTyped /\ GitOK /\ RestTyped /\ TypeOK
  BY DEF IInv, TypeOK, GitTyped, RestTyped
<1>3. mem \in Documents /\ mem # None
  BY <1>1, NullAssumption DEF DocOK
<1> QED
  BY <1>1, <1>2, <1>3, Active

(* A transition that leaves Git alone *)
LEMMA QuietStep ==
  ASSUME IInv, pc \in BetweenSaves, NEW s, NEW next \in {"saving", "signal"},
         Control(s, next), UNCHANGED <<disk, touched, gitvars>>, session' = session,
         next = "signal" => s.phase = "awaiting_input",
         next = "saving" \/ s.phase # "done",
         DocOK(s), s.phase \in RetryTargetPhases \/ (s.phase = "done" /\ mem.phase = "planning"),
         OwnsAll(s, s.phase), LiveOK(s, s.phase),
         nextId' \in Nat, reviewed' \subseteq Nat, approved' \subseteq Nat
  PROVE  IInv'
<1>1. GitTyped' /\ GitOK' /\ RestTyped'
  BY AtWork DEF GitTyped, GitOK, IntegrationAdrs, RestTyped, gitvars
<1>2. OwnsAll(s, s.phase)' /\ LiveOK(s, s.phase)'
  BY DEF OwnsAll, LiveOK, Owned, gitvars
<1>3. OwnsAll(disk, EffectivePhase(disk))'
  BY AtWork DEF OwnsAll, Owned, gitvars, EffectivePhase
<1> QED
  BY <1>1, <1>2, <1>3, TransitionStep

(* A phase of the same task *)
LEMMA SameTask ==
  ASSUME IInv, pc \in BetweenSaves, NEW s, s.worktree = mem.worktree,
         mem.phase \in RetryTargetPhases \ (CleanupPhases \cup {"creating_worktree"}),
         s.phase \notin {"creating_worktree", "cleanup_branch", "done"}
  PROVE  OwnsAll(s, s.phase) /\ LiveOK(s, s.phase)
<1>1. OwnsAll(mem, mem.phase) /\ LiveOK(mem, mem.phase)
  BY AtWork
<1> QED
  BY <1>1 DEF OwnsAll, LiveOK, Owned, CleanupPhases

LEMMA SameTaskStep ==
  ASSUME IInv, pc \in BetweenSaves, NEW s, Transition(s), UNCHANGED gitvars,
         DocOK(s), s.worktree = mem.worktree,
         mem.phase \in RetryTargetPhases \ (CleanupPhases \cup {"creating_worktree"}),
         s.phase \in RetryTargetPhases \ {"creating_worktree", "cleanup_branch"},
         nextId' \in Nat, reviewed' \subseteq Nat, approved' \subseteq Nat
  PROVE  IInv'
<1>1. s.phase # "done"
  BY PhaseFacts
<1> QED
  BY <1>1, SameTask, QuietStep DEF Transition, Surviving

(* A failure that leaves Git alone *)
LEMMA QuietFail ==
  ASSUME IInv, pc \in BetweenSaves, mem.phase \in RetryTargetPhases,
         NEW s \in Documents, ContentOK(s, mem.phase),
         s.worktree = mem.worktree, mem.phase = "creating_worktree" => s.intent = mem.intent,
         s.expectedHead = mem.expectedHead \/ mem.phase # "cleanup_branch",
         NEW repair \in BOOLEAN, mem.phase = "cleanup_worktree" => repair, NEW leftover \in Tasks \cup {None},
         FailWith(s, mem.phase, repair, "opfail", leftover),
         UNCHANGED <<gitvars, reviewed>>, nextId' \in Nat, approved' \subseteq Nat
  PROVE  IInv'
<1> PICK e : e = mem.phase
  OBVIOUS
<1>1. /\ disk = mem /\ disk # None /\ EffectivePhase(mem) = e
      /\ OwnsAll(mem, e) /\ LiveOK(mem, e)
  BY AtWork
<1>2. GitTyped' /\ GitOK'
  BY AtWork DEF GitTyped, GitOK, IntegrationAdrs, gitvars
<1>3. Owned(s, e) = Owned(mem, e)
  BY DEF Owned
<1>4. OwnsAll(s, e)'
  BY <1>1, <1>3 DEF OwnsAll, Owned, gitvars
<1>5. \A t \in Tasks : branch'[t] # None => t \in Owned(disk, EffectivePhase(disk))
  BY <1>1 DEF OwnsAll, gitvars
<1>6. e = "cleanup_branch" => s.expectedHead # None /\ tree' = None
  BY <1>1 DEF LiveOK, gitvars
<1>7. tree # None => tree' # None
  BY DEF gitvars
<1>8. pc # "down"
  OBVIOUS
<1> QED
  BY <1>1, <1>2, <1>4, <1>5, <1>6, <1>7, <1>8, FailStep

LEMMA QuietGitFail ==
  ASSUME IInv, pc \in BetweenSaves, mem.phase \in RetryTargetPhases,
         NEW s \in Documents, ContentOK(s, mem.phase),
         s.worktree = mem.worktree, mem.phase = "creating_worktree" => s.intent = mem.intent,
         s.expectedHead = mem.expectedHead \/ mem.phase # "cleanup_branch",
         GitFails(s), UNCHANGED <<gitvars, reviewed>>, nextId' \in Nat, approved' \subseteq Nat
  PROVE  IInv'
<1>1. PICK r : r = GitRepair(mem.phase)
  OBVIOUS
<1>2. r \in BOOLEAN
  BY <1>1 DEF GitRepair
<1>3. ASSUME mem.phase = "cleanup_worktree"
      PROVE  r
  BY <1>1, <1>3 DEF GitRepair
<1>4. session \in Tasks \cup {None}
  BY DEF IInv, TypeOK
<1>5. FailWith(s, mem.phase, r, "opfail", session)
  BY <1>1 DEF GitFails, Fail
<1> QED
  BY <1>2, <1>4, <1>5, <1>3, QuietFail

(* A Git command failed before the phase changed anything. *)
LEMMA PlainGitFail ==
  ASSUME IInv, pc \in BetweenSaves, mem.phase \in RetryTargetPhases,
         GitFails(mem), UNCHANGED <<gitvars, nextId, reviewed, approved>>
  PROVE  IInv'
<1>1. mem \in Documents /\ ContentOK(mem, mem.phase) /\ approved \subseteq Nat /\ nextId \in Nat
  BY AtWork DEF IInv, TypeOK
<1> QED
  BY <1>1, QuietGitFail

LEMMA Unchanged ==
  ASSUME IInv, UNCHANGED gitvars
  PROVE  /\ GitOK' /\ integ' \in Seq(Entries) /\ branch' \in [Tasks -> Branches \cup {None}]
         /\ tree' \in Trees \cup {None}
         /\ nextId' = nextId => nextId' \in Nat
         /\ reviewed' = reviewed => reviewed' \subseteq Nat
         /\ approved' = approved => approved' \subseteq Nat
<1>1. GitOK'
  BY DEF IInv, GitOK, IntegrationAdrs, gitvars
<1> QED
  BY <1>1 DEF IInv, TypeOK, gitvars

-----------------------------------------------------------------------------
(* The first branch of the proof: planning a task and creating its worktree *)

LEMMA ReachLimitStep ==
  ASSUME IInv, ReachLimit
  PROVE  IInv'
<1> PICK s : s = [mem EXCEPT !.phase = "done"]
  OBVIOUS
<1>1. /\ pc = "idle" /\ mem.phase = "planning" /\ mem.accepted >= MaxAccepted /\ Transition(s)
      /\ UNCHANGED <<gitvars, nextId, reviewed, approved>>
  BY DEF ReachLimit, AtLimit
<1>2. mem \in Documents /\ DocOK(mem) /\ ContentOK(mem, "planning") /\ OwnsAll(mem, "planning")
  BY <1>1, AtWork, ActivePhases
<1>3. mem.worktree = None
  <2>1. mem.accepted \in Nat /\ MaxAccepted \in Nat
    BY <1>2, Limits DEF Documents
  <2> QED
    BY <1>1, <1>2, <2>1, ActivePhases DEF ContentOK, ProgressOK
<1>4. /\ mem.planner \in Planners \cup {None}
      /\ mem.planner # None /\ mem.planner.status = "READY" => mem.planner.task \in Tasks
  BY <1>2 DEF Documents, ContentOK, TaskOK, Ready
<1>5. s = [mem EXCEPT !.planner = mem.planner, !.phase = "done"]
  BY <1>2 DEF Documents
<1>6. DocOK(s) /\ s.phase = "done" /\ s.worktree = mem.worktree /\ s.intent = mem.intent
  BY <1>1, <1>2, <1>3, <1>4, <1>5, DoneMove
<1>7. ContentOK(s, "planning")
  BY <1>1, <1>2, <1>3, <1>4, <1>5, DonePlanning
<1>8. OwnsAll(s, s.phase) /\ LiveOK(s, s.phase)
  BY <1>2, <1>3, <1>6, <1>7 DEF OwnsAll, LiveOK, Owned
<1> QED
  BY <1>1, <1>6, <1>8, QuietStep, Unchanged DEF Transition, Surviving

LEMMA PlannerCompleteStep ==
  ASSUME IInv, PlannerComplete
  PROVE  IInv'
<1>1. PICK p : p = [status |-> "COMPLETE", task |-> None, decision |-> FALSE]
  OBVIOUS
<1>2. PICK s : s = [mem EXCEPT !.planner = p]
  OBVIOUS
<1>3. /\ pc = "agent" /\ mem.phase = "planning"
      /\ IF mem.worktree # None THEN Terminal(s) ELSE Transition([s EXCEPT !.phase = "done"])
      /\ UNCHANGED <<gitvars, nextId, reviewed, approved>>
  BY <1>1, <1>2 DEF PlannerComplete
<1>4. /\ mem \in Documents /\ DocOK(mem) /\ ContentOK(mem, "planning")
      /\ OwnsAll(mem, "planning") /\ LiveOK(mem, "planning")
  BY <1>3, AtWork, ActivePhases
<1>5. p \in Planners /\ p.status = "COMPLETE"
  BY <1>1 DEF Planners
<1>6. CASE mem.worktree # None
  <2>1. /\ s \in Documents /\ EndedOK(s, mem.phase) /\ s.worktree = mem.worktree
        /\ s.worktree # None
    BY <1>3, <1>4, <1>5, <1>6, <1>2, CompleteEnds
  <2>2. tree # None /\ OwnsAll(s, "failed")
    BY <1>4, <1>6, <2>1 DEF LiveOK, CleanupPhases, OwnsAll, Owned
  <2> QED
    BY <1>3, <1>6, <2>1, <2>2, TerminalStep
<1>7. CASE mem.worktree = None
  <2>1. PICK t : t = [mem EXCEPT !.planner = p, !.phase = "done"]
    OBVIOUS
  <2>2. t = [s EXCEPT !.phase = "done"]
    BY <2>1, <1>2
  <2>3. /\ p \in Planners \cup {None} /\ mem.worktree = None
        /\ p # None /\ p.status = "READY" => p.task \in Tasks
    BY <1>5, <1>7
  <2>4. DocOK(t) /\ t.phase = "done" /\ t.worktree = mem.worktree /\ t.intent = mem.intent
    BY <1>3, <1>4, <2>1, <2>3, DoneMove
  <2>5. ContentOK(t, "planning")
    BY <1>3, <1>4, <2>1, <2>3, DonePlanning
  <2>6. OwnsAll(t, t.phase) /\ LiveOK(t, t.phase)
    BY <1>4, <1>7, <2>4, <2>5 DEF OwnsAll, LiveOK, Owned
  <2> QED
    BY <1>3, <1>7, <2>2, <2>4, <2>6, QuietStep, Unchanged DEF Transition, Surviving
<1> QED
  BY <1>6, <1>7

LEMMA PlannerReadyStep ==
  ASSUME IInv, PlannerReady
  PROVE  IInv'
<1>1. PICK t \in Tasks, d \in BOOLEAN :
       LET s == [mem EXCEPT !.planner = [status |-> "READY", task |-> t, decision |-> d]]
       IN  IF mem.worktree # None
             THEN Transition(Route([s EXCEPT !.revisions = 0, !.guidance = 0]))
             ELSE \/ Transition([s EXCEPT !.intent = [task |-> t, base |-> IntegrationHead],
                                          !.phase = "creating_worktree"])
                  \/ /\ "git" \in Faults
                     /\ GitFails([s EXCEPT !.intent = [task |-> t, base |-> None]])
  BY DEF PlannerReady
<1>2. PICK p : p = [status |-> "READY", task |-> t, decision |-> d]
  OBVIOUS
<1>3. pc = "agent" /\ mem.phase = "planning" /\ UNCHANGED <<gitvars, nextId, reviewed, approved>>
  BY DEF PlannerReady
<1>4. /\ mem \in Documents /\ DocOK(mem) /\ ContentOK(mem, "planning")
      /\ OwnsAll(mem, "planning") /\ LiveOK(mem, "planning") /\ mem.accepted < MaxAccepted
  BY <1>3, AtWork, ActivePhases DEF IInv, ControlOK
<1>5. p \in Planners /\ p.status = "READY" /\ p.task \in Tasks /\ p.task = t /\ p.decision = d
  BY <1>2 DEF Planners
<1>6. mem.phase \in RetryTargetPhases \ (CleanupPhases \cup {"creating_worktree"})
  BY <1>3, ActivePhases DEF CleanupPhases
<1>7. CASE mem.worktree # None /\ d
  <2>1. PICK s : s = [mem EXCEPT !.planner = p, !.revisions = 0, !.guidance = 0,
                               !.decision = "planner", !.phase = "architecting"]
    OBVIOUS
  <2>2. Transition(s)
    BY <1>1, <1>5, <1>7, <1>4, <1>2, <2>1 DEF Route, Documents
  <2>3. DocOK(s) /\ s.phase = "architecting" /\ s.worktree = mem.worktree
    BY <1>3, <1>4, <1>5, <1>7, <2>1, ReplannedAsk
  <2> QED
    BY <1>3, <1>6, <2>2, <2>3, SameTaskStep, Unchanged, ActivePhases
<1>8. CASE mem.worktree # None /\ ~d
  <2>1. PICK s : s = [mem EXCEPT !.planner = p, !.revisions = 0, !.guidance = 0, !.phase = "building"]
    OBVIOUS
  <2>2. Transition(s)
    BY <1>1, <1>5, <1>8, <1>4, <1>2, <2>1 DEF Route, Documents
  <2>3. DocOK(s) /\ s.phase = "building" /\ s.worktree = mem.worktree
    BY <1>3, <1>4, <1>5, <1>8, <2>1, ReplannedBuild
  <2> QED
    BY <1>3, <1>6, <2>2, <2>3, SameTaskStep, Unchanged, ActivePhases
<1>9. ASSUME mem.worktree = None,
             Transition([[mem EXCEPT !.planner = [status |-> "READY", task |-> t, decision |-> d]] EXCEPT
                           !.intent = [task |-> t, base |-> IntegrationHead],
                           !.phase = "creating_worktree"])
      PROVE  IInv'
  <2>1. PICK i : i = [task |-> t, base |-> IntegrationHead]
    OBVIOUS
  <2>2. PICK s : s = [mem EXCEPT !.planner = p, !.intent = i, !.phase = "creating_worktree"]
    OBVIOUS
  <2>3. Transition(s)
    BY <1>9, <1>2, <2>1, <2>2
  <2>4. i \in Intents /\ i.base # None
    BY <2>1, IntegrationTyped, NullAssumption DEF IInv, Intents
  <2>5. mem.worktree = None
    BY <1>9
  <2>6. DocOK(s)
    BY <1>3, <1>4, <1>5, <2>4, <2>5, <2>2, IntentMove
  <2>7. s.phase = "creating_worktree" /\ s.worktree = None
    BY <1>4, <2>5, <2>2 DEF Documents
  <2>8. OwnsAll(s, s.phase) /\ LiveOK(s, s.phase)
    BY <1>4, <2>7, <2>5 DEF OwnsAll, LiveOK, Owned
  <2> QED
    BY <1>3, <2>3, <2>6, <2>8, <2>7, QuietStep, Unchanged, ActivePhases DEF Transition,
       Surviving
<1>10. ASSUME mem.worktree = None,
             GitFails([[mem EXCEPT !.planner = [status |-> "READY", task |-> t, decision |-> d]] EXCEPT
                       !.intent = [task |-> t, base |-> None]])
      PROVE  IInv'
  <2>1. PICK i : i = [task |-> t, base |-> None]
    OBVIOUS
  <2>2. PICK s : s = [mem EXCEPT !.planner = p, !.intent = i]
    OBVIOUS
  <2>3. GitFails(s)
    BY <1>10, <1>2, <2>1, <2>2
  <2>4. i \in Intents
    BY <2>1 DEF Intents
  <2>5. s \in Documents /\ ContentOK(s, "planning") /\ s.worktree = None
    BY <1>3, <1>4, <1>5, <1>10, <2>4, <2>2, IntentFails
  <2> QED
    BY <1>3, <1>6, <1>10, <2>3, <2>5, QuietGitFail, Unchanged
<1> QED
  BY <1>1, <1>7, <1>8, <1>9, <1>10

(* What creating or adopting the worktree of the intent w leaves *)
LEMMA CreatedGit ==
  ASSUME IInv, pc = "idle", mem.phase = "creating_worktree", NEW w, w = mem.intent,
         Reconcilable(mem.intent.task, mem.intent.base), Created, nextId' = nextId
  PROVE  /\ w \in Worktrees /\ w # None /\ GitTyped' /\ GitOK' /\ tree' # None
         /\ \A t \in Tasks : branch'[t] # None => t = w.task
         /\ tree # None => tree' # None
<1>1. /\ mem \in Documents /\ ContentOK(mem, "creating_worktree") /\ OwnsAll(mem, "creating_worktree")
      /\ GitTyped /\ GitOK
  BY AtWork, ActivePhases
<1>2. w \in Worktrees /\ w # None
  BY <1>1, IntentComplete
<1>3. w.task \in Tasks /\ w.base \in Nat
  BY <1>2 DEF Worktrees
<1>4. \A t \in Tasks : branch[t] # None => t = w.task
  BY <1>1 DEF OwnsAll, Owned
<1>5. PICK b : b = [base |-> w.base, log |-> <<>>]
  OBVIOUS
<1>6. b \in Branches /\ b # None
  <2>1. b \in Branches
    BY <1>3, <1>5 DEF Branches
  <2> QED
    BY <2>1, NullAssumption
<1>7. branch' = [branch EXCEPT ![w.task] = b] /\ integ' = integ
  BY <1>5 DEF Created
<1>8. branch' \in [Tasks -> Branches \cup {None}] /\ branch'[w.task] = b
  BY <1>1, <1>3, <1>6, <1>7 DEF GitTyped
<1>9. \A t \in Tasks : branch'[t] # None => t = w.task
  BY <1>1, <1>3, <1>4, <1>7 DEF GitTyped
<1>10. PICK n : n = [task |-> w.task, edited |-> FALSE, untracked |-> {}, adrs |-> IntegrationAdrs]
  OBVIOUS
<1>11. IntegrationAdrs \subseteq Adrs
  <2> SUFFICES ASSUME NEW a \in IntegrationAdrs PROVE a \in Adrs
    OBVIOUS
  <2>1. PICK i \in DOMAIN integ : a \in integ[i].adrs
    BY DEF IntegrationAdrs
  <2>2. integ[i] \in Entries
    BY <1>1 DEF GitTyped
  <2> QED
    BY <2>1, <2>2 DEF Entries
<1>12. n \in Trees /\ n # None /\ n.task = w.task /\ n.adrs = IntegrationAdrs
  <2>1. n \in Trees
    BY <1>3, <1>10, <1>11 DEF Trees
  <2> QED
    BY <1>10, <2>1, NullAssumption
<1>13. tree' = IF tree # None THEN tree ELSE n
  BY <1>10 DEF Created
<1>14. tree # None => tree.task = w.task
  BY DEF Reconcilable
<1>15. tree' \in Trees /\ tree' # None /\ tree'.task = w.task
  BY <1>1, <1>12, <1>13, <1>14 DEF GitTyped
<1>16. GitTyped'
  BY <1>1, <1>7, <1>8, <1>15 DEF GitTyped
<1>17. IsFiniteSet(n.adrs) /\ n.untracked \subseteq n.adrs
  BY <1>1, <1>10, <1>12 DEF GitOK
<1>18. IsFiniteSet(tree'.adrs) /\ tree'.untracked \subseteq tree'.adrs
  BY <1>1, <1>13, <1>17 DEF GitOK
<1>19. integ' # <<>> /\ IsFiniteSet(IntegrationAdrs)'
  BY <1>1, <1>7 DEF GitOK, IntegrationAdrs
<1>20. GitOK'
  BY <1>6, <1>8, <1>15, <1>18, <1>19 DEF GitOK
<1> QED
  BY <1>2, <1>9, <1>15, <1>16, <1>20

LEMMA CreateWorktreeStep ==
  ASSUME IInv, CreateWorktree
  PROVE  IInv'
<1>1. PICK w : w = mem.intent
  OBVIOUS
<1>2. /\ pc = "idle" /\ mem.phase = "creating_worktree"
      /\ Reconcilable(mem.intent.task, mem.intent.base) /\ Created
      /\ UNCHANGED <<nextId, reviewed, approved>>
  BY DEF CreateWorktree
<1>3. /\ w \in Worktrees /\ w # None /\ GitTyped' /\ GitOK' /\ tree' # None
      /\ \A t \in Tasks : branch'[t] # None => t = w.task
  BY <1>1, <1>2, CreatedGit
<1>4. mem \in Documents /\ DocOK(mem) /\ disk = mem /\ EffectivePhase(mem) = "creating_worktree"
  BY <1>2, AtWork, ActivePhases
<1>5. ASSUME NEW s, Transition(s), DocOK(s), s.worktree = w,
             s.phase \in {"architecting", "building"}
      PROVE  IInv'
  <2>1. OwnsAll(s, s.phase)' /\ LiveOK(s, s.phase)'
    BY <1>3, <1>5 DEF OwnsAll, LiveOK, Owned
  <2>2. disk' = disk /\ UNCHANGED touched /\ Control(s, "saving") /\ session' = session
    BY <1>5 DEF Transition, Surviving
  <2>3. OwnsAll(disk, EffectivePhase(disk))'
    BY <1>1, <1>3, <1>4, <2>2 DEF OwnsAll, Owned, EffectivePhase
  <2>4. RestTyped'
    BY <1>2, <2>2 DEF RestTyped, IInv, TypeOK
  <2> QED
    BY <1>2, <1>3, <1>5, <2>1, <2>2, <2>3, <2>4, ActivePhases, TransitionStep
<1>6. CASE mem.planner.decision
  <2>1. PICK s : s = [mem EXCEPT !.worktree = mem.intent, !.intent = None, !.revisions = 0,
                                 !.guidance = 0, !.decision = "planner", !.phase = "architecting"]
    OBVIOUS
  <2>2. Transition(s)
    BY <1>4, <1>6, <2>1 DEF CreateWorktree, Route, Documents
  <2>3. DocOK(s)
    BY <1>2, <1>4, <1>6, <2>1, CreatedAsk
  <2>4. s.worktree = w /\ s.phase = "architecting"
    BY <1>1, <1>4, <2>1 DEF Documents
  <2> QED
    BY <1>5, <2>2, <2>3, <2>4
<1>7. CASE ~mem.planner.decision
  <2>1. PICK s : s = [mem EXCEPT !.worktree = mem.intent, !.intent = None, !.revisions = 0,
                                 !.guidance = 0, !.phase = "building"]
    OBVIOUS
  <2>2. Transition(s)
    BY <1>4, <1>7, <2>1 DEF CreateWorktree, Route, Documents
  <2>3. DocOK(s)
    BY <1>2, <1>4, <2>1, CreatedBuild
  <2>4. s.worktree = w /\ s.phase = "building"
    BY <1>1, <1>4, <2>1 DEF Documents
  <2> QED
    BY <1>5, <2>2, <2>3, <2>4
<1> QED
  BY <1>6, <1>7

LEMMA ProvisioningFailsStep ==
  ASSUME IInv, ProvisioningFails
  PROVE  IInv'
<1>1. PICK w, d : w = mem.intent /\ d = mem
  OBVIOUS
<1>2. /\ pc = "idle" /\ mem.phase = "creating_worktree"
      /\ Reconcilable(mem.intent.task, mem.intent.base) /\ Created
      /\ UNCHANGED <<nextId, reviewed, approved>>
      /\ FailWith(d, "creating_worktree", FALSE, "opfail", session)
  BY <1>1 DEF ProvisioningFails, Fail
<1>3. /\ w \in Worktrees /\ w # None /\ GitTyped' /\ GitOK' /\ tree' # None
      /\ \A t \in Tasks : branch'[t] # None => t = w.task
  BY <1>1, <1>2, CreatedGit
<1>4. /\ d \in Documents /\ ContentOK(d, "creating_worktree") /\ disk = d /\ disk # None
      /\ EffectivePhase(d) = "creating_worktree"
  BY <1>1, <1>2, AtWork, ActivePhases
<1>5. Owned(d, "creating_worktree") = {w.task}
  BY <1>1 DEF Owned
<1>6. /\ OwnsAll(d, "creating_worktree")'
      /\ \A t \in Tasks : branch'[t] # None => t \in Owned(disk, EffectivePhase(disk))
  BY <1>3, <1>4, <1>5 DEF OwnsAll
<1>7. session \in Tasks \cup {None} /\ approved' \subseteq Nat /\ pc # "down"
  BY <1>2 DEF IInv, TypeOK
<1> QED
  BY <1>2, <1>3, <1>4, <1>6, <1>7, ActivePhases, FailStep

LEMMA CreateWorktreeFailsStep ==
  ASSUME IInv, CreateWorktreeFails
  PROVE  IInv'
  BY PlainGitFail, ActivePhases DEF CreateWorktreeFails

-----------------------------------------------------------------------------
(* Deciding a question of architecture *)

LEMMA NumbersFinite ==
  ASSUME NEW A, IsFiniteSet(A)
  PROVE  IsFiniteSet({a.number : a \in A})
<1> DEFINE N == {a.number : a \in A}
           f == [a \in A |-> a.number]
<1>1. f \in Surjection(A, N)
  BY DEF Surjection
<1> HIDE DEF f, N
<1>2. IsFiniteSet(N)
  BY <1>1, FS_Surjection
<1> QED
  BY <1>2 DEF N

(* The next ADR number is above every number in the worktree. *)
LEMMA NextAdrFresh ==
  ASSUME IInv, tree # None
  PROVE  NextAdrNumber \in Nat /\ \A a \in tree.adrs : a.number < NextAdrNumber
<1> DEFINE S == {0} \cup {a.number : a \in tree.adrs}
<1>1. tree.adrs \subseteq Adrs
  BY DEF IInv, TypeOK, Trees
<1>2. S \in SUBSET Nat /\ S # {}
  BY <1>1 DEF Adrs
<1>3. IsFiniteSet(tree.adrs)
  BY DEF IInv, GitOK
<1>4. IsFiniteSet(S)
  <2>1. IsFiniteSet({a.number : a \in tree.adrs})
    BY <1>3, NumbersFinite
  <2>2. IsFiniteSet({a.number : a \in tree.adrs} \cup {0})
    BY <2>1, FS_AddElement
  <2>3. S = {a.number : a \in tree.adrs} \cup {0}
    OBVIOUS
  <2> QED
    BY <2>2, <2>3
<1>5. Max(S) \in S /\ \A y \in S : y <= Max(S)
  <2> HIDE DEF S
  <2> QED
    BY <1>2, <1>4, MaxOfFinite
<1>6. NextAdrNumber = 1 + Max(S)
  BY DEF NextAdrNumber
<1>7. \A a \in tree.adrs : a.number \in S
  OBVIOUS
<1> HIDE DEF S
<1>8. Max(S) \in Nat /\ \A a \in tree.adrs : a.number \in Nat /\ a.number <= Max(S)
  BY <1>2, <1>5, <1>7
<1> QED
  BY <1>6, <1>8

(* A question put to the operator *)
LEMMA Asking ==
  ASSUME NEW kind \in QuestionKinds, NEW about \in {"BLOCKED", "planner", "auditor", None},
         NEW adr \in Nat \cup {None}, NEW q, q = Ask(kind, about, adr)
  PROVE  q \in Questions /\ q.kind = kind /\ q.about = about /\ q.adr = adr /\ ~q.answered
  BY DEF Ask, Questions

LEMMA InTask ==
  ASSUME IInv, pc \in BetweenSaves,
         mem.phase \in RetryTargetPhases \ {"planning", "creating_worktree"}
  PROVE  /\ mem.worktree # None /\ OwnsAll(mem, mem.phase)
         /\ mem.phase \notin CleanupPhases => tree # None
         /\ mem.planner.task \in Tasks /\ mem.planner # None
<1>1. ContentOK(mem, mem.phase) /\ LiveOK(mem, mem.phase) /\ OwnsAll(mem, mem.phase)
  BY AtWork
<1> QED
  BY <1>1 DEF ContentOK, TaskOK, TaskPhases, LiveOK, Ready

LEMMA SameTaskEnds ==
  ASSUME IInv, pc \in BetweenSaves, NEW s \in Documents, Terminal(s),
         EndedOK(s, mem.phase), s.worktree = mem.worktree,
         mem.phase \in RetryTargetPhases \ (CleanupPhases \cup {"planning", "creating_worktree"}),
         UNCHANGED <<gitvars, nextId, reviewed, approved>>
  PROVE  IInv'
<1>1. mem.worktree # None /\ OwnsAll(mem, mem.phase) /\ tree # None
  BY InTask
<1>2. OwnsAll(s, "failed")
  BY <1>1 DEF OwnsAll, Owned
<1> QED
  BY <1>1, <1>2, TerminalStep

LEMMA ArchitectNeedsInputStep ==
  ASSUME IInv, ArchitectNeedsInput
  PROVE  IInv'
<1>1. PICK a, n, q : /\ a = [status |-> "NEEDS_INPUT", question |-> mem.decision, adr |-> None]
                     /\ n = mem.architectRetries + 1
                     /\ q = Ask("architect_input", mem.decision, None)
  OBVIOUS
<1>2. PICK s : s = [mem EXCEPT !.architect = a, !.architectRetries = n]
  OBVIOUS
<1>3. PICK t : t = [mem EXCEPT !.architect = a, !.architectRetries = n, !.pending = q,
                               !.phase = "awaiting_input"]
  OBVIOUS
<1>4. /\ pc = "agent" /\ mem.phase = "architecting"
      /\ UNCHANGED <<gitvars, nextId, reviewed, approved>>
  BY DEF ArchitectNeedsInput
<1>5. mem \in Documents /\ DocOK(mem) /\ ContentOK(mem, "architecting")
  BY <1>4, AtWork, ActivePhases
<1>6. IF n > MaxArchitectRetries THEN Terminal(s) ELSE Transition(t)
  <2>1. s.architectRetries = n
    BY <1>2, <1>5 DEF Documents
  <2>2. t = [s EXCEPT !.pending = q, !.phase = "awaiting_input"]
    BY <1>2, <1>3
  <2> QED
    BY <1>1, <1>2, <2>1, <2>2 DEF ArchitectNeedsInput
<1>7. /\ mem.decision \in {"planner", "auditor"}
      /\ mem.architectRetries \in Nat /\ mem.architectRetries <= MaxArchitectRetries
  <2>1. mem.architectRetries \in 0..(MaxArchitectRetries + 1)
    BY <1>5 DEF Documents
  <2>2. mem.architectRetries <= MaxArchitectRetries
    BY <1>5, ActivePhases DEF ContentOK, ProgressOK
  <2>3. mem.decision \in {"planner", "auditor"}
    BY <1>5 DEF Documents, ContentOK, DecisionOK, DecisionRelationshipsOK
  <2> QED
    BY <2>1, <2>2, <2>3, Limits
<1>8. n \in 0..(MaxArchitectRetries + 1)
  BY <1>1, <1>7, Limits
<1>9. a \in Architects /\ a.status = "NEEDS_INPUT" /\ a.question = mem.decision
  BY <1>1, <1>7 DEF Architects
<1>10. q \in Questions /\ q.kind = "architect_input" /\ q.about = mem.decision
  <2>1. mem.decision \in {"BLOCKED", "planner", "auditor", None}
    BY <1>7
  <2>2. "architect_input" \in QuestionKinds /\ None \in Nat \cup {None}
    BY DEF QuestionKinds
  <2>3. q = Ask("architect_input", mem.decision, None)
    BY <1>1
  <2> QED
    BY <2>1, <2>2, <2>3 DEF Ask, Questions
<1>11. /\ mem.phase \in RetryTargetPhases \ (CleanupPhases \cup {"planning", "creating_worktree"})
       /\ mem.phase \in RetryTargetPhases \ (CleanupPhases \cup {"creating_worktree"})
  BY <1>4, ActivePhases DEF CleanupPhases
<1>12. CASE n > MaxArchitectRetries
  <2>1. s \in Documents /\ EndedOK(s, "architecting") /\ s.worktree = mem.worktree
    BY <1>2, <1>4, <1>5, <1>8, <1>9, QuestionEnds
  <2> QED
    BY <1>4, <1>6, <1>11, <1>12, <2>1, SameTaskEnds
<1>13. CASE ~(n > MaxArchitectRetries)
  <2>1. n <= MaxArchitectRetries
    BY <1>1, <1>7, <1>13, Limits
  <2>2. DocOK(t)
    BY <1>3, <1>4, <1>5, <1>8, <1>9, <1>10, <2>1, QuestionMove
  <2>3. t.phase = "awaiting_input" /\ t.worktree = mem.worktree
    BY <1>3, <1>5 DEF Documents
  <2> QED
    BY <1>4, <1>6, <1>11, <1>13, <2>2, <2>3, SameTaskStep, Unchanged, ActivePhases
<1> QED
  BY <1>12, <1>13

LEMMA Preparing ==
  ASSUME IInv, tree # None, NEW n \in Nat, NEW r, r = [number |-> NextAdrNumber, content |-> n]
  PROVE  r \in Adrs
  BY NextAdrFresh DEF Adrs

LEMMA ArchitectDecidesStep ==
  ASSUME IInv, ArchitectDecides
  PROVE  IInv'
<1>1. PICK a, q, r :
        /\ a = [status |-> "DECIDED", question |-> mem.decision, adr |-> nextId]
        /\ q = Ask("decision_approval", None, nextId)
        /\ r = [number |-> NextAdrNumber, content |-> nextId]
  OBVIOUS
<1>2. PICK s : s = [mem EXCEPT !.architect = a]
  OBVIOUS
<1>3. PICK t : t = [mem EXCEPT !.architect = a, !.pending = q, !.phase = "awaiting_input"]
  OBVIOUS
<1>4. PICK u : u = [mem EXCEPT !.architect = a, !.adr = r, !.pending = None,
                               !.phase = "recording_decision"]
  OBVIOUS
<1>5. /\ pc = "agent" /\ mem.phase = "architecting" /\ nextId' = nextId + 1
      /\ UNCHANGED <<gitvars, reviewed, approved>>
  BY DEF ArchitectDecides
<1>6. mem \in Documents /\ DocOK(mem) /\ ContentOK(mem, "architecting")
  BY <1>5, AtWork, ActivePhases
<1>7. nextId \in Nat /\ nextId' \in Nat /\ nextId # None
  BY <1>5, NullAssumption DEF IInv, TypeOK
<1>8. mem.decision \in {"planner", "auditor"}
  BY <1>6 DEF Documents, ContentOK, DecisionOK, DecisionRelationshipsOK
<1>9. a \in Architects /\ a.status = "DECIDED" /\ a.question = mem.decision /\ a.adr = nextId
  BY <1>1, <1>7, <1>8 DEF Architects
<1>10. q \in Questions /\ q.kind = "decision_approval" /\ q.adr = nextId
  BY <1>1, <1>7, Asking DEF QuestionKinds
<1>11. tree # None /\ mem.phase \in RetryTargetPhases \ (CleanupPhases \cup {"creating_worktree"})
  BY <1>5, ActivePhases, InTask DEF CleanupPhases
<1>12. r \in Adrs
  BY <1>1, <1>7, <1>11, Preparing
<1>13. \/ Control(t, "signal") /\ UNCHANGED <<disk, touched, session>>
       \/ Transition(u)
       \/ Fail(s, "architecting", TRUE)
  <2>1. t = [s EXCEPT !.pending = q, !.phase = "awaiting_input"]
    BY <1>2, <1>3
  <2>2. u = [[s EXCEPT !.adr = r, !.phase = "recording_decision"] EXCEPT !.pending = None]
    BY <1>2, <1>4, <1>6 DEF Documents
  <2>3. s.architect.adr = nextId
    BY <1>2, <1>6, <1>9 DEF Documents
  <2>4. [s EXCEPT !.adr = r, !.phase = "recording_decision"] = PrepareRecord(s)
    BY <1>1, <2>3 DEF PrepareRecord
  <2> QED
    BY <1>1, <1>2, <2>1, <2>2, <2>4 DEF ArchitectDecides
<1>14. ASSUME Control(t, "signal"), UNCHANGED <<disk, touched, session>>
       PROVE  IInv'
  <2>1. DocOK(t)
    BY <1>3, <1>5, <1>6, <1>7, <1>9, <1>10, ProposalMove
  <2>2. t.phase = "awaiting_input" /\ t.worktree = mem.worktree
    BY <1>3, <1>6 DEF Documents
  <2>3. OwnsAll(t, t.phase) /\ LiveOK(t, t.phase)
    BY <1>5, <1>11, <2>2, SameTask
  <2> QED
    BY <1>5, <1>7, <1>14, <2>1, <2>2, <2>3, QuietStep, Unchanged, ActivePhases
<1>15. ASSUME Transition(u)
       PROVE  IInv'
  <2>1. DocOK(u)
    BY <1>4, <1>5, <1>6, <1>7, <1>9, <1>12, DecidedMove
  <2>2. u.phase = "recording_decision" /\ u.worktree = mem.worktree
    BY <1>4, <1>6 DEF Documents
  <2> QED
    BY <1>5, <1>7, <1>11, <1>15, <2>1, <2>2, SameTaskStep, Unchanged, ActivePhases
<1>16. ASSUME Fail(s, "architecting", TRUE)
       PROVE  IInv'
  <2>1. s \in Documents /\ ContentOK(s, "architecting") /\ s.worktree = mem.worktree
    BY <1>2, <1>5, <1>6, <1>7, <1>9, DecidedFails
  <2>2. FailWith(s, mem.phase, TRUE, "opfail", session) /\ session \in Tasks \cup {None}
    BY <1>5, <1>16 DEF Fail, IInv, TypeOK
  <2>3. mem.phase \in RetryTargetPhases /\ mem.phase # "cleanup_branch"
    BY <1>5, ActivePhases
  <2> QED
    BY <1>5, <1>7, <2>1, <2>2, <2>3, QuietFail, Unchanged
<1> QED
  BY <1>13, <1>14, <1>15, <1>16

LEMMA RecordDecisionStep ==
  ASSUME IInv, RecordDecision
  PROVE  IInv'
<1>1. PICK e, r : /\ e = IF mem.decision = "planner" THEN "building" ELSE "planning"
                  /\ r = mem.adr
  OBVIOUS
<1>2. PICK s : s = [mem EXCEPT !.adr = None, !.decision = None, !.architectRetries = 0, !.phase = e]
  OBVIOUS
<1>3. /\ pc = "idle" /\ mem.phase = "recording_decision" /\ Transition(s)
      /\ UNCHANGED <<integ, branch, nextId, reviewed, approved>>
      /\ tree' = IF r \in tree.adrs THEN tree
                 ELSE [tree EXCEPT !.adrs = @ \cup {r}, !.untracked = @ \cup {r}]
  BY <1>1, <1>2 DEF RecordDecision
<1>4. /\ mem \in Documents /\ DocOK(mem) /\ ContentOK(mem, "recording_decision") /\ disk = mem
      /\ EffectivePhase(mem) = "recording_decision" /\ GitTyped /\ GitOK
  BY <1>3, AtWork, ActivePhases
<1>5. tree # None /\ mem.worktree # None /\ OwnsAll(mem, "recording_decision")
  BY <1>3, InTask, ActivePhases DEF CleanupPhases
<1>6. r \in Adrs
  BY <1>1, <1>4 DEF ContentOK, DecisionOK, Documents
<1>7. /\ DocOK(s) /\ s.phase = e /\ e \in {"building", "planning"} /\ s.worktree = mem.worktree
      /\ s.intent = mem.intent
  <2>1. e \in {"building", "planning"}
    BY <1>1
  <2>2. DocOK(s)
    BY <1>1, <1>2, <1>3, <1>4, RecordedMove
  <2>3. s.phase = e /\ s.worktree = mem.worktree /\ s.intent = mem.intent
    BY <1>2, <1>4 DEF Documents
  <2> QED
    BY <2>1, <2>2, <2>3
<1>8. tree' \in Trees /\ tree' # None /\ tree'.task = tree.task
      /\ IsFiniteSet(tree'.adrs) /\ tree'.untracked \subseteq tree'.adrs
  <2>1. /\ tree \in Trees /\ IsFiniteSet(tree.adrs) /\ tree.untracked \subseteq tree.adrs
        /\ IsFiniteSet(tree.adrs \cup {r})
    BY <1>4, <1>5, FS_AddElement DEF GitTyped, GitOK
  <2>2. CASE r \in tree.adrs
    BY <1>3, <1>5, <2>1, <2>2
  <2>3. CASE r \notin tree.adrs
    <3>1. tree' = [tree EXCEPT !.adrs = @ \cup {r}, !.untracked = @ \cup {r}]
      BY <1>3, <2>3
    <3>2. /\ tree' \in Trees /\ tree'.task = tree.task /\ tree'.adrs = tree.adrs \cup {r}
          /\ tree'.untracked = tree.untracked \cup {r}
      BY <1>6, <2>1, <3>1 DEF Trees
    <3> QED
      BY <2>1, <3>2, NullAssumption
  <2> QED
    BY <2>2, <2>3
<1>9. GitTyped'
  BY <1>3, <1>4, <1>8 DEF GitTyped
<1>10. GitOK'
  BY <1>3, <1>4, <1>5, <1>8 DEF GitOK, IntegrationAdrs
<1>11. disk' = disk /\ UNCHANGED touched /\ Control(s, "saving") /\ session' = session
  BY <1>3 DEF Transition, Surviving
<1>12. RestTyped'
  BY <1>3, <1>11 DEF RestTyped, IInv, TypeOK
<1>13. OwnsAll(s, s.phase)' /\ LiveOK(s, s.phase)'
  BY <1>3, <1>5, <1>7, <1>8 DEF OwnsAll, LiveOK, Owned
<1>14. OwnsAll(disk, EffectivePhase(disk))'
  BY <1>3, <1>4, <1>5, <1>11 DEF OwnsAll, Owned, EffectivePhase
<1> QED
  BY <1>3, <1>7, <1>9, <1>10, <1>11, <1>12, <1>13, <1>14, ActivePhases, TransitionStep

LEMMA RecordDecisionFailsStep ==
  ASSUME IInv, RecordDecisionFails
  PROVE  IInv'
<1>1. /\ pc = "idle" /\ mem.phase = "recording_decision" /\ Fail(mem, "recording_decision", TRUE)
      /\ UNCHANGED <<gitvars, nextId, reviewed, approved>>
  BY DEF RecordDecisionFails
<1>2. mem \in Documents /\ ContentOK(mem, mem.phase)
  BY <1>1, AtWork, ActivePhases
<1>3. FailWith(mem, mem.phase, TRUE, "opfail", session) /\ session \in Tasks \cup {None}
  BY <1>1 DEF Fail, IInv, TypeOK
<1> QED
  BY <1>1, <1>2, <1>3, QuietFail, Unchanged, ActivePhases

-----------------------------------------------------------------------------
(* Building and verifying *)

LEMMA BuilderReportsCompleteStep ==
  ASSUME IInv, BuilderReportsComplete
  PROVE  IInv'
<1>1. PICK commit \in {0, TaskHead} :
       LET s == [mem EXCEPT !.builder = [task |-> mem.planner.task, status |-> "COMPLETE",
                                         commit |-> commit]]
       IN  \/ Transition([s EXCEPT
                    !.lastHead = commit, !.pending = None, !.guidance = 0,
                    !.phase = IF VerifyConfigured THEN "verifying" ELSE "auditing"])
           \/ GitFails(s)
  BY DEF BuilderReportsComplete
<1>2. PICK b, e : /\ b = [task |-> mem.planner.task, status |-> "COMPLETE", commit |-> commit]
                  /\ e = IF VerifyConfigured THEN "verifying" ELSE "auditing"
  OBVIOUS
<1>3. PICK s : s = [mem EXCEPT !.builder = b, !.lastHead = commit, !.pending = None,
                               !.guidance = 0, !.phase = e]
  OBVIOUS
<1>4. PICK t : t = [mem EXCEPT !.builder = b]
  OBVIOUS
<1>5. pc = "agent" /\ mem.phase = "building" /\ UNCHANGED <<gitvars, nextId, reviewed, approved>>
  BY DEF BuilderReportsComplete
<1>6. Transition(s) \/ GitFails(t)
  BY <1>1, <1>2, <1>3, <1>4
<1>7. /\ mem \in Documents /\ DocOK(mem) /\ GitOK /\ TypeOK
  BY <1>5, AtWork, ActivePhases
<1>8. tree # None /\ mem.planner.task \in Tasks
  BY <1>5, InTask, ActivePhases DEF CleanupPhases
<1>9. commit \in Nat
  BY <1>7, <1>8, HeadTyped
<1>10. b \in Builders /\ b.task = mem.planner.task /\ b.status = "COMPLETE" /\ b.commit = commit
  BY <1>2, <1>8, <1>9 DEF Builders
<1>11. /\ e \in AllPhases /\ e \in RetryTargetPhases /\ e \in {"verifying", "auditing"}
       /\ (e = "verifying" /\ VerifyConfigured) \/ (e = "auditing" /\ ~VerifyConfigured)
  BY <1>2, ActivePhases
<1>12. /\ mem.phase \in RetryTargetPhases \ (CleanupPhases \cup {"creating_worktree"})
  BY <1>5, ActivePhases DEF CleanupPhases
<1>13. ASSUME Transition(s)
       PROVE  IInv'
  <2>1. DocOK(s)
    <3>1. DocOK(mem) /\ mem.phase = "building" /\ b \in Builders /\ b.status = "COMPLETE"
      BY <1>5, <1>7, <1>10
    <3>2. b.task = mem.planner.task /\ b.commit = commit /\ e \in AllPhases
      BY <1>10, <1>11
    <3>3. (e = "verifying" /\ VerifyConfigured) \/ (e = "auditing" /\ ~VerifyConfigured)
      BY <1>11
    <3> QED
      BY <1>3, <1>9, <3>1, <3>2, <3>3, CompleteMove, ZenonT(60)
  <2>2. s.phase = e /\ s.worktree = mem.worktree
    BY <1>3, <1>7 DEF Documents
  <2> QED
    BY <1>5, <1>11, <1>12, <1>13, <2>1, <2>2, SameTaskStep, Unchanged
<1>14. ASSUME GitFails(t)
       PROVE  IInv'
  <2>1. t \in Documents /\ ContentOK(t, "building") /\ t.worktree = mem.worktree
    BY <1>4, <1>5, <1>7, <1>10, CompleteFails
  <2> QED
    BY <1>5, <1>12, <1>14, <2>1, QuietGitFail, Unchanged
<1> QED
  BY <1>6, <1>13, <1>14

LEMMA BuilderReportsBlockedStep ==
  ASSUME IInv, BuilderReportsBlocked
  PROVE  IInv'
<1>1. PICK b, n, kind :
         /\ b = [task |-> mem.planner.task, status |-> "BLOCKED", commit |-> None]
         /\ n = mem.guidance + 1
         /\ kind = IF mem.guidance + 1 > MaxGuidance THEN "builder_escalation"
                                                     ELSE "builder_guidance"
  OBVIOUS
<1>2. PICK q : q = Ask(kind, "BLOCKED", None)
  OBVIOUS
<1>3. PICK s : s = [mem EXCEPT !.builder = b, !.guidance = n, !.pending = q,
                               !.phase = "awaiting_input"]
  OBVIOUS
<1>4. /\ pc = "agent" /\ mem.phase = "building" /\ Transition(s)
      /\ UNCHANGED <<gitvars, nextId, reviewed, approved>>
  BY <1>1, <1>2, <1>3 DEF BuilderReportsBlocked
<1>5. mem \in Documents /\ DocOK(mem) /\ mem.guidance \in Nat
  BY <1>4, AtWork, ActivePhases DEF Documents
<1>6. b \in Builders /\ b.task = mem.planner.task /\ b.status = "BLOCKED"
  BY <1>1, <1>4, InTask, ActivePhases DEF Builders
<1>7. n \in Nat
  BY <1>1, <1>5
<1>8. q \in Questions /\ q.kind \in BuilderKinds /\ q.about = "BLOCKED" /\ ~q.answered
  <2>1. kind \in QuestionKinds /\ kind \in BuilderKinds
    BY <1>1 DEF QuestionKinds, BuilderKinds
  <2> QED
    BY <1>2, <2>1 DEF Ask, Questions
<1>9. mem.phase \in RetryTargetPhases \ (CleanupPhases \cup {"creating_worktree"})
  BY <1>4, ActivePhases DEF CleanupPhases
<1>10. DocOK(s)
  BY <1>3, <1>4, <1>5, <1>6, <1>7, <1>8, BlockedMove
<1>11. s.phase = "awaiting_input" /\ s.worktree = mem.worktree
  BY <1>3, <1>5 DEF Documents
<1> QED
  BY <1>4, <1>9, <1>10, <1>11, SameTaskStep, Unchanged, ActivePhases

LEMMA VerifyStep ==
  ASSUME IInv, Verify
  PROVE  IInv'
<1>1. PICK h, s : h = TaskHead /\ s = [mem EXCEPT !.verification = h, !.phase = "auditing"]
  OBVIOUS
<1>2. /\ pc = "idle" /\ mem.phase = "verifying"
      /\ Transition(s) \/ GitFails(mem)
      /\ UNCHANGED <<gitvars, nextId, reviewed, approved>>
  BY <1>1 DEF Verify
<1>3. mem \in Documents /\ DocOK(mem) /\ GitOK /\ TypeOK
  BY <1>2, AtWork, ActivePhases
<1>4. mem.phase \in RetryTargetPhases \ (CleanupPhases \cup {"creating_worktree"}) /\ tree # None
  BY <1>2, ActivePhases, InTask DEF CleanupPhases
<1>5. h \in Nat
  BY <1>1, <1>3, <1>4, HeadTyped
<1>6. CASE Transition(s)
  <2>1. DocOK(s)
    BY <1>1, <1>2, <1>3, <1>5, VerifiedMove
  <2>2. s.phase = "auditing" /\ s.worktree = mem.worktree
    BY <1>1, <1>3 DEF Documents
  <2> QED
    BY <1>2, <1>4, <1>6, <2>1, <2>2, SameTaskStep, Unchanged, ActivePhases
<1> QED
  BY <1>2, <1>4, <1>6, PlainGitFail

-----------------------------------------------------------------------------
(* Auditing *)

LEMMA AuditorAcceptsStep ==
  ASSUME IInv, AuditorAccepts
  PROVE  IInv'
<1>1. PICK a, g, h : /\ a = [task |-> mem.planner.task, disposition |-> "ACCEPT", decision |-> FALSE]
                     /\ g = IntegrationHead /\ h = TaskHead
  OBVIOUS
<1>2. PICK s : s = [mem EXCEPT !.auditor = a]
  OBVIOUS
<1>3. PICK t : t = [mem EXCEPT !.auditor = a, !.mergePre = g, !.mergeTask = h, !.phase = "merging"]
  OBVIOUS
<1>4. /\ pc = "agent" /\ mem.phase = "auditing"
      /\ (Transition(t) /\ reviewed' = reviewed \cup {audited})
           \/ (GitFails(s) /\ reviewed' = reviewed)
      /\ UNCHANGED <<gitvars, nextId, approved>>
  BY <1>1, <1>2, <1>3 DEF AuditorAccepts, Verdict
<1>5. mem \in Documents /\ DocOK(mem) /\ GitOK /\ TypeOK
  BY <1>4, AtWork, ActivePhases
<1>6. /\ mem.phase \in RetryTargetPhases \ (CleanupPhases \cup {"creating_worktree"})
      /\ tree # None /\ mem.planner.task \in Tasks
  BY <1>4, ActivePhases, InTask DEF CleanupPhases
<1>7. g \in Nat /\ h \in Nat
  BY <1>1, <1>5, <1>6, HeadTyped, IntegrationTyped
<1>8. a \in Auditors /\ a.task = mem.planner.task /\ a.disposition = "ACCEPT"
  BY <1>1, <1>6 DEF Auditors
<1>9. reviewed' \subseteq Nat
  <2>1. audited \in Nat /\ reviewed \subseteq Nat
    BY <1>4 DEF IInv, ControlOK, TypeOK
  <2> QED
    BY <1>4, <2>1
<1>10. CASE Transition(t)
  <2>1. DocOK(t)
    BY <1>3, <1>4, <1>5, <1>7, <1>8, AcceptMove
  <2>2. t.phase = "merging" /\ t.worktree = mem.worktree
    BY <1>3, <1>5 DEF Documents
  <2> QED
    BY <1>4, <1>6, <1>9, <1>10, <2>1, <2>2, SameTaskStep, Unchanged, ActivePhases
<1>11. ASSUME GitFails(s), reviewed' = reviewed
       PROVE  IInv'
  <2>1. s \in Documents /\ ContentOK(s, "auditing") /\ s.worktree = mem.worktree
    BY <1>2, <1>4, <1>5, <1>8, AcceptFails
  <2> QED
    BY <1>4, <1>6, <1>11, <2>1, QuietGitFail, Unchanged
<1> QED
  BY <1>4, <1>10, <1>11

LEMMA AuditorRevisesStep ==
  ASSUME IInv, AuditorRevises
  PROVE  IInv'
<1>1. PICK a, n : /\ a = [task |-> mem.planner.task, disposition |-> "REVISE", decision |-> FALSE]
                  /\ n = mem.revisions + 1
  OBVIOUS
<1>2. PICK s : s = [mem EXCEPT !.auditor = a, !.revisions = n]
  OBVIOUS
<1>3. PICK t : t = [mem EXCEPT !.auditor = a, !.revisions = n, !.verification = None,
                               !.phase = "building"]
  OBVIOUS
<1>4. /\ pc = "agent" /\ mem.phase = "auditing"
      /\ UNCHANGED <<gitvars, nextId, reviewed, approved>>
  BY DEF AuditorRevises
<1>5. mem \in Documents /\ DocOK(mem) /\ ContentOK(mem, "auditing")
  BY <1>4, AtWork, ActivePhases
<1>6. IF n > MaxRevisions THEN Terminal(s) ELSE Transition(t)
  <2>1. s.revisions = n
    BY <1>2, <1>5 DEF Documents
  <2>2. s = [[mem EXCEPT !.auditor = a] EXCEPT !.revisions = @ + 1]
    BY <1>1, <1>2, <1>5 DEF Documents
  <2>3. t = [s EXCEPT !.verification = None, !.phase = "building"]
    BY <1>2, <1>3
  <2> QED
    BY <1>1, <2>1, <2>2, <2>3 DEF AuditorRevises, Verdict
<1>7. mem.revisions \in Nat /\ mem.revisions <= MaxRevisions
  <2>1. mem.revisions \in 0..(MaxRevisions + 1)
    BY <1>5 DEF Documents
  <2>2. mem.revisions <= MaxRevisions
    BY <1>5, ActivePhases DEF ContentOK, ProgressOK
  <2> QED
    BY <2>1, <2>2, Limits
<1>8. n \in 0..(MaxRevisions + 1)
  BY <1>1, <1>7, Limits
<1>9. a \in Auditors /\ a.task = mem.planner.task /\ a.disposition = "REVISE"
  BY <1>1, <1>4, InTask, ActivePhases DEF Auditors
<1>10. /\ mem.phase \in RetryTargetPhases \ (CleanupPhases \cup {"planning", "creating_worktree"})
       /\ mem.phase \in RetryTargetPhases \ (CleanupPhases \cup {"creating_worktree"})
  BY <1>4, ActivePhases DEF CleanupPhases
<1>11. CASE n > MaxRevisions
  <2>1. s \in Documents /\ EndedOK(s, "auditing") /\ s.worktree = mem.worktree
    BY <1>2, <1>4, <1>5, <1>8, <1>9, ReviseEnds
  <2> QED
    BY <1>4, <1>6, <1>10, <1>11, <2>1, SameTaskEnds
<1>12. CASE ~(n > MaxRevisions)
  <2>1. n <= MaxRevisions
    BY <1>1, <1>7, <1>12, Limits
  <2>2. DocOK(t)
    BY <1>3, <1>4, <1>5, <1>8, <1>9, <2>1, ReviseMove
  <2>3. t.phase = "building" /\ t.worktree = mem.worktree
    BY <1>3, <1>5 DEF Documents
  <2> QED
    BY <1>4, <1>6, <1>10, <1>12, <2>2, <2>3, SameTaskStep, Unchanged, ActivePhases
<1> QED
  BY <1>11, <1>12

(* The replans a task may still have *)
LEMMA CountReplan ==
  ASSUME NEW d \in Documents, NEW e \in RetryTargetPhases, ContentOK(d, e), NEW n,
         n = d.replans + 1
  PROVE  n \in 0..(MaxReplans + 1) /\ (~(n > MaxReplans) => n <= MaxReplans)
<1>1. d.replans \in 0..(MaxReplans + 1)
  BY DEF Documents
<1>2. d.replans <= MaxReplans
  BY DEF ContentOK, ProgressOK
<1> QED
  BY <1>1, <1>2, Limits

LEMMA AuditorReplansStep ==
  ASSUME IInv, AuditorReplans
  PROVE  IInv'
<1>1. PICK k \in BOOLEAN :
       LET s == [Verdict("REPLAN", k) EXCEPT !.replans = @ + 1]
       IN  IF s.replans > MaxReplans
             THEN Terminal(s)
             ELSE Transition([s EXCEPT
                    !.builder = None, !.verification = None,
                    !.decision = IF k THEN "auditor" ELSE @,
                    !.phase = IF k THEN "architecting" ELSE "planning"])
  BY DEF AuditorReplans
<1>2. PICK a, n, w : /\ a = [task |-> mem.planner.task, disposition |-> "REPLAN", decision |-> k]
                     /\ n = mem.replans + 1 /\ w = "auditor"
  OBVIOUS
<1>3. PICK s : s = [mem EXCEPT !.auditor = a, !.replans = n]
  OBVIOUS
<1>4. PICK t : t = [mem EXCEPT !.auditor = a, !.replans = n, !.builder = None,
                               !.verification = None, !.phase = "planning"]
  OBVIOUS
<1>5. PICK u : u = [mem EXCEPT !.auditor = a, !.replans = n, !.builder = None,
                               !.verification = None, !.decision = w, !.phase = "architecting"]
  OBVIOUS
<1>6. /\ pc = "agent" /\ mem.phase = "auditing"
      /\ UNCHANGED <<gitvars, nextId, reviewed, approved>>
  BY DEF AuditorReplans
<1>7. mem \in Documents /\ DocOK(mem) /\ ContentOK(mem, "auditing")
  BY <1>6, AtWork, ActivePhases
<1>8. IF n > MaxReplans THEN Terminal(s) ELSE IF k THEN Transition(u) ELSE Transition(t)
  <2>1. s = [Verdict("REPLAN", k) EXCEPT !.replans = @ + 1] /\ s.replans = n
    BY <1>2, <1>3, <1>7 DEF Documents, Verdict
  <2>2. k => u = [s EXCEPT !.builder = None, !.verification = None,
                           !.decision = IF k THEN "auditor" ELSE @,
                           !.phase = IF k THEN "architecting" ELSE "planning"]
    BY <1>2, <1>3, <1>5
  <2>3. ~k => t = [s EXCEPT !.builder = None, !.verification = None,
                            !.decision = IF k THEN "auditor" ELSE @,
                            !.phase = IF k THEN "architecting" ELSE "planning"]
    BY <1>3, <1>4, <1>7 DEF Documents
  <2> QED
    BY <1>1, <2>1, <2>2, <2>3
<1>9. n \in 0..(MaxReplans + 1) /\ (~(n > MaxReplans) => n <= MaxReplans)
  BY <1>2, <1>7, CountReplan, ActivePhases
<1>10. /\ a \in Auditors /\ a.task = mem.planner.task /\ a.disposition = "REPLAN"
       /\ a.decision = k
  BY <1>2, <1>6, InTask, ActivePhases DEF Auditors
<1>11. /\ mem.phase \in RetryTargetPhases \ (CleanupPhases \cup {"planning", "creating_worktree"})
       /\ mem.phase \in RetryTargetPhases \ (CleanupPhases \cup {"creating_worktree"})
  BY <1>6, ActivePhases DEF CleanupPhases
<1>12. CASE n > MaxReplans
  <2>1. s \in Documents /\ EndedOK(s, "auditing") /\ s.worktree = mem.worktree
    BY <1>3, <1>6, <1>7, <1>9, <1>10, ReplanEnds
  <2>2. Terminal(s)
    BY <1>8, <1>12
  <2> QED
    BY <1>6, <1>11, <2>1, <2>2, SameTaskEnds
<1>13. CASE ~(n > MaxReplans) /\ ~k
  <2>1. DocOK(t)
    BY <1>4, <1>6, <1>7, <1>9, <1>10, <1>13, ReplanMove
  <2>2. t.phase = "planning" /\ t.worktree = mem.worktree /\ Transition(t)
    BY <1>4, <1>7, <1>8, <1>13 DEF Documents
  <2> QED
    BY <1>6, <1>11, <2>1, <2>2, SameTaskStep, Unchanged, ActivePhases
<1>14. CASE ~(n > MaxReplans) /\ k
  <2>1. DocOK(u)
    BY <1>2, <1>5, <1>6, <1>7, <1>9, <1>10, <1>14, ReplanAskMove
  <2>2. u.phase = "architecting" /\ u.worktree = mem.worktree /\ Transition(u)
    BY <1>5, <1>7, <1>8, <1>14 DEF Documents
  <2> QED
    BY <1>6, <1>11, <2>1, <2>2, SameTaskStep, Unchanged, ActivePhases
<1> QED
  BY <1>12, <1>13, <1>14

-----------------------------------------------------------------------------
(* Merging and cleaning up *)

(* A commit added to the integration branch *)
LEMMA AppendGit ==
  ASSUME IInv, NEW e \in Entries, IsFiniteSet(e.adrs), integ' = Append(integ, e),
         nextId' = nextId + 1, UNCHANGED <<branch, tree>>
  PROVE  GitTyped' /\ GitOK'
<1>1. /\ integ \in Seq(Entries) /\ nextId \in Nat /\ tree \in Trees \cup {None}
      /\ branch \in [Tasks -> Branches \cup {None}] /\ GitOK
  BY DEF IInv, TypeOK
<1>2. integ' \in Seq(Entries) /\ integ' # <<>>
  BY <1>1
<1>3. \A i \in DOMAIN integ' : integ'[i] = e \/ (i \in DOMAIN integ /\ integ'[i] = integ[i])
  BY <1>1
<1>4. IsFiniteSet(IntegrationAdrs)'
  <2>1. IntegrationAdrs' \subseteq IntegrationAdrs \cup e.adrs
    BY <1>3 DEF IntegrationAdrs
  <2>2. IsFiniteSet(IntegrationAdrs \cup e.adrs)
    BY <1>1, FS_Union DEF GitOK
  <2> QED
    BY <2>1, <2>2, FS_Subset
<1>5. GitOK'
  BY <1>1, <1>2, <1>4 DEF GitOK
<1>6. nextId' \in Nat
  BY <1>1
<1> QED
  BY <1>1, <1>2, <1>5, <1>6 DEF GitTyped

LEMMA MergeGit ==
  ASSUME IInv, tree # None, NEW h \in Nat, nextId' = nextId + 1, UNCHANGED <<branch, tree>>,
         integ' = Append(integ, MergeEntry(nextId, h, branch[tree.task]))
  PROVE  GitTyped' /\ GitOK'
<1>1. tree \in Trees /\ nextId \in Nat /\ IsFiniteSet(tree.adrs) /\ TypeOK /\ GitOK
  BY DEF IInv, TypeOK, GitOK
<1>2. PICK e : e = MergeEntry(nextId, h, branch[tree.task])
  OBVIOUS
<1>3. Commits(branch[tree.task]) \subseteq Nat
  BY <1>1, HeadTyped DEF Commits, Branches
<1>4. tree.adrs \subseteq Adrs
  BY <1>1 DEF Trees
<1>5. e \in Entries /\ e.adrs = tree.adrs
  BY <1>1, <1>2, <1>3, <1>4 DEF MergeEntry, Entries
<1>6. integ' = Append(integ, e)
  BY <1>2
<1> QED
  BY <1>1, <1>5, <1>6, AppendGit

LEMMA InMerge ==
  ASSUME IInv, pc = "idle", mem.phase = "merging"
  PROVE  /\ mem \in Documents /\ DocOK(mem) /\ tree # None /\ mem.mergeTask \in Nat
         /\ mem.worktree # None /\ OwnsAll(mem, "merging") /\ disk = mem
         /\ mem.phase \in RetryTargetPhases \ (CleanupPhases \cup {"creating_worktree"})
         /\ EffectivePhase(mem) = "merging"
<1>1. /\ mem \in Documents /\ DocOK(mem) /\ ContentOK(mem, "merging") /\ disk = mem
      /\ EffectivePhase(mem) = "merging"
  BY AtWork, ActivePhases
<1>2. mem.mergeTask \in Nat
  BY <1>1, PhaseFacts DEF ContentOK, AuditorOK, Documents
<1> QED
  BY <1>1, <1>2, InTask, ActivePhases DEF CleanupPhases

LEMMA AdoptMergeStep ==
  ASSUME IInv, AdoptMerge
  PROVE  IInv'
<1>1. PICK i \in MergesOf(mem.mergePre, mem.mergeTask) : Merged(integ[i].id)
  BY DEF AdoptMerge
<1>2. PICK c, s : c = integ[i].id /\ s = [mem EXCEPT !.mergeCommit = c, !.phase = "cleanup_worktree"]
  OBVIOUS
<1>3. /\ pc = "idle" /\ mem.phase = "merging" /\ Transition(s)
      /\ UNCHANGED <<gitvars, nextId, reviewed, approved>>
  BY <1>1, <1>2 DEF AdoptMerge, Merged
<1>4. c \in Nat
  <2>1. i \in DOMAIN integ
    BY DEF MergesOf
  <2>2. integ[i] \in Entries
    BY <2>1 DEF IInv, TypeOK
  <2> QED
    BY <1>2, <2>2 DEF Entries
<1>5. DocOK(s)
  BY <1>2, <1>3, <1>4, InMerge, MergedMove
<1>6. s.phase = "cleanup_worktree" /\ s.worktree = mem.worktree
  BY <1>2, <1>3, InMerge DEF Documents
<1> QED
  BY <1>3, <1>5, <1>6, InMerge, SameTaskStep, Unchanged, ActivePhases

LEMMA MergeStep ==
  ASSUME IInv, Merge
  PROVE  IInv'
<1>1. PICK c, s : c = nextId /\ s = [mem EXCEPT !.mergeCommit = c, !.phase = "cleanup_worktree"]
  OBVIOUS
<1>2. /\ pc = "idle" /\ mem.phase = "merging" /\ Transition(s)
      /\ integ' = Append(integ, MergeEntry(nextId, mem.mergeTask, branch[tree.task]))
      /\ nextId' = nextId + 1 /\ UNCHANGED <<branch, tree, reviewed, approved>>
  BY <1>1 DEF Merge, Merged
<1>3. GitTyped' /\ GitOK'
  BY <1>2, InMerge, MergeGit
<1>4. c \in Nat
  BY <1>1 DEF IInv, TypeOK
<1>5. DocOK(s)
  BY <1>1, <1>2, <1>4, InMerge, MergedMove
<1>6. s.phase = "cleanup_worktree" /\ s.worktree = mem.worktree
  BY <1>1, <1>2, InMerge DEF Documents
<1>7. /\ mem.worktree # None /\ OwnsAll(mem, "merging") /\ disk = mem
      /\ EffectivePhase(mem) = "merging"
  BY <1>2, InMerge
<1>8. disk' = disk /\ UNCHANGED touched /\ Control(s, "saving") /\ session' = session
  BY <1>2 DEF Transition, Surviving
<1>9. OwnsAll(s, s.phase)' /\ LiveOK(s, s.phase)'
  BY <1>2, <1>6, <1>7 DEF OwnsAll, LiveOK, Owned, CleanupPhases
<1>10. OwnsAll(disk, EffectivePhase(disk))'
  BY <1>2, <1>7, <1>8 DEF OwnsAll, Owned, EffectivePhase
<1>11. RestTyped'
  BY <1>2, <1>8 DEF RestTyped, IInv, TypeOK
<1> QED
  BY <1>2, <1>3, <1>5, <1>6, <1>8, <1>9, <1>10, <1>11, ActivePhases, TransitionStep

LEMMA MergeFailsStep ==
  ASSUME IInv, MergeFails
  PROVE  IInv'
  BY PlainGitFail, ActivePhases DEF MergeFails

LEMMA MergeConflictsStep ==
  ASSUME IInv, MergeConflicts
  PROVE  IInv'
<1>1. /\ pc = "idle" /\ mem.phase = "merging" /\ Fail(mem, "merging", TRUE)
      /\ UNCHANGED <<gitvars, nextId, reviewed, approved>>
  BY DEF MergeConflicts
<1>2. mem \in Documents /\ ContentOK(mem, mem.phase)
  BY <1>1, AtWork, ActivePhases
<1>3. FailWith(mem, mem.phase, TRUE, "opfail", session) /\ session \in Tasks \cup {None}
  BY <1>1 DEF Fail, IInv, TypeOK
<1> QED
  BY <1>1, <1>2, <1>3, QuietFail, Unchanged, ActivePhases

LEMMA CleanupWorktreeStep ==
  ASSUME IInv, CleanupWorktree
  PROVE  IInv'
<1>1. PICK s : s = [mem EXCEPT !.phase = "cleanup_branch"]
  OBVIOUS
<1>2. /\ pc \in {"validated", "inspected"} /\ mem.phase = "cleanup_worktree"
      /\ Transition(s) /\ tree' = None
      /\ UNCHANGED <<integ, branch, nextId, reviewed, approved>>
  BY <1>1 DEF CleanupWorktree, WorktreeGoes, IInv, ControlOK
<1>3. /\ mem \in Documents /\ DocOK(mem) /\ disk = mem /\ GitTyped /\ GitOK /\ mem # None
      /\ EffectivePhase(mem) = "cleanup_worktree"
  BY <1>2, AtWork, ActivePhases
<1>4. mem.worktree # None /\ OwnsAll(mem, "cleanup_worktree")
  BY <1>2, InTask, ActivePhases
<1>5. mem.expectedHead # None
  BY <1>3, <1>4 DEF IInv, DiskOK, CheckedOK
<1>6. DocOK(s)
  BY <1>1, <1>2, <1>3, RemovedMove
<1>7. s.phase = "cleanup_branch" /\ s.worktree = mem.worktree /\ s.expectedHead = mem.expectedHead
  BY <1>1, <1>3 DEF Documents
<1>8. GitTyped' /\ GitOK'
  BY <1>2, <1>3 DEF GitTyped, GitOK, IntegrationAdrs
<1>9. disk' = disk /\ UNCHANGED touched /\ Control(s, "saving") /\ session' = session
  BY <1>2 DEF Transition, Surviving
<1>10. OwnsAll(s, s.phase)' /\ LiveOK(s, s.phase)'
  BY <1>2, <1>4, <1>5, <1>7 DEF OwnsAll, LiveOK, Owned, CleanupPhases
<1>11. OwnsAll(disk, EffectivePhase(disk))'
  BY <1>2, <1>3, <1>4, <1>9 DEF OwnsAll, Owned, EffectivePhase
<1>12. RestTyped'
  BY <1>2, <1>9 DEF RestTyped, IInv, TypeOK
<1> QED
  BY <1>2, <1>6, <1>7, <1>8, <1>9, <1>10, <1>11, <1>12, ActivePhases, TransitionStep

LEMMA CleanupWorktreeFailsStep ==
  ASSUME IInv, CleanupWorktreeFails
  PROVE  IInv'
<1>1. pc \in BetweenSaves /\ mem.phase = "cleanup_worktree"
  BY DEF CleanupWorktreeFails, IInv, ControlOK
<1> QED
  BY <1>1, PlainGitFail, ActivePhases DEF CleanupWorktreeFails

LEMMA CleanupBranchStep ==
  ASSUME IInv, CleanupBranch
  PROVE  IInv'
<1>1. PICK s, w : s = Finished(mem) /\ w = mem.worktree
  OBVIOUS
<1>2. /\ pc = "idle" /\ mem.phase = "cleanup_branch" /\ Transition(s)
      /\ branch' = [branch EXCEPT ![w.task] = None]
      /\ UNCHANGED <<integ, tree, nextId, reviewed, approved>>
  BY <1>1 DEF CleanupBranch
<1>3. /\ mem \in Documents /\ DocOK(mem) /\ disk = mem /\ GitTyped /\ GitOK /\ mem # None
      /\ EffectivePhase(mem) = "cleanup_branch" /\ tree = None
  BY <1>2, AtWork, ActivePhases DEF LiveOK
<1>4. w # None /\ OwnsAll(mem, "cleanup_branch")
  BY <1>1, <1>2, InTask, ActivePhases
<1>5. \A t \in Tasks : branch'[t] = None
  BY <1>1, <1>2, <1>3, <1>4 DEF OwnsAll, Owned, GitTyped
<1>6. GitTyped' /\ GitOK'
  BY <1>2, <1>3 DEF GitTyped, GitOK, IntegrationAdrs
<1>7. DocOK(s) /\ s.phase = "planning" /\ s.worktree = None
  BY <1>1, <1>2, <1>3, FinishedMove
<1>8. disk' = disk /\ UNCHANGED touched /\ Control(s, "saving") /\ session' = session
  BY <1>2 DEF Transition, Surviving
<1>9. OwnsAll(s, s.phase)' /\ LiveOK(s, s.phase)'
  BY <1>5, <1>7 DEF OwnsAll, LiveOK, Owned
<1>10. OwnsAll(disk, EffectivePhase(disk))'
  BY <1>5 DEF OwnsAll
<1>11. RestTyped'
  BY <1>2, <1>8 DEF RestTyped, IInv, TypeOK
<1> QED
  BY <1>2, <1>6, <1>7, <1>8, <1>9, <1>10, <1>11, ActivePhases, TransitionStep

LEMMA CleanupBranchFailsStep ==
  ASSUME IInv, CleanupBranchFails
  PROVE  IInv'
  BY PlainGitFail, ActivePhases DEF CleanupBranchFails

-----------------------------------------------------------------------------
(* The operator's answers *)

LEMMA InQuestion ==
  ASSUME IInv, Asked
  PROVE  /\ pc = "idle" /\ mem.phase = "awaiting_input" /\ mem \in Documents /\ DocOK(mem)
         /\ ContentOK(mem, "awaiting_input") /\ mem.pending \in Questions
         /\ mem.phase \in RetryTargetPhases \ (CleanupPhases \cup {"planning", "creating_worktree"})
         /\ mem.phase \in RetryTargetPhases \ (CleanupPhases \cup {"creating_worktree"})
         /\ tree # None
<1>1. pc = "idle" /\ mem.phase = "awaiting_input"
  BY DEF Asked
<1>2. mem \in Documents /\ DocOK(mem) /\ ContentOK(mem, "awaiting_input")
  BY <1>1, AtWork, ActivePhases
<1>3. mem.pending \in Questions
  BY <1>2 DEF Documents, ContentOK, PendingOK
<1> QED
  BY <1>1, <1>2, <1>3, ActivePhases, InTask DEF CleanupPhases

LEMMA ReplanFromInputStep ==
  ASSUME IInv, Asked, ReplanFromInput, UNCHANGED <<gitvars, nextId, reviewed, approved>>
  PROVE  IInv'
<1>1. PICK n : n = mem.replans + 1
  OBVIOUS
<1>2. PICK s : s = [mem EXCEPT !.replans = n, !.pending = None]
  OBVIOUS
<1>3. PICK t : t = [mem EXCEPT !.replans = n, !.pending = None, !.builder = None,
                               !.verification = None, !.phase = "planning"]
  OBVIOUS
<1>4. IF n > MaxReplans THEN Terminal(s) ELSE Transition(t)
  <2>1. s.replans = n
    BY <1>2, InQuestion DEF Documents
  <2>2. t = [s EXCEPT !.builder = None, !.verification = None, !.phase = "planning"]
    BY <1>2, <1>3
  <2> QED
    BY <1>1, <1>2, <2>1, <2>2 DEF ReplanFromInput
<1>5. n \in 0..(MaxReplans + 1) /\ (~(n > MaxReplans) => n <= MaxReplans)
  BY <1>1, InQuestion, CountReplan, ActivePhases
<1>6. CASE n > MaxReplans
  <2>1. s \in Documents /\ EndedOK(s, "awaiting_input") /\ s.worktree = mem.worktree
    BY <1>2, <1>5, InQuestion, ReplanAnswerEnds
  <2> QED
    BY <1>4, <1>6, <2>1, InQuestion, SameTaskEnds
<1>7. CASE ~(n > MaxReplans)
  <2>1. DocOK(t)
    BY <1>3, <1>5, <1>7, InQuestion, ReplanAnswerMove
  <2>2. t.phase = "planning" /\ t.worktree = mem.worktree
    BY <1>3, InQuestion DEF Documents
  <2> QED
    BY <1>4, <1>7, <2>1, <2>2, InQuestion, SameTaskStep, Unchanged, ActivePhases
<1> QED
  BY <1>6, <1>7

(* the question with the operator's answer *)
LEMMA Answering ==
  ASSUME NEW q \in Questions, NEW a, a = [q EXCEPT !.answered = TRUE]
  PROVE  /\ a \in Questions /\ a.kind = q.kind /\ a.about = q.about /\ a.adr = q.adr
         /\ a.answered
  BY DEF Questions

LEMMA AnswerGuidanceStep ==
  ASSUME IInv, AnswerGuidance
  PROVE  IInv'
<1>1. PICK q : q = [mem.pending EXCEPT !.answered = TRUE]
  OBVIOUS
<1>2. PICK s : s = [mem EXCEPT !.pending = q, !.phase = "building"]
  OBVIOUS
<1>3. /\ Asked /\ mem.pending.kind = "builder_guidance"
      /\ UNCHANGED <<gitvars, nextId, reviewed, approved>>
  BY DEF AnswerGuidance
<1>4. s = [mem EXCEPT !.pending.answered = TRUE, !.phase = "building"]
  BY <1>1, <1>2
<1>5. ReplanFromInput \/ Transition(s)
  BY <1>4 DEF AnswerGuidance
<1>6. CASE Transition(s)
  <2>1. /\ q \in Questions /\ q.kind = mem.pending.kind /\ q.about = mem.pending.about
        /\ q.adr = mem.pending.adr /\ q.answered
    BY <1>1, <1>3, InQuestion, Answering
  <2>2. DocOK(s)
    BY <1>2, <1>3, <2>1, InQuestion, GuidanceMove
  <2>3. s.phase = "building" /\ s.worktree = mem.worktree
    BY <1>2, <1>3, InQuestion DEF Documents
  <2> QED
    BY <1>3, <1>6, <2>2, <2>3, InQuestion, SameTaskStep, Unchanged, ActivePhases
<1> QED
  BY <1>3, <1>5, <1>6, ReplanFromInputStep

LEMMA AnswerEscalationStep ==
  ASSUME IInv, AnswerEscalation
  PROVE  IInv'
<1>1. PICK s : s = [mem EXCEPT !.pending = None]
  OBVIOUS
<1>2. Asked /\ UNCHANGED <<gitvars, nextId, reviewed, approved>>
  BY DEF AnswerEscalation
<1>3. ReplanFromInput \/ Terminal(s) \/ Transition(mem)
  BY <1>1 DEF AnswerEscalation
<1>4. CASE Terminal(s)
  <2>1. s \in Documents /\ EndedOK(s, "awaiting_input") /\ s.worktree = mem.worktree
    BY <1>1, <1>2, InQuestion, AbandonEnds
  <2> QED
    BY <1>2, <1>4, <2>1, InQuestion, SameTaskEnds
<1>5. CASE Transition(mem)
  <2>1. PICK d : d = mem
    OBVIOUS
  <2>2. Transition(d) /\ DocOK(d) /\ d.worktree = mem.worktree /\ d.phase = "awaiting_input"
    BY <1>2, <1>5, <2>1, InQuestion
  <2> QED
    BY <1>2, <2>2, InQuestion, SameTaskStep, Unchanged, ActivePhases
<1> QED
  BY <1>2, <1>3, <1>4, <1>5, ReplanFromInputStep

LEMMA AnswerArchitectStep ==
  ASSUME IInv, AnswerArchitect
  PROVE  IInv'
<1>1. PICK q : q = [mem.pending EXCEPT !.answered = TRUE]
  OBVIOUS
<1>2. PICK s : s = [mem EXCEPT !.pending = q, !.phase = "architecting"]
  OBVIOUS
<1>3. s = [mem EXCEPT !.pending.answered = TRUE, !.phase = "architecting"]
  BY <1>1, <1>2
<1>4. /\ Asked /\ mem.pending.kind = "architect_input" /\ Transition(s)
      /\ UNCHANGED <<gitvars, nextId, reviewed, approved>>
  BY <1>3 DEF AnswerArchitect
<1>5. /\ q \in Questions /\ q.kind = mem.pending.kind /\ q.about = mem.pending.about
      /\ q.adr = mem.pending.adr /\ q.answered
  BY <1>1, <1>4, InQuestion, Answering
<1>6. DocOK(s)
  BY <1>2, <1>4, <1>5, InQuestion, AdviceMove
<1>7. s.phase = "architecting" /\ s.worktree = mem.worktree
  BY <1>2, <1>4, InQuestion DEF Documents
<1> QED
  BY <1>4, <1>6, <1>7, InQuestion, SameTaskStep, Unchanged, ActivePhases

LEMMA AnswerApprovalStep ==
  ASSUME IInv, AnswerApproval
  PROVE  IInv'
<1>1. PICK r, q, p : /\ r = [number |-> NextAdrNumber, content |-> mem.architect.adr]
                     /\ q = [mem.pending EXCEPT !.answered = TRUE]
                     /\ p = Ask("architect_input", mem.decision, None)
  OBVIOUS
<1>2. PICK s : s = [mem EXCEPT !.adr = r, !.phase = "recording_decision", !.pending = None]
  OBVIOUS
<1>3. PICK t : t = [mem EXCEPT !.pending = q]
  OBVIOUS
<1>4. PICK u : u = [mem EXCEPT !.pending = p]
  OBVIOUS
<1>5. /\ Asked /\ mem.pending.kind = "decision_approval" /\ UNCHANGED <<gitvars, nextId, reviewed>>
  BY DEF AnswerApproval
<1>6. /\ mem \in Documents /\ mem.architect # None /\ mem.architect.status = "DECIDED"
      /\ mem.architect.adr \in Nat /\ mem.decision \in {"planner", "auditor"}
  <2>1. mem \in Documents /\ ContentOK(mem, "awaiting_input")
    BY <1>5, InQuestion
  <2>2. mem.pending.kind \in ArchitectKinds
    BY <1>5 DEF ArchitectKinds
  <2>3. mem.architect # None /\ mem.architect.status = "DECIDED"
    BY <1>5, <2>1, <2>2 DEF ContentOK, PendingOK
  <2>4. mem.architect.adr # None
    BY <2>1, <2>3 DEF ContentOK, DecisionOK
  <2>5. mem.architect.adr \in Nat
    BY <2>1, <2>3, <2>4 DEF Documents, Architects
  <2>6. mem.decision \in {"planner", "auditor"}
    BY <2>1, <2>2 DEF Documents, ContentOK, DecisionOK, DecisionRelationshipsOK, ArchitectAsked
  <2> QED
    BY <2>1, <2>3, <2>5, <2>6
<1>7. r \in Adrs
  BY <1>1, <1>5, <1>6, InQuestion, Preparing
<1>8. s = [PrepareRecord(mem) EXCEPT !.pending = None]
  BY <1>1, <1>2 DEF PrepareRecord
<1>9. t = [mem EXCEPT !.pending.answered = TRUE]
  BY <1>1, <1>3
<1>10. \/ approved' = approved \cup {mem.architect.adr} /\ Transition(s)
       \/ approved' = approved \cup {mem.architect.adr} /\ Fail(t, "awaiting_input", TRUE)
       \/ approved' = approved /\ Transition(u)
  BY <1>1, <1>4, <1>8, <1>9 DEF AnswerApproval
<1>11. approved' \subseteq Nat
  BY <1>6, <1>10 DEF IInv, TypeOK
<1>12. ASSUME Transition(s)
       PROVE  IInv'
  <2>1. DocOK(s)
    BY <1>2, <1>5, <1>7, InQuestion, ApprovalMove
  <2>2. s.phase = "recording_decision" /\ s.worktree = mem.worktree
    BY <1>2, <1>6 DEF Documents
  <2> QED
    BY <1>5, <1>11, <1>12, <2>1, <2>2, InQuestion, SameTaskStep, Unchanged, ActivePhases
<1>13. ASSUME Fail(t, "awaiting_input", TRUE)
       PROVE  IInv'
  <2>1. /\ q \in Questions /\ q.kind = mem.pending.kind /\ q.about = mem.pending.about
        /\ q.adr = mem.pending.adr /\ q.answered
    BY <1>1, <1>5, InQuestion, Answering
  <2>2. t \in Documents /\ ContentOK(t, "awaiting_input") /\ t.worktree = mem.worktree
    BY <1>3, <1>5, <2>1, InQuestion, ApprovalFails
  <2>3. FailWith(t, mem.phase, TRUE, "opfail", session) /\ session \in Tasks \cup {None}
    BY <1>5, <1>13, InQuestion DEF Fail, IInv, TypeOK
  <2>4. pc = "idle" /\ mem.phase = "awaiting_input" /\ mem.phase \in RetryTargetPhases
    BY <1>5, InQuestion
  <2> QED
    BY <1>5, <1>11, <2>2, <2>3, <2>4, QuietFail, Unchanged
<1>14. ASSUME Transition(u)
       PROVE  IInv'
  <2>1. p \in Questions /\ p.kind = "architect_input" /\ p.about = mem.decision
    <3>1. mem.decision \in {"BLOCKED", "planner", "auditor", None}
      BY <1>6
    <3>2. "architect_input" \in QuestionKinds /\ None \in Nat \cup {None}
      BY DEF QuestionKinds
    <3>3. p = Ask("architect_input", mem.decision, None)
      BY <1>1
    <3> QED
      BY <3>1, <3>2, <3>3 DEF Ask, Questions
  <2>2. DocOK(u)
    BY <1>4, <1>5, <2>1, InQuestion, RefusalMove
  <2>3. u.phase = "awaiting_input" /\ u.worktree = mem.worktree
    BY <1>4, <1>5, InQuestion DEF Documents
  <2> QED
    BY <1>5, <1>11, <1>14, <2>2, <2>3, InQuestion, SameTaskStep, Unchanged, ActivePhases
<1> QED
  BY <1>10, <1>12, <1>13, <1>14

(* Saving a document as it is and returning to the caller *)
LEMMA InputUnavailableStep ==
  ASSUME IInv, InputUnavailable
  PROVE  IInv'
<1>1. PICK d : d = mem
  OBVIOUS
<1>2. /\ Asked /\ UNCHANGED <<gitvars, nextId, reviewed, approved>>
      /\ (Persist(d, "down") /\ Surviving("down")) \/ GitFails(mem)
  BY <1>1 DEF InputUnavailable
<1>3. ASSUME Persist(d, "down"), Surviving("down")
      PROVE  IInv'
  <2>1. /\ DocOK(d) /\ EffectivePhase(d) = "awaiting_input" /\ OwnsAll(d, "awaiting_input")
        /\ tree # None /\ TypeOK
    BY <1>1, <1>2, InQuestion, AtWork, ActivePhases
  <2>2. ~CheckpointFails(d)
    BY <2>1 DEF CheckpointFails
  <2>3. OwnsAll(d, EffectivePhase(d))'
    BY <1>2, <2>1 DEF OwnsAll, Owned, gitvars, EffectivePhase
  <2>4. GitTyped' /\ GitOK' /\ RestTyped'
    BY <1>2, <1>3, Unchanged DEF GitTyped, RestTyped, Surviving, IInv, TypeOK
  <2> QED
    BY <1>3, <2>1, <2>2, <2>3, <2>4, PersistStep
<1> QED
  BY <1>2, <1>3, InQuestion, PlainGitFail, ActivePhases

-----------------------------------------------------------------------------
(* Starting, resuming and ending a process *)

LEMMA StartRunStep ==
  ASSUME IInv, StartRun
  PROVE  IInv'
<1>1. PICK s : s = NewRun(IntegrationHead)
  OBVIOUS
<1>2. /\ pc = "down" /\ disk = None /\ Persist(s, "starting")
      /\ UNCHANGED <<gitvars, nextId, session, reviewed, approved>>
  BY <1>1 DEF StartRun
<1>3. DocOK(s) /\ s.phase = "planning" /\ s.worktree = None
  BY <1>1, IntegrationTyped, NewRunMove DEF IInv
<1>4. EffectivePhase(s) = "planning"
  BY <1>3 DEF EffectivePhase
<1>5. ~CheckpointFails(s)
  BY <1>3 DEF CheckpointFails
<1>6. \A t \in Tasks : branch[t] = None
  BY <1>2 DEF IInv, ControlOK
<1>7. OwnsAll(s, EffectivePhase(s))'
  BY <1>2, <1>6 DEF OwnsAll, gitvars
<1>8. GitTyped' /\ GitOK' /\ RestTyped'
  BY <1>2, Unchanged DEF GitTyped, RestTyped, IInv, TypeOK
<1> QED
  BY <1>2, <1>3, <1>4, <1>5, <1>7, <1>8, ActivePhases, PersistStep

(* _validate_resume lets a run go on only where its worktree is. *)
LEMMA ValidLive ==
  ASSUME IInv, disk # None, disk.phase \notin TerminalPhases, ValidateResume(disk)
  PROVE  LiveOK(disk, EffectivePhase(disk)) /\ EffectivePhase(disk) \in RetryTargetPhases
<1> DEFINE e == EffectivePhase(disk)
<1>1. DocOK(disk) /\ CheckedOK(disk, e)
  BY DEF IInv, DiskOK
<1>2. e \in RetryTargetPhases /\ ContentOK(disk, e)
  BY <1>1, EffectiveActive DEF DocOK
<1>3. disk.worktree # None /\ e \notin CleanupPhases => tree # None
  BY DEF ValidateResume, TaskWorktreeValid, CleanupPhases
<1>4. e = "cleanup_branch" => disk.worktree # None
  BY <1>2 DEF ContentOK, TaskOK, TaskPhases
<1>5. e = "cleanup_branch" => tree = None /\ disk.expectedHead # None
  BY <1>1, <1>4 DEF ValidateResume, CheckedOK
<1> QED
  BY <1>2, <1>3, <1>5, PhaseFacts DEF LiveOK

LEMMA ResumeRunStep ==
  ASSUME IInv, ResumeRun
  PROVE  IInv'
<1>1. PICK d : d = disk
  OBVIOUS
<1>2. /\ d # None /\ d.phase \notin TerminalPhases /\ ValidateResume(d)
      /\ mem' = d /\ pc' = "starting" /\ disk' = d /\ from' = from /\ audited' = audited
      /\ UNCHANGED <<gitvars, nextId, session, reviewed, approved, touched>>
  BY <1>1 DEF ResumeRun, Resumable, ghosts
<1>3. LiveOK(d, EffectivePhase(d)) /\ EffectivePhase(d) \in RetryTargetPhases
  BY <1>1, <1>2, ValidLive
<1>4. /\ DocOK(d) /\ CheckedOK(d, EffectivePhase(d)) /\ OwnsAll(d, EffectivePhase(d))
  BY <1>1, <1>2 DEF IInv, DiskOK
<1>5. LiveOK(d, EffectivePhase(d))' /\ OwnsAll(d, EffectivePhase(d))'
  BY <1>2, <1>3, <1>4 DEF LiveOK, OwnsAll, gitvars
<1>6. TypeOK'
  BY <1>1, <1>2 DEF IInv, TypeOK, gitvars
<1>7. GitOK'
  BY <1>2, Unchanged
<1>8. DiskOK' /\ MemOK'
  BY <1>2, <1>3, <1>4, <1>5 DEF DiskOK, MemOK
<1>9. ControlOK'
  BY <1>2 DEF ControlOK
<1> QED
  BY <1>6, <1>7, <1>8, <1>9 DEF IInv

(* A process goes on with the document it has saved. *)
LEMMA StayStep ==
  ASSUME IInv, pc \in {"starting", "idle", "validated"},
         NEW next \in {"idle", "agent", "validated", "inspected"}, Control(mem, next),
         UNCHANGED <<disk, gitvars, nextId, session, reviewed, approved, touched>>,
         next = "agent" => /\ mem.phase \in {"planning", "architecting", "building", "auditing"}
                           /\ mem.phase = "planning" => mem.accepted < MaxAccepted
                           /\ mem.phase = "auditing" => tree # None,
         next \in {"validated", "inspected"} => mem.phase = "cleanup_worktree"
  PROVE  IInv'
<1>1. PICK d, h : d = mem /\ h = IF next = "agent" /\ tree # None THEN TaskHead ELSE None
  OBVIOUS
<1>2. /\ mem' = d /\ disk' = d /\ pc' = next /\ from' = None /\ audited' = h
      /\ mem = d /\ disk = d
  BY <1>1 DEF Control, IInv, ControlOK
<1>3. /\ DocOK(d) /\ OwnsAll(d, EffectivePhase(d)) /\ LiveOK(d, EffectivePhase(d))
      /\ EffectivePhase(d) \in RetryTargetPhases
  BY <1>1 DEF IInv, MemOK, Ending
<1>4. d \in Documents /\ d # None
  BY <1>3, NullAssumption DEF DocOK
<1>5. h \in Nat \cup {None} /\ (next = "agent" /\ tree # None => h # None)
  BY <1>1, HeadTyped, NullAssumption DEF IInv
<1>6. TypeOK'
  BY <1>2, <1>4, <1>5 DEF IInv, TypeOK, gitvars
<1>7. GitOK'
  BY Unchanged
<1>8. LiveOK(d, EffectivePhase(d))' /\ OwnsAll(d, EffectivePhase(d))'
  BY <1>3 DEF LiveOK, OwnsAll, gitvars
<1>9. CheckedOK(d, EffectivePhase(d))
  BY <1>2, <1>4 DEF IInv, DiskOK
<1>10. DiskOK' /\ MemOK'
  BY <1>2, <1>3, <1>8, <1>9 DEF DiskOK, MemOK
<1>11. ControlOK'
  BY <1>1, <1>2, <1>4, <1>5 DEF ControlOK
<1> QED
  BY <1>6, <1>7, <1>10, <1>11 DEF IInv

LEMMA ServerStartsStep ==
  ASSUME IInv, ServerStarts
  PROVE  IInv'
  BY StayStep DEF ServerStarts

LEMMA ValidateCleanupStep ==
  ASSUME IInv, ValidateCleanup
  PROVE  IInv'
  BY StayStep DEF ValidateCleanup

LEMMA InspectWorktreeStep ==
  ASSUME IInv, InspectWorktree
  PROVE  IInv'
<1>1. mem.phase = "cleanup_worktree"
  BY DEF InspectWorktree, IInv, ControlOK
<1> QED
  BY <1>1, StayStep DEF InspectWorktree

LEMMA InvokeStep ==
  ASSUME IInv, Invoke
  PROVE  IInv'
<1>1. /\ pc = "idle" /\ mem.phase \in {"planning", "architecting", "building", "auditing"}
      /\ ~AtLimit /\ Control(mem, "agent")
      /\ UNCHANGED <<disk, gitvars, nextId, session, reviewed, approved, touched>>
  BY DEF Invoke
<1>2. mem.accepted \in Nat /\ MaxAccepted \in Nat
  BY <1>1, AtWork, Limits DEF Documents
<1>3. mem.phase = "planning" => mem.accepted < MaxAccepted
  BY <1>1, <1>2 DEF AtLimit
<1>4. mem.phase = "auditing" => tree # None
  BY <1>1, InTask, ActivePhases DEF CleanupPhases
<1> QED
  BY <1>1, <1>3, <1>4, StayStep

LEMMA StartupFailsStep ==
  ASSUME IInv, StartupFails
  PROVE  IInv'
<1>1. PICK d, e : d = mem /\ e = EffectivePhase(mem)
  OBVIOUS
<1>2. /\ pc = "starting" /\ FailWith(d, e, FALSE, "down", None)
      /\ UNCHANGED <<gitvars, nextId, reviewed, approved>>
  BY <1>1 DEF StartupFails
<1>3. /\ DocOK(d) /\ OwnsAll(d, e) /\ LiveOK(d, e) /\ e \in RetryTargetPhases /\ disk = d
  BY <1>1, <1>2 DEF IInv, MemOK, ControlOK, Ending
<1>4. d \in Documents /\ ContentOK(d, e) /\ d # None /\ EffectivePhase(d) = e
  BY <1>1, <1>3, NullAssumption DEF DocOK
<1>5. /\ OwnsAll(d, e)' /\ \A t \in Tasks : branch'[t] # None => t \in Owned(disk, EffectivePhase(disk))
  BY <1>2, <1>3, <1>4 DEF OwnsAll, gitvars
<1>6. e = "cleanup_branch" => d.expectedHead # None /\ tree' = None
  BY <1>2, <1>3 DEF LiveOK, gitvars
<1>7. GitTyped' /\ GitOK' /\ approved' \subseteq Nat /\ (tree # None => tree' # None)
  BY <1>2, Unchanged DEF GitTyped, IInv, TypeOK, gitvars
<1> QED
  BY <1>2, <1>3, <1>4, <1>5, <1>6, <1>7, FailStep

(* A process may end at any point without a word. *)
LEMMA QuietDeath ==
  ASSUME IInv, Die, pc # "down", UNCHANGED <<gitvars, nextId, reviewed, approved>>
  PROVE  IInv'
<1>1. disk # None /\ disk' = disk
  BY DEF IInv, ControlOK, Die
<1>2. OwnsAll(disk, EffectivePhase(disk))
  BY <1>1 DEF IInv, DiskOK
<1>3. OwnsAll(disk, EffectivePhase(disk))'
  BY <1>1, <1>2 DEF OwnsAll, gitvars
<1>4. GitTyped' /\ GitOK' /\ RestTyped'
  BY Unchanged DEF GitTyped, RestTyped, Die, Surviving, IInv, TypeOK
<1> QED
  BY <1>1, <1>3, <1>4, DieStep

LEMMA CrashStep ==
  ASSUME IInv, Crash
  PROVE  IInv'
  BY QuietDeath DEF Crash

LEMMA SaveEscapesStep ==
  ASSUME IInv, SaveEscapes
  PROVE  IInv'
  BY QuietDeath DEF SaveEscapes

-----------------------------------------------------------------------------
(* Saving and retrying *)

(* What is saved after a transition, and where the run then stands *)
LEMMA Saved ==
  ASSUME IInv, pc \in {"saving", "signal"}
  PROVE  \E n \in 0..MaxOpRetries :
           /\ AfterReset = [mem EXCEPT !.opRetries = n]
           /\ DocOK(AfterReset) /\ AfterReset.phase = mem.phase
           /\ EffectivePhase(AfterReset) = mem.phase /\ EffectivePhase(mem) = mem.phase
           /\ AfterReset.worktree = mem.worktree /\ AfterReset.intent = mem.intent
           /\ AfterReset.expectedHead = mem.expectedHead
           /\ mem.phase \in RetryTargetPhases \/ (mem.phase = "done" /\ from = "planning")
<1>1. DocOK(mem) /\ mem.phase # "operational_failure"
  BY DEF IInv, MemOK, ControlOK
<1>2. mem \in Documents /\ EffectivePhase(mem) = mem.phase
  BY <1>1 DEF DocOK, EffectivePhase
<1>3. mem.phase \in RetryTargetPhases \/ (mem.phase = "done" /\ from = "planning")
  BY <1>2 DEF IInv, MemOK, Ending
<1>4. PICK n \in 0..MaxOpRetries : n = IF from = "operational_failure" THEN mem.opRetries ELSE 0
  BY <1>2, Zeros DEF Documents
<1>5. AfterReset = [mem EXCEPT !.opRetries = n]
  BY <1>4 DEF AfterReset
<1> QED
  BY <1>1, <1>2, <1>3, <1>5, CountMove

LEMMA SaveStep ==
  ASSUME IInv, Save
  PROVE  IInv'
<1>1. PICK s, p : s = AfterReset /\ p = mem.phase
  OBVIOUS
<1>2. PICK next : next = IF p \in TerminalPhases THEN "down" ELSE "idle"
  OBVIOUS
<1>3. /\ pc \in {"saving", "signal"}
      /\ IF CheckpointFails(s) THEN Die ELSE Persist(s, next) /\ Surviving(next)
      /\ UNCHANGED <<gitvars, nextId, reviewed, approved>>
  BY <1>1, <1>2 DEF Save
<1>4. /\ DocOK(s) /\ EffectivePhase(s) = p /\ s.worktree = mem.worktree /\ s.intent = mem.intent
      /\ s.expectedHead = mem.expectedHead
      /\ p \in RetryTargetPhases \/ p = "done"
      /\ EffectivePhase(mem) = p
  BY <1>1, <1>3, Saved
<1>5. OwnsAll(mem, p) /\ LiveOK(mem, p)
  BY <1>3, <1>4 DEF IInv, MemOK
<1>6. CASE CheckpointFails(s)
  BY <1>3, <1>6, QuietDeath
<1>7. CASE ~CheckpointFails(s)
  <2>1. Persist(s, next) /\ Surviving(next)
    BY <1>3, <1>7
  <2>2. Owned(s, p) = Owned(mem, p)
    BY <1>4 DEF Owned
  <2>3. OwnsAll(s, EffectivePhase(s))'
    BY <1>3, <1>4, <1>5, <2>2 DEF OwnsAll, gitvars
  <2>4. GitTyped' /\ GitOK' /\ RestTyped'
    BY <1>3, <2>1, Unchanged DEF GitTyped, RestTyped, Surviving, IInv, TypeOK
  <2>5. next \in {"idle", "down"} /\ (next # "down" => p \in RetryTargetPhases)
    BY <1>2, <1>4 DEF TerminalPhases
  <2>6. /\ s.worktree # None /\ p \notin CleanupPhases => tree' # None
        /\ p = "cleanup_branch" => s.expectedHead # None /\ tree' = None
    BY <1>3, <1>4, <1>5 DEF LiveOK, gitvars
  <2> QED
    BY <1>4, <1>7, <2>1, <2>3, <2>4, <2>5, <2>6, PersistStep
<1> QED
  BY <1>6, <1>7

(* A failing save is classified against the phase entered, or, when that   *)
(* one is terminal, against the one left.                                  *)
LEMMA SaveFailsStep ==
  ASSUME IInv, SaveFails
  PROVE  IInv'
<1>1. PICK s, p : s = AfterReset /\ p = mem.phase
  OBVIOUS
<1>2. PICK failed : failed = IF p \in TerminalPhases THEN from ELSE p
  OBVIOUS
<1>3. PICK r : r = GitRepair(failed)
  OBVIOUS
<1>4. /\ pc = "saving" /\ FailWith(s, failed, r, "opfail", session)
      /\ UNCHANGED <<gitvars, nextId, reviewed, approved>>
  BY <1>1, <1>2, <1>3 DEF SaveFails, Fail
<1>5. /\ DocOK(s) /\ EffectivePhase(s) = p /\ s.worktree = mem.worktree /\ s.intent = mem.intent
      /\ s.expectedHead = mem.expectedHead
      /\ p \in RetryTargetPhases \/ (p = "done" /\ from = "planning")
      /\ EffectivePhase(mem) = p
  BY <1>1, <1>4, Saved
<1>6. OwnsAll(mem, p) /\ LiveOK(mem, p) /\ mem \in Documents
  BY <1>4, <1>5 DEF IInv, MemOK, DocOK
<1>7. \/ failed = p /\ p \in RetryTargetPhases
      \/ failed = "planning" /\ p = "done"
  BY <1>2, <1>5, PhaseFacts DEF TerminalPhases
<1>8. failed \in RetryTargetPhases /\ s \in Documents
  BY <1>5, <1>7, ActivePhases DEF DocOK
<1>9. ContentOK(s, failed)
  <2>1. CASE failed = p
    BY <1>5, <2>1 DEF DocOK
  <2>2. CASE failed = "planning" /\ p = "done"
    <3>1. ContentOK(mem, "planning")
      BY <1>6, <2>2 DEF LiveOK
    <3>2. PICK n \in 0..MaxOpRetries : s = [mem EXCEPT !.opRetries = n]
      BY <1>1, <1>4, Saved
    <3>3. SameBut(mem, s, {"phase", "error", "snapshot", "expectedHead", "integrationHead",
                           "opRetries"})
      BY <1>6, <3>2 DEF Documents, SameBut, Fields
    <3> QED
      BY <1>6, <2>2, <3>1, <3>3, ContentKept
  <2> QED
    BY <1>7, <2>1, <2>2
<1>10. Owned(s, failed) = Owned(mem, p)
  BY <1>5, <1>7 DEF Owned
<1>11. OwnsAll(s, failed)'
  BY <1>4, <1>6, <1>10 DEF OwnsAll, gitvars
<1>12. /\ failed = "cleanup_branch" => s.expectedHead # None /\ tree' = None
       /\ tree # None => tree' # None
  BY <1>4, <1>5, <1>6, <1>7 DEF LiveOK, gitvars
<1>13. r \in BOOLEAN /\ session \in Tasks \cup {None} /\ pc # "down"
  BY <1>3, <1>4 DEF GitRepair, IInv, TypeOK
<1>14. ASSUME failed = "cleanup_worktree"
       PROVE  r
  BY <1>3, <1>14 DEF GitRepair
<1>15. disk # None /\ OwnsAll(disk, EffectivePhase(disk))
  BY <1>4 DEF IInv, ControlOK, DiskOK
<1>16. \A t \in Tasks : branch'[t] # None => t \in Owned(disk, EffectivePhase(disk))
  BY <1>4, <1>15 DEF OwnsAll, gitvars
<1>17. GitTyped' /\ GitOK' /\ approved' \subseteq Nat /\ reviewed' = reviewed
  BY <1>4, Unchanged DEF GitTyped
<1> QED
  BY <1>4, <1>8, <1>9, <1>11, <1>12, <1>13, <1>14, <1>15, <1>16, <1>17, FailStep

(* run() counts an unattended retry and saves the count. *)
LEMMA AutoRetryStep ==
  ASSUME IInv, AutoRetry
  PROVE  IInv'
<1>1. PICK n, e : n = mem.opRetries + 1 /\ e = EffectivePhase(mem)
  OBVIOUS
<1>2. PICK s : s = [mem EXCEPT !.opRetries = n]
  OBVIOUS
<1>3. /\ pc = "opfail" /\ UNCHANGED <<gitvars, nextId, reviewed, approved>>
      /\ \/ /\ ~mem.error.repair /\ mem.opRetries < MaxOpRetries
            /\ Persist(s, "idle") /\ session' = session
         \/ Die
  BY <1>1, <1>2 DEF AutoRetry
<1>4. CASE Die
  BY <1>3, <1>4, QuietDeath
<1>5. ASSUME ~mem.error.repair, mem.opRetries < MaxOpRetries, Persist(s, "idle"),
             session' = session
      PROVE  IInv'
  <2>1. /\ DocOK(mem) /\ OwnsAll(mem, e) /\ LiveOK(mem, e) /\ e \in RetryTargetPhases
        /\ mem \in Documents
    BY <1>1, <1>3 DEF IInv, MemOK, Ending, DocOK
  <2>2. n \in 0..MaxOpRetries
    <3>1. mem.opRetries \in Nat /\ MaxOpRetries \in Nat
      BY <2>1, Limits DEF Documents
    <3> QED
      BY <1>1, <1>5, <3>1
  <2>3. /\ DocOK(s) /\ EffectivePhase(s) = e /\ s.worktree = mem.worktree
        /\ s.intent = mem.intent /\ s.expectedHead = mem.expectedHead
    BY <1>1, <1>2, <2>1, <2>2, CountMove
  <2>4. e # "cleanup_worktree"
    BY <1>1, <1>3, <1>5 DEF IInv, ControlOK, EffectivePhase
  <2>5. ~CheckpointFails(s)
    BY <2>1, <2>3, <2>4 DEF CheckpointFails, LiveOK, CleanupPhases
  <2>6. OwnsAll(s, EffectivePhase(s))'
    BY <1>3, <2>1, <2>3 DEF OwnsAll, Owned, gitvars
  <2>7. GitTyped' /\ GitOK' /\ RestTyped'
    BY <1>3, <1>5, Unchanged DEF GitTyped, RestTyped, IInv, TypeOK
  <2>8. /\ s.worktree # None /\ e \notin CleanupPhases => tree' # None
        /\ e = "cleanup_branch" => s.expectedHead # None /\ tree' = None
    BY <1>3, <2>1, <2>3 DEF LiveOK, gitvars
  <2> QED
    BY <1>5, <2>1, <2>3, <2>5, <2>6, <2>7, <2>8, PersistStep
<1> QED
  BY <1>3, <1>4, <1>5

LEMMA RetryOperationalFailureStep ==
  ASSUME IInv, RetryOperationalFailure
  PROVE  IInv'
<1>1. PICK e : e = mem.error.failed
  OBVIOUS
<1>2. PICK s : s = [mem EXCEPT !.error = None, !.phase = e]
  OBVIOUS
<1>3. /\ pc = "idle" /\ mem.phase = "operational_failure" /\ Transition(s)
      /\ UNCHANGED <<gitvars, nextId, reviewed, approved>>
  BY <1>1, <1>2 DEF RetryOperationalFailure
<1>4. /\ DocOK(mem) /\ mem \in Documents /\ OwnsAll(mem, EffectivePhase(mem))
      /\ LiveOK(mem, EffectivePhase(mem))
  BY <1>3, AtWork
<1>5. /\ DocOK(s) /\ s.phase = e /\ EffectivePhase(mem) = e /\ e \in RetryTargetPhases
      /\ s.worktree = mem.worktree /\ s.intent = mem.intent
  BY <1>1, <1>2, <1>3, <1>4, RetriedMove
<1>6. s.expectedHead = mem.expectedHead
  BY <1>2, <1>4 DEF Documents
<1>7. OwnsAll(s, s.phase) /\ LiveOK(s, s.phase) /\ s.phase # "done"
  BY <1>4, <1>5, <1>6, PhaseFacts DEF OwnsAll, LiveOK, Owned
<1> QED
  BY <1>3, <1>5, <1>7, QuietStep, Unchanged DEF Transition, Surviving

LEMMA AgentFailsStep ==
  ASSUME IInv, AgentFails
  PROVE  IInv'
<1>1. PICK leftover \in {session} \cup
          (IF "leftover" \in Faults /\ mem.phase = "building" THEN {tree.task} ELSE {}) :
        FailWith(mem, mem.phase, FALSE, "opfail", leftover)
  BY DEF AgentFails
<1>2. pc = "agent" /\ UNCHANGED <<gitvars, nextId, reviewed, approved>>
  BY DEF AgentFails
<1>3. mem.phase \in {"planning", "architecting", "building", "auditing"}
  BY <1>2 DEF IInv, ControlOK
<1>4. mem.phase \in RetryTargetPhases
  BY <1>3, ActivePhases
<1>5. mem.phase = "building" => tree.task \in Tasks
  BY <1>2, InTask, HeadTyped, ActivePhases DEF CleanupPhases, IInv
<1>6. leftover \in Tasks \cup {None}
  BY <1>1, <1>5 DEF IInv, TypeOK
<1>7. mem \in Documents /\ ContentOK(mem, mem.phase)
  BY <1>2, <1>4, AtWork
<1> QED
  BY <1>1, <1>2, <1>3, <1>4, <1>6, <1>7, QuietFail, Unchanged

-----------------------------------------------------------------------------
(* What agents and the operator do to the repository *)

(* A step of Git that no process takes part in *)
LEMMA GitStep ==
  ASSUME IInv, UNCHANGED <<process, session, audited, reviewed, approved>>, touched' \in BOOLEAN,
         GitTyped', GitOK', tree' # None => tree # None, pc # "down" /\ tree # None => tree' # None,
         \A t \in Tasks : branch'[t] # None => branch[t] # None
  PROVE  IInv'
<1>1. PICK m, d : m = mem /\ d = disk
  OBVIOUS
<1>2. /\ mem' = m /\ disk' = d /\ pc' = pc /\ from' = from /\ audited' = audited
      /\ session' = session /\ reviewed' = reviewed /\ approved' = approved
  BY <1>1 DEF process
<1>3. TypeOK'
  BY <1>1, <1>2 DEF IInv, TypeOK, GitTyped
<1>4. DiskOK'
  BY <1>1, <1>2 DEF IInv, DiskOK, OwnsAll
<1>5. ASSUME pc # "down"
      PROVE  /\ DocOK(m) /\ OwnsAll(m, EffectivePhase(m))' /\ LiveOK(m, EffectivePhase(m))'
             /\ EffectivePhase(m) \in RetryTargetPhases \/ Ending'
  <2>1. /\ DocOK(m) /\ OwnsAll(m, EffectivePhase(m)) /\ LiveOK(m, EffectivePhase(m))
        /\ EffectivePhase(m) \in RetryTargetPhases \/ Ending
    BY <1>1, <1>5 DEF IInv, MemOK
  <2>2. OwnsAll(m, EffectivePhase(m))' /\ LiveOK(m, EffectivePhase(m))'
    BY <1>5, <2>1 DEF OwnsAll, LiveOK
  <2>3. Ending => Ending'
    BY <1>1, <1>2 DEF Ending
  <2> QED
    BY <2>1, <2>2, <2>3
<1>6. MemOK'
  BY <1>2, <1>5 DEF MemOK
<1>7. ControlOK'
  BY <1>1, <1>2 DEF IInv, ControlOK
<1> QED
  BY <1>3, <1>4, <1>6, <1>7 DEF IInv

(* Work in the task worktree by a builder, or by a session left behind *)
LEMMA WorkStep ==
  ASSUME IInv, NEW t, WorkOn(t)
  PROVE  IInv'
<1>1. /\ tree # None /\ tree.task = t /\ touched' = TRUE
      /\ UNCHANGED <<process, integ, session, audited, reviewed, approved>>
      /\ \/ /\ nextId' = nextId + 1
            /\ branch' = [branch EXCEPT ![t].log = Append(@, nextId)]
            /\ tree' = [tree EXCEPT !.edited = FALSE, !.untracked = {}]
         \/ /\ tree' = [tree EXCEPT !.edited = TRUE]
            /\ UNCHANGED <<branch, nextId>>
  BY DEF WorkOn
<1>2. /\ t \in Tasks /\ branch[t] \in Branches /\ tree \in Trees /\ GitTyped /\ GitOK
      /\ IsFiniteSet(tree.adrs) /\ tree.untracked \subseteq tree.adrs
      /\ branch[t] # None /\ nextId \in Nat
  BY <1>1, HeadTyped DEF IInv, TypeOK, GitTyped, GitOK
<1>3. /\ tree' \in Trees /\ tree'.task = t /\ tree'.adrs = tree.adrs
      /\ tree'.untracked \subseteq tree'.adrs
  BY <1>1, <1>2 DEF Trees
<1>4. tree' # None
  BY <1>3, NullAssumption
<1>5. /\ branch' \in [Tasks -> Branches \cup {None}] /\ nextId' \in Nat
      /\ branch'[t] # None
      /\ \A x \in Tasks : branch'[x] # None => branch[x] # None
  <2>1. CASE nextId' = nextId + 1 /\ branch' = [branch EXCEPT ![t].log = Append(@, nextId)]
    <3>1. PICK b : b = [branch[t] EXCEPT !.log = Append(branch[t].log, nextId)]
      OBVIOUS
    <3>2. b \in Branches
      <4>1. branch[t].log \in Seq(Nat) /\ branch[t].base \in Nat
        BY <1>2 DEF Branches
      <4>2. Append(branch[t].log, nextId) \in Seq(Nat)
        BY <1>2, <4>1
      <4>3. b = [base |-> branch[t].base, log |-> Append(branch[t].log, nextId)]
        BY <1>2, <3>1 DEF Branches
      <4> QED
        BY <4>1, <4>2, <4>3 DEF Branches
    <3>3. branch' = [branch EXCEPT ![t] = b] /\ b # None
      BY <2>1, <3>1, <3>2, NullAssumption
    <3>4. branch \in [Tasks -> Branches \cup {None}]
      BY <1>2 DEF GitTyped
    <3>5. nextId' \in Nat
      BY <1>2, <2>1
    <3> QED
      BY <1>2, <3>2, <3>3, <3>4, <3>5
  <2>2. CASE UNCHANGED <<branch, nextId>>
    BY <1>2, <2>2 DEF GitTyped
  <2> QED
    BY <1>1, <2>1, <2>2
<1>6. integ' = integ
  BY <1>1
<1>7. GitTyped' /\ GitOK'
  BY <1>2, <1>3, <1>5, <1>6 DEF GitTyped, GitOK, IntegrationAdrs
<1> QED
  BY <1>1, <1>4, <1>5, <1>7, GitStep

LEMMA OperatorCommitsStep ==
  ASSUME IInv, OperatorCommits
  PROVE  IInv'
<1>1. PICK e : e = [id |-> nextId, second |-> None, brings |-> {}, adrs |-> {}]
  OBVIOUS
<1>2. /\ nextId' = nextId + 1 /\ integ' = Append(integ, e)
      /\ UNCHANGED <<process, branch, tree, session, ghosts>>
  BY <1>1 DEF OperatorCommits
<1>3. e \in Entries /\ IsFiniteSet(e.adrs)
  BY <1>1, FS_EmptySet DEF Entries, IInv, TypeOK
<1>4. GitTyped' /\ GitOK'
  BY <1>2, <1>3, AppendGit
<1>5. touched' \in BOOLEAN /\ UNCHANGED <<audited, reviewed, approved>>
  BY <1>2 DEF ghosts, IInv, TypeOK
<1> QED
  BY <1>2, <1>4, <1>5, GitStep

LEMMA OperatorMergesStep ==
  ASSUME IInv, OperatorMerges
  PROVE  IInv'
<1>1. PICK h : h = disk.mergeTask
  OBVIOUS
<1>2. /\ tree # None /\ TaskHead = h
      /\ integ' = Append(integ, MergeEntry(nextId, h, branch[tree.task]))
      /\ nextId' = nextId + 1
      /\ UNCHANGED <<process, branch, tree, session, ghosts>>
  BY <1>1 DEF OperatorMerges
<1>3. h \in Nat
  BY <1>2, HeadTyped DEF IInv
<1>4. GitTyped' /\ GitOK'
  BY <1>2, <1>3, MergeGit
<1>5. touched' \in BOOLEAN /\ UNCHANGED <<audited, reviewed, approved>>
  BY <1>2 DEF ghosts, IInv, TypeOK
<1> QED
  BY <1>2, <1>4, <1>5, GitStep

LEMMA OperatorRestoresStep ==
  ASSUME IInv, OperatorRestores
  PROVE  IInv'
<1>1. PICK snap, t, log : snap = disk.snapshot /\ t = tree.task /\ log = branch[t].log
  OBVIOUS
<1>2. PICK n \in 0..Len(log) :
        branch' = [branch EXCEPT ![t] = [branch[t] EXCEPT !.log = SubSeq(@, 1, n)]]
  BY <1>1 DEF OperatorRestores
<1>3. /\ tree # None /\ disk.snapshot # None
      /\ tree' = [tree EXCEPT !.edited = snap.edited, !.untracked = snap.untracked,
                              !.adrs = (tree.adrs \ tree.untracked) \cup snap.untracked]
      /\ touched' = FALSE
      /\ UNCHANGED <<process, integ, nextId, session, audited, reviewed, approved>>
  BY <1>1 DEF OperatorRestores
<1>4. /\ t \in Tasks /\ branch[t] \in Branches /\ tree \in Trees /\ GitTyped /\ GitOK
      /\ IsFiniteSet(tree.adrs) /\ branch[t] # None
  BY <1>1, <1>3, HeadTyped DEF IInv, TypeOK, GitTyped, GitOK
<1>5. snap \in Snapshots /\ IsFiniteSet(snap.untracked)
  <2>1. disk # None
    BY <1>3 DEF IInv, ControlOK
  <2>2. disk \in Documents /\ CheckedOK(disk, EffectivePhase(disk))
    BY <2>1 DEF IInv, DiskOK, DocOK
  <2> QED
    BY <1>1, <1>3, <2>2 DEF Documents, CheckedOK
<1>6. PICK adrs : adrs = (tree.adrs \ tree.untracked) \cup snap.untracked
  OBVIOUS
<1>7. IsFiniteSet(adrs) /\ adrs \subseteq Adrs /\ snap.untracked \subseteq adrs
  <2>1. IsFiniteSet(tree.adrs \ tree.untracked)
    BY <1>4, FS_Subset
  <2>2. IsFiniteSet(adrs)
    BY <1>5, <1>6, <2>1, FS_Union
  <2> QED
    BY <1>4, <1>5, <1>6, <2>2 DEF Trees, Snapshots
<1>8. tree' \in Trees /\ tree'.task = t /\ tree'.adrs = adrs /\ tree'.untracked = snap.untracked
  BY <1>1, <1>3, <1>4, <1>5, <1>6, <1>7 DEF Trees, Snapshots
<1>9. PICK b : b = [branch[t] EXCEPT !.log = SubSeq(log, 1, n)]
  OBVIOUS
<1>10. b \in Branches /\ b # None
  <2>1. log \in Seq(Nat)
    BY <1>1, <1>4 DEF Branches
  <2>2. \A i \in 1..n : log[i] \in Nat
    BY <1>2, <2>1
  <2>3. SubSeq(log, 1, n) \in Seq(Nat)
    BY <1>2, <2>1, <2>2, SubSeqProperties
  <2>4. b \in Branches
    BY <1>4, <1>9, <2>3 DEF Branches
  <2> QED
    BY <2>4, NullAssumption
<1>11. branch' = [branch EXCEPT ![t] = b]
  BY <1>1, <1>2, <1>9
<1>12. /\ branch' \in [Tasks -> Branches \cup {None}] /\ branch'[t] # None
       /\ \A x \in Tasks : branch'[x] # None => branch[x] # None
  BY <1>4, <1>10, <1>11 DEF GitTyped
<1>13. GitTyped' /\ GitOK'
  BY <1>3, <1>4, <1>7, <1>8, <1>12 DEF GitTyped, GitOK, IntegrationAdrs
<1>14. tree' # None
  BY <1>8, NullAssumption
<1> QED
  BY <1>3, <1>12, <1>13, <1>14, GitStep

LEMMA OperatorCleansStep ==
  ASSUME IInv, OperatorCleans
  PROVE  IInv'
<1>1. /\ tree # None /\ touched' = TRUE
      /\ tree' = [tree EXCEPT !.edited = FALSE, !.adrs = @ \ tree.untracked, !.untracked = {}]
      /\ UNCHANGED <<process, integ, branch, nextId, session, audited, reviewed, approved>>
  BY DEF OperatorCleans
<1>2. /\ tree \in Trees /\ GitTyped /\ GitOK /\ IsFiniteSet(tree.adrs) /\ branch[tree.task] # None
  BY <1>1 DEF IInv, TypeOK, GitTyped, GitOK
<1>3. /\ tree' \in Trees /\ tree'.task = tree.task /\ tree'.untracked = {}
      /\ tree'.adrs \subseteq tree.adrs
  BY <1>1, <1>2 DEF Trees
<1>4. IsFiniteSet(tree'.adrs)
  BY <1>2, <1>3, FS_Subset
<1>5. GitTyped' /\ GitOK'
  BY <1>1, <1>2, <1>3, <1>4 DEF GitTyped, GitOK, IntegrationAdrs
<1>6. tree' # None
  BY <1>3, NullAssumption
<1> QED
  BY <1>1, <1>5, <1>6, GitStep

LEMMA OperatorRemovesStep ==
  ASSUME IInv, OperatorRemoves
  PROVE  IInv'
<1>1. /\ pc = "down" /\ tree' = None /\ touched' = TRUE
      /\ UNCHANGED <<process, integ, branch, nextId, session, audited, reviewed, approved>>
  BY DEF OperatorRemoves
<1>2. GitTyped' /\ GitOK'
  BY <1>1 DEF IInv, TypeOK, GitTyped, GitOK, IntegrationAdrs
<1> QED
  BY <1>1, <1>2, GitStep

-----------------------------------------------------------------------------
(* The invariant *)

LEMMA InitInvariant ==
  ASSUME Init
  PROVE  IInv
<1>1. PICK e : e = [id |-> 0, second |-> None, brings |-> {}, adrs |-> {}]
  OBVIOUS
<1>2. e \in Entries /\ e.adrs = {}
  BY <1>1 DEF Entries
<1>3. integ = <<e>>
  BY <1>1 DEF Init
<1>4. integ \in Seq(Entries) /\ integ # <<>>
  BY <1>2, <1>3
<1>5. IntegrationAdrs = {}
  BY <1>2, <1>3 DEF IntegrationAdrs
<1>6. branch \in [Tasks -> Branches \cup {None}]
  BY DEF Init
<1>7. TypeOK
  BY <1>4, <1>6 DEF Init, TypeOK
<1>8. GitOK
  BY <1>4, <1>5, FS_EmptySet DEF Init, GitOK
<1> QED
  BY <1>7, <1>8 DEF Init, IInv, DiskOK, MemOK, ControlOK

LEMMA NextInvariant ==
  ASSUME IInv, Next
  PROVE  IInv'
<1>1. CASE StartRun \/ ResumeRun
  BY <1>1, StartRunStep, ResumeRunStep
<1>2. CASE ServerStarts \/ StartupFails \/ InputUnavailable
  BY <1>2, ServerStartsStep, StartupFailsStep, InputUnavailableStep
<1>3. CASE Dispatch
  <2>1. CASE RetryOperationalFailure \/ Invoke \/ ReachLimit
    BY <2>1, RetryOperationalFailureStep, InvokeStep, ReachLimitStep
  <2>2. CASE CreateWorktree \/ ProvisioningFails \/ CreateWorktreeFails
    BY <2>2, CreateWorktreeStep, ProvisioningFailsStep, CreateWorktreeFailsStep
  <2>3. CASE RecordDecision \/ RecordDecisionFails \/ Verify
    BY <2>3, RecordDecisionStep, RecordDecisionFailsStep, VerifyStep
  <2>4. CASE AdoptMerge \/ Merge \/ MergeFails \/ MergeConflicts
    BY <2>4, AdoptMergeStep, MergeStep, MergeFailsStep, MergeConflictsStep
  <2>5. CASE \/ ValidateCleanup \/ InspectWorktree \/ CleanupWorktree \/ CleanupWorktreeFails
              \/ CleanupBranch \/ CleanupBranchFails
    BY <2>5, ValidateCleanupStep, InspectWorktreeStep, CleanupWorktreeStep,
       CleanupWorktreeFailsStep, CleanupBranchStep, CleanupBranchFailsStep
  <2> QED
    BY <1>3, <2>1, <2>2, <2>3, <2>4, <2>5 DEF Dispatch
<1>4. CASE AgentReturns
  <2>1. CASE AgentFails \/ PlannerComplete \/ PlannerReady
    BY <2>1, AgentFailsStep, PlannerCompleteStep, PlannerReadyStep
  <2>2. CASE ArchitectNeedsInput \/ ArchitectDecides
    BY <2>2, ArchitectNeedsInputStep, ArchitectDecidesStep
  <2>3. CASE BuilderReportsComplete \/ BuilderReportsBlocked
    BY <2>3, BuilderReportsCompleteStep, BuilderReportsBlockedStep
  <2>4. CASE AuditorAccepts \/ AuditorRevises \/ AuditorReplans
    BY <2>4, AuditorAcceptsStep, AuditorRevisesStep, AuditorReplansStep
  <2> QED
    BY <1>4, <2>1, <2>2, <2>3, <2>4 DEF AgentReturns
<1>5. CASE Saving
  BY <1>5, SaveStep, SaveFailsStep, SaveEscapesStep, AutoRetryStep DEF Saving
<1>6. CASE Answered
  BY <1>6, AnswerGuidanceStep, AnswerEscalationStep, AnswerArchitectStep, AnswerApprovalStep
     DEF Answered
<1>7. CASE Environment
  <2>1. CASE Crash
    BY <2>1, CrashStep
  <2>2. CASE BuilderWorks \/ LeftoverSessionWorks
    BY <2>2, WorkStep DEF BuilderWorks, LeftoverSessionWorks
  <2>3. CASE OperatorCommits \/ OperatorMerges \/ OperatorRestores \/ OperatorCleans
               \/ OperatorRemoves
    BY <2>3, OperatorCommitsStep, OperatorMergesStep, OperatorRestoresStep, OperatorCleansStep,
       OperatorRemovesStep
  <2> QED
    BY <1>7, <2>1, <2>2, <2>3 DEF Environment
<1> QED
  BY <1>1, <1>2, <1>3, <1>4, <1>5, <1>6, <1>7 DEF Next, Supervise

LEMMA StutterInvariant ==
  ASSUME IInv, UNCHANGED vars
  PROVE  IInv'
<1>1. /\ UNCHANGED <<process, session, audited, reviewed, approved>>
      /\ UNCHANGED <<gitvars, nextId, touched>>
  BY DEF vars, ghosts
<1>2. GitTyped' /\ GitOK' /\ touched' \in BOOLEAN
  BY <1>1, Unchanged DEF GitTyped, IInv, TypeOK
<1>3. tree' = tree /\ branch' = branch
  BY <1>1 DEF gitvars
<1> QED
  BY <1>1, <1>2, <1>3, GitStep

(* The documents in memory and on disk obey the rules of their phase, and  *)
(* account for every branch and worktree, whatever fails.                  *)
THEOREM Invariant == Spec => []IInv
<1>1. Init => IInv
  BY InitInvariant
<1>2. IInv /\ [Next]_vars => IInv'
  BY NextInvariant, StutterInvariant
<1> QED
  BY <1>1, <1>2, PTL DEF Spec

(* Every document ever in memory or on disk has the fields and values of a *)
(* RunState: counters never pass their limits by more than the one that    *)
(* ends the run, and phases, questions and errors are known ones.          *)
THEOREM TypesHold == Spec => []TypeOK
<1>1. IInv => TypeOK
  BY DEF IInv
<1> QED
  BY <1>1, Invariant, PTL

(* No crash, failed save or startup, retry or act of the operator leaves a *)
(* task branch or worktree that the document on disk does not name.        *)
THEOREM OrphansNone == Spec => []NothingOrphaned
<1>1. IInv => NothingOrphaned
  <2> SUFFICES ASSUME IInv
               PROVE  NothingOrphaned
    OBVIOUS
  <2>1. CASE disk = None
    BY <2>1 DEF IInv, ControlOK, NothingOrphaned
  <2>2. CASE disk # None
    <3>1. DocOK(disk) /\ OwnsAll(disk, EffectivePhase(disk))
      BY <2>2 DEF IInv, DiskOK
    <3>2. EffectivePhase(disk) = "creating_worktree" => disk.intent # None
      BY <3>1 DEF DocOK, ContentOK, TaskOK
    <3>3. \A t \in Tasks : branch[t] # None =>
            \E r \in {disk.intent, disk.worktree} \ {None} : t = r.task
      BY <3>1, <3>2 DEF OwnsAll, Owned
    <3>4. tree # None => branch[tree.task] # None /\ tree.task \in Tasks
      BY DEF IInv, GitOK, TypeOK, Trees
    <3> QED
      BY <2>2, <3>3, <3>4 DEF NothingOrphaned
  <2> QED
    BY <2>1, <2>2
<1> QED
  BY <1>1, Invariant, PTL
=============================================================================
