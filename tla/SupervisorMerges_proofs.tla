------------------------ MODULE SupervisorMerges_proofs ------------------------
(***************************************************************************)
(* The commit a task is merged at, from the builder's report to the merge: *)
(* what the documents say of it, that it is the one that was verified and  *)
(* that an auditor accepted, and that every document on disk loads and a   *)
(* crashed run resumes.                                                    *)
(*                                                                         *)
(* All of it holds as long as no builder session outlives its timeout: one *)
(* that does commits to the task branch whenever it likes.                 *)
(***************************************************************************)
EXTENDS SupervisorGit_proofs

USE DEF BetweenSaves

-----------------------------------------------------------------------------
(* One commit                                                              *)

(* From building on, the worktree, the verification, the merge intent and  *)
(* the accepted review of a document d are about the builder's commit.     *)
HeadOK(d) ==
  LET phase == EffectivePhase(d)
  IN  phase \in PostBuildPhases =>
        /\ tree # None => TaskHead = d.lastHead
        /\ VerifyConfigured /\ phase # "verifying" => d.verification = d.lastHead
        /\ phase \in MergePhases => d.mergeTask = d.lastHead /\ d.mergeTask \in reviewed

(* and so is the checkpoint, in a document that was saved in the phases E  *)
ExpectedOK(d, E) == EffectivePhase(d) \in E => d.expectedHead = d.lastHead

(* the auditor at work was shown the commit that is there *)
AuditedOK == pc = "agent" /\ mem.phase = "auditing" => audited = TaskHead

ReviewedOK == \A i \in DOMAIN integ : integ[i].second # None => integ[i].second \in reviewed

HInv ==
  /\ session = None /\ AuditedOK /\ ReviewedOK
  /\ mem # None => HeadOK(mem) /\ ExpectedOK(mem, {"cleanup_branch"})
  /\ disk # None => HeadOK(disk) /\ ExpectedOK(disk, PostBuildPhases)

-----------------------------------------------------------------------------
(* Documents while Git stands still                                        *)

(* A document goes on saying the truth while the worktree, if it stays, is *)
(* at the same commit.                                                     *)
LEMMA Steady ==
  ASSUME NEW d, HeadOK(d), reviewed \subseteq reviewed',
         tree' # None => tree # None /\ TaskHead' = TaskHead
  PROVE  HeadOK(d)'
  BY DEF HeadOK

(* the documents of the invariant *)
DocsOK ==
  /\ mem # None => HeadOK(mem) /\ ExpectedOK(mem, {"cleanup_branch"})
  /\ disk # None => HeadOK(disk) /\ ExpectedOK(disk, PostBuildPhases)

LEMMA AuditedKept ==
  ASSUME IInv, HInv, Next
  PROVE  AuditedOK'
<1>1. CASE pc' # "agent" \/ (pc = "down" /\ pc' = pc)
  BY <1>1 DEF AuditedOK
<1>2. CASE Invoke
  <2>1. /\ pc = "idle" /\ mem' = mem /\ UNCHANGED gitvars
        /\ audited' = IF tree # None THEN TaskHead ELSE None
    BY <1>2 DEF Invoke, Control
  <2>2. ASSUME mem.phase = "auditing"
        PROVE  tree # None
    BY <2>1, <2>2, AtWork, InTask, ActivePhases DEF LiveOK, CleanupPhases
  <2>3. TaskHead' = TaskHead
    BY <2>1 DEF TaskHead, gitvars
  <2> QED
    BY <2>1, <2>2, <2>3 DEF AuditedOK
<1>3. CASE BuilderWorks
  BY <1>3 DEF BuilderWorks, WorkOn, process, AuditedOK
<1>4. CASE LeftoverSessionWorks
  BY <1>4 DEF LeftoverSessionWorks, HInv
<1>5. CASE ValidateCleanup \/ InspectWorktree
  BY <1>5 DEF ValidateCleanup, InspectWorktree, Control, AuditedOK
<1> QED
  BY <1>1, <1>2, <1>3, <1>4, <1>5, AgentStarts DEF Inside

(* What a quiet step puts into a document is about the same commit.        *)
LEMMA HeadMoved ==
  ASSUME IInv, HInv, pc # "down", NEW s, SameBut(mem, s, Fields \ Held), Moves(s),
         UNCHANGED gitvars, reviewed \subseteq reviewed'
  PROVE  HeadOK(s)' /\ ExpectedOK(s, {"cleanup_branch"})
<1>1. PICK d : d = mem
  OBVIOUS
<1>2. d # None /\ HeadOK(d) /\ ExpectedOK(d, {"cleanup_branch"}) /\ s.expectedHead = d.expectedHead
  BY <1>1 DEF HInv, IInv, TypeOK, SameBut, Held, Fields
<1>3. HeadOK(d)'
  BY <1>2, Steady DEF gitvars, TaskHead
<1> PICK e, n : e = EffectivePhase(s) /\ n = EffectivePhase(d)
  OBVIOUS
<1>4. TaskHead' = TaskHead /\ tree' = tree
  BY DEF TaskHead, gitvars
<1>5. CASE Stays(s)
  BY <1>1, <1>2, <1>3, <1>5 DEF Stays, HeadOK, ExpectedOK
<1>6. CASE Leaves(s)
  BY <1>6 DEF Leaves, HeadOK, ExpectedOK, PostBuildPhases, MergePhases
<1>7. CASE Built(s)
  BY <1>4, <1>7 DEF Built, HeadOK, ExpectedOK, MergePhases
<1>8. ASSUME n \in {"verifying", "auditing", "merging"}
      PROVE  /\ tree # None /\ n \in PostBuildPhases
             /\ TaskHead = d.lastHead
  <2>1. LiveOK(d, n) /\ d.worktree # None
    BY <1>1, <1>8, ActivePhases DEF IInv, MemOK, DocOK, ContentOK, TaskOK, TaskPhases
  <2>2. tree # None /\ n \in PostBuildPhases
    BY <1>8, <2>1 DEF LiveOK, CleanupPhases, PostBuildPhases, MergePhases
  <2> QED
    BY <1>2, <2>2 DEF HeadOK
<1>9. CASE Verified(s)
  BY <1>1, <1>4, <1>8, <1>9 DEF Verified, HeadOK, ExpectedOK, MergePhases
<1>10. CASE Accepted(s)
  <2>1. mem.phase = "auditing"
    BY <1>10 DEF Accepted, IInv, ControlOK, EffectivePhase
  <2>2. audited = TaskHead /\ n = "auditing"
    BY <1>1, <1>10, <2>1 DEF HInv, AuditedOK, Accepted
  <2>3. e = "merging" /\ s.lastHead = d.lastHead /\ s.verification = d.verification
        /\ s.mergeTask = TaskHead /\ TaskHead \in reviewed'
    BY <1>1, <1>10, <2>2 DEF Accepted
  <2>4. VerifyConfigured => d.verification = d.lastHead
    BY <1>2, <1>8, <2>2 DEF HeadOK
  <2> QED
    BY <1>4, <1>8, <2>2, <2>3, <2>4 DEF HeadOK, ExpectedOK
<1>11. CASE Adopted(s)
  <2>1. e = "cleanup_worktree" /\ n = "merging" /\ s.lastHead = d.lastHead
        /\ s.verification = d.verification /\ s.mergeTask = d.mergeTask
    BY <1>1, <1>11 DEF Adopted
  <2>2. d.mergeTask = d.lastHead /\ d.mergeTask \in reviewed'
        /\ (VerifyConfigured => d.verification = d.lastHead)
    BY <1>3, <1>8, <2>1 DEF HeadOK, MergePhases
  <2> QED
    BY <1>4, <1>8, <2>1, <2>2 DEF HeadOK, ExpectedOK
<1> QED
  BY <1>5, <1>6, <1>7, <1>9, <1>10, <1>11 DEF Moves

(* A step that leaves Git alone, with a document s about the right commit  *)
LEMMA EndsHeads ==
  ASSUME IInv, HInv, UNCHANGED gitvars, reviewed \subseteq reviewed',
         NEW s, s = [f \in Fields |-> s[f]], HeadOK(s)', ExpectedOK(s, {"cleanup_branch"}),
         EffectivePhase(s) \in PostBuildPhases => s.worktree # None, Ends(s)
  PROVE  DocsOK'
<1>1. TaskHead' = TaskHead /\ tree' = tree
  BY DEF TaskHead, gitvars
<1>2. PICK d : d = disk
  OBVIOUS
<1>3. d # None => HeadOK(d)' /\ ExpectedOK(d, PostBuildPhases)
  BY <1>1, <1>2, Steady DEF HInv
<1>4. CASE mem' \in {s, None} /\ UNCHANGED <<disk, touched>>
  <2>1. disk' # None => HeadOK(disk)' /\ ExpectedOK(disk, PostBuildPhases)'
    BY <1>2, <1>3, <1>4 DEF ExpectedOK
  <2>2. mem' # None => HeadOK(mem)' /\ ExpectedOK(mem, {"cleanup_branch"})'
    BY <1>4 DEF ExpectedOK
  <2> QED
    BY <2>1, <2>2 DEF DocsOK
<1>5. CASE disk' = Checkpoint(s) /\ mem' \in {Checkpoint(s), None} /\ ~CheckpointFails(s)
  <2>1. PICK c : c = Checkpoint(s)
    OBVIOUS
  <2>2. c.expectedHead = c.lastHead \/ EffectivePhase(c) \notin PostBuildPhases
    <3>1. /\ c.lastHead = s.lastHead /\ EffectivePhase(c) = EffectivePhase(s)
          /\ EffectivePhase(s) # "cleanup_branch" /\ s.worktree # None =>
               c.expectedHead = TaskHead
      BY <2>1, Checkpointed DEF Fields
    <3>2. EffectivePhase(s) = "cleanup_branch" => c.expectedHead = s.expectedHead
      BY <2>1 DEF Checkpoint, Fields
    <3>3. EffectivePhase(s) \in PostBuildPhases /\ tree # None => TaskHead = s.lastHead
      BY <1>1 DEF HeadOK
    <3>4. CASE EffectivePhase(s) = "cleanup_branch"
      BY <3>1, <3>2, <3>4 DEF ExpectedOK
    <3>5. CASE EffectivePhase(s) # "cleanup_branch"
      BY <1>5, <3>1, <3>3, <3>5 DEF CheckpointFails
    <3> QED
      BY <3>4, <3>5
  <2>3. HeadOK(c)'
    <3>1. /\ c.lastHead = s.lastHead /\ c.verification = s.verification
          /\ c.mergeTask = s.mergeTask /\ EffectivePhase(c) = EffectivePhase(s)
      BY <2>1, Checkpointed DEF Fields
    <3> QED
      BY <3>1 DEF HeadOK
  <2>4. disk' = c /\ mem' \in {c, None}
    BY <1>5, <2>1
  <2>5. ExpectedOK(c, PostBuildPhases) /\ ExpectedOK(c, {"cleanup_branch"})
    BY <2>2 DEF ExpectedOK, PostBuildPhases, MergePhases
  <2> QED
    BY <2>3, <2>4, <2>5 DEF DocsOK, ExpectedOK
<1> QED
  BY <1>4, <1>5 DEF Ends

-----------------------------------------------------------------------------
(* Each step keeps what the documents say                                  *)

(* the reviews of what was merged, while nothing is added to the branch *)
LEMMA ReviewedKept ==
  ASSUME ReviewedOK, integ' = integ, reviewed \subseteq reviewed'
  PROVE  ReviewedOK'
  BY DEF ReviewedOK

(* ... and when a reviewed merge is added *)
LEMMA AppendedReview ==
  ASSUME IInv, ReviewedOK, NEW e, integ' = Append(integ, e),
         e.second = None \/ e.second \in reviewed, reviewed' = reviewed
  PROVE  ReviewedOK'
<1>1. integ \in Seq(Entries)
  BY DEF IInv, TypeOK
<1>2. \A i \in DOMAIN integ' : integ'[i] = e \/ (i \in DOMAIN integ /\ integ'[i] = integ[i])
  BY <1>1
<1> QED
  BY <1>2 DEF ReviewedOK

LEMMA QuietHeads ==
  ASSUME IInv, GInv, HInv, Next, UNCHANGED gitvars, pc # "down",
         Quietly \/ Plans \/ Prepares
  PROVE  DocsOK' /\ ReviewedOK'
<1>1. reviewed \subseteq reviewed'
  BY OnlyGrows DEF Grown
<1>2. ReviewedOK'
  BY <1>1, ReviewedKept DEF HInv, gitvars
<1>3. CASE Quietly
  <2>1. PICK s : SameBut(mem, s, Fields \ Held) /\ Moves(s) /\ Ends(s)
    BY <1>3 DEF Quietly
  <2>2. HeadOK(s)' /\ ExpectedOK(s, {"cleanup_branch"})
    BY <1>1, <2>1, HeadMoved
  <2>3. AheadOK(s)
    BY <2>1, InMemory, KnowsMoved DEF Knows
  <2> QED
    BY <1>1, <1>2, <2>1, <2>2, <2>3, EndsHeads DEF SameBut, AheadOK
<1>4. CASE Plans
  <2>1. PICK s : /\ s = [f \in Fields |-> s[f]] /\ Ends(s)
                 /\ EffectivePhase(s) \in {"creating_worktree", "planning"}
    BY <1>4 DEF Plans, SameBut
  <2>2. EffectivePhase(s) \notin PostBuildPhases /\ EffectivePhase(s) # "cleanup_branch"
    BY <2>1 DEF PostBuildPhases, MergePhases
  <2>3. HeadOK(s)' /\ ExpectedOK(s, {"cleanup_branch"})
    BY <2>2 DEF HeadOK, ExpectedOK
  <2> QED
    BY <1>1, <1>2, <2>1, <2>2, <2>3, EndsHeads
<1>5. CASE Prepares
  <2>1. PICK s : /\ s = [f \in Fields |-> s[f]] /\ mem' = s /\ UNCHANGED <<disk, touched>>
                 /\ EffectivePhase(s) = "recording_decision"
    BY <1>5 DEF Prepares, SameBut
  <2>2. EffectivePhase(s) \notin PostBuildPhases /\ EffectivePhase(s) # "cleanup_branch"
    BY <2>1 DEF PostBuildPhases, MergePhases
  <2>3. HeadOK(s)' /\ ExpectedOK(s, {"cleanup_branch"}) /\ Ends(s)
    BY <2>1, <2>2 DEF HeadOK, ExpectedOK, Ends
  <2> QED
    BY <1>1, <1>2, <2>1, <2>2, <2>3, EndsHeads
<1> QED
  BY <1>2, <1>3, <1>4, <1>5

LEMMA StartRunHeads ==
  ASSUME IInv, HInv, StartRun
  PROVE  DocsOK' /\ ReviewedOK'
<1>1. PICK s, c : s = NewRun(IntegrationHead) /\ c = Checkpoint(s)
  OBVIOUS
<1>2. disk' = c /\ mem' = c /\ integ' = integ /\ reviewed' = reviewed
  BY <1>1 DEF StartRun, Persist, Control, gitvars
<1>3. s = [f \in Fields |-> s[f]] /\ s.phase = "planning"
  BY <1>1 DEF NewRun, Fields
<1>4. EffectivePhase(c) = "planning"
  BY <1>1, <1>3, Checkpointed DEF EffectivePhase
<1>5. DocsOK'
  BY <1>2, <1>4 DEF DocsOK, HeadOK, ExpectedOK, PostBuildPhases, MergePhases
<1> QED
  BY <1>2, <1>5, ReviewedKept DEF HInv

LEMMA ResumeRunHeads ==
  ASSUME IInv, HInv, ResumeRun
  PROVE  DocsOK' /\ ReviewedOK'
<1>1. PICK d : d = disk
  OBVIOUS
<1>2. d # None /\ mem' = d /\ disk' = d /\ UNCHANGED gitvars /\ reviewed' = reviewed
  BY <1>1 DEF ResumeRun, ghosts
<1>3. HeadOK(d)'
  BY <1>1, <1>2, Steady DEF HInv, gitvars, TaskHead
<1>4. ExpectedOK(d, PostBuildPhases) /\ ExpectedOK(d, {"cleanup_branch"})
  BY <1>1, <1>2 DEF HInv, ExpectedOK, PostBuildPhases, MergePhases
<1> QED
  BY <1>2, <1>3, <1>4, ReviewedKept DEF HInv, DocsOK, ExpectedOK, gitvars

LEMMA CreateHeads ==
  ASSUME IInv, HInv, CreateWorktree \/ ProvisioningFails
  PROVE  DocsOK' /\ ReviewedOK'
<1>1. /\ pc = "idle" /\ mem.phase = "creating_worktree" /\ integ' = integ
      /\ reviewed' = reviewed
  BY DEF CreateWorktree, ProvisioningFails, Created
<1>2. /\ disk = mem /\ EffectivePhase(mem) = "creating_worktree"
      /\ mem = [f \in Fields |-> mem[f]]
  BY <1>1, AtWork, InPhase, ActivePhases
<1>3. CASE CreateWorktree
  <2>1. PICK s : s = Route([mem EXCEPT !.worktree = mem.intent, !.intent = None,
                                       !.revisions = 0, !.guidance = 0])
    OBVIOUS
  <2>2. mem' = s /\ disk' = disk
    BY <1>3, <2>1 DEF CreateWorktree, Transition, Control
  <2>3. s.phase \in {"architecting", "building"}
    BY <1>2, <2>1 DEF Route, Fields
  <2>4. EffectivePhase(s) \in {"architecting", "building"}
    BY <2>3 DEF EffectivePhase
  <2> QED
    BY <1>1, <1>2, <2>2, <2>4, ReviewedKept
       DEF HInv, DocsOK, HeadOK, ExpectedOK, PostBuildPhases, MergePhases
<1>4. CASE ProvisioningFails
  <2>1. PICK w, c : w = Wrapped(mem, "creating_worktree", FALSE) /\ c = Checkpoint(w)
    OBVIOUS
  <2>2. \/ disk' = c /\ mem' = c
        \/ disk' = disk /\ mem' = None
    BY <1>4, <2>1 DEF ProvisioningFails, Fail, FailWith, Persist, Die, Control, Wrapped
  <2>3. EffectivePhase(w) = "creating_worktree" /\ w = [f \in Fields |-> w[f]]
    <3>1. SameBut(mem, mem, Fields \ Held)
      BY <1>1, InPhase
    <3>2. SameBut(mem, w, Fields \ Held) /\ EffectivePhase(w) = "creating_worktree"
      BY <2>1, <3>1, WrappedFields
    <3> QED
      BY <3>2 DEF SameBut
  <2>4. EffectivePhase(c) = "creating_worktree"
    BY <2>1, <2>3, Checkpointed
  <2> QED
    BY <1>1, <1>2, <2>2, <2>4, ReviewedKept
       DEF HInv, DocsOK, HeadOK, ExpectedOK, PostBuildPhases, MergePhases
<1> QED
  BY <1>3, <1>4

LEMMA RecordDecisionHeads ==
  ASSUME IInv, HInv, RecordDecision
  PROVE  DocsOK' /\ ReviewedOK'
<1>1. /\ pc = "idle" /\ mem.phase = "recording_decision" /\ integ' = integ
      /\ reviewed' = reviewed
  BY DEF RecordDecision
<1>2. /\ disk = mem /\ EffectivePhase(mem) = "recording_decision"
      /\ mem = [f \in Fields |-> mem[f]]
  BY <1>1, AtWork, InPhase, ActivePhases
<1>3. PICK p \in {"building", "planning"} :
        \E s : /\ s = [mem EXCEPT !.adr = None, !.decision = None, !.architectRetries = 0,
                                   !.phase = p]
               /\ mem' = s /\ disk' = disk
  BY DEF RecordDecision, Transition, Control
<1>4. PICK s : /\ s = [mem EXCEPT !.adr = None, !.decision = None, !.architectRetries = 0,
                                   !.phase = p]
                /\ mem' = s /\ disk' = disk
  BY <1>3
<1>5. s.phase = p
  BY <1>2, <1>4 DEF Fields
<1>6. EffectivePhase(s) \in {"building", "planning"}
  BY <1>5 DEF EffectivePhase
<1> QED
  BY <1>1, <1>2, <1>4, <1>6, ReviewedKept
     DEF HInv, DocsOK, HeadOK, ExpectedOK, PostBuildPhases, MergePhases

LEMMA MergeHeads ==
  ASSUME IInv, GInv, HInv, Merge
  PROVE  DocsOK' /\ ReviewedOK'
<1>1. PICK d, s : d = mem /\ s = [mem EXCEPT !.mergeCommit = nextId, !.phase = "cleanup_worktree"]
  OBVIOUS
<1>2. /\ pc = "idle" /\ mem.phase = "merging" /\ mem' = s
      /\ integ' = Append(integ, MergeEntry(nextId, d.mergeTask, branch[tree.task]))
      /\ reviewed' = reviewed /\ UNCHANGED <<branch, tree, disk>>
  BY <1>1 DEF Merge, Merged, Transition, Control
<1>3. /\ disk = d /\ d # None /\ EffectivePhase(d) = "merging" /\ d = [f \in Fields |-> d[f]]
  BY <1>1, <1>2, AtWork, InPhase, ActivePhases
<1>4. HeadOK(d)' /\ ExpectedOK(d, PostBuildPhases) /\ "merging" \in PostBuildPhases
  BY <1>1, <1>2, <1>3, Steady DEF HInv, TaskHead, PostBuildPhases, MergePhases
<1>5. /\ d.mergeTask \in reviewed /\ d.mergeTask = d.lastHead
      /\ VerifyConfigured => d.verification = d.lastHead
      /\ tree' # None => TaskHead' = d.lastHead
  BY <1>2, <1>3, <1>4 DEF HeadOK, MergePhases, PostBuildPhases
<1>6. /\ s.lastHead = d.lastHead /\ s.verification = d.verification
      /\ s.mergeTask = d.mergeTask /\ s.phase = "cleanup_worktree"
  BY <1>1, <1>3 DEF Fields
<1>7. EffectivePhase(s) = "cleanup_worktree"
  BY <1>6 DEF EffectivePhase
<1>8. HeadOK(s)' /\ ExpectedOK(s, {"cleanup_branch"})
  BY <1>2, <1>5, <1>6, <1>7 DEF HeadOK, ExpectedOK
<1>9. DocsOK'
  BY <1>2, <1>3, <1>4, <1>8 DEF DocsOK, ExpectedOK
<1>10. ReviewedOK'
  BY <1>2, <1>5, AppendedReview DEF HInv, MergeEntry
<1> QED
  BY <1>9, <1>10

LEMMA CleanupWorktreeHeads ==
  ASSUME IInv, HInv, CleanupWorktree
  PROVE  DocsOK' /\ ReviewedOK'
<1>1. PICK d, s : d = mem /\ s = [mem EXCEPT !.phase = "cleanup_branch"]
  OBVIOUS
<1>2. /\ pc \in {"validated", "inspected"} /\ mem.phase = "cleanup_worktree"
      /\ mem' = s /\ tree' = None
      /\ integ' = integ /\ reviewed' = reviewed /\ disk' = disk
  BY <1>1 DEF CleanupWorktree, WorktreeGoes, Transition, Control, IInv, ControlOK
<1>3. /\ disk = d /\ d # None /\ EffectivePhase(d) = "cleanup_worktree"
      /\ d = [f \in Fields |-> d[f]]
  BY <1>1, <1>2, AtWork, InPhase, ActivePhases
<1>4. HeadOK(d)' /\ ExpectedOK(d, PostBuildPhases)
  BY <1>1, <1>2, <1>3, Steady DEF HInv
<1>5. d.expectedHead = d.lastHead /\ "cleanup_worktree" \in PostBuildPhases \cap MergePhases
  BY <1>3, <1>4 DEF ExpectedOK, PostBuildPhases, MergePhases
<1>6. /\ s.lastHead = d.lastHead /\ s.verification = d.verification
      /\ s.mergeTask = d.mergeTask /\ s.expectedHead = d.expectedHead
      /\ s.phase = "cleanup_branch"
  BY <1>1, <1>3 DEF Fields
<1>7. EffectivePhase(s) = "cleanup_branch"
  BY <1>6 DEF EffectivePhase
<1>8. HeadOK(s)' /\ ExpectedOK(s, {"cleanup_branch"})
  BY <1>2, <1>3, <1>4, <1>5, <1>6, <1>7 DEF HeadOK, ExpectedOK
<1>9. DocsOK'
  BY <1>2, <1>3, <1>4, <1>8 DEF DocsOK, ExpectedOK
<1> QED
  BY <1>2, <1>9, ReviewedKept DEF HInv

LEMMA CleanupBranchHeads ==
  ASSUME IInv, HInv, CleanupBranch
  PROVE  DocsOK' /\ ReviewedOK'
<1>1. PICK d, s : d = mem /\ s = Finished(mem)
  OBVIOUS
<1>2. /\ pc = "idle" /\ mem.phase = "cleanup_branch" /\ mem' = s /\ tree' = tree
      /\ integ' = integ /\ reviewed' = reviewed /\ disk' = disk
  BY <1>1 DEF CleanupBranch, Transition, Control
<1>3. disk = d /\ d # None /\ tree = None /\ d = [f \in Fields |-> d[f]]
  BY <1>1, <1>2, AtWork, InPhase, ActivePhases DEF LiveOK
<1>4. HeadOK(d)' /\ ExpectedOK(d, PostBuildPhases)
  BY <1>1, <1>2, <1>3, Steady DEF HInv
<1>5. s.phase = "planning"
  BY <1>1, <1>3 DEF Finished, Fields
<1>6. EffectivePhase(s) = "planning"
  BY <1>5 DEF EffectivePhase
<1>7. HeadOK(s)' /\ ExpectedOK(s, {"cleanup_branch"})
  BY <1>6 DEF HeadOK, ExpectedOK, PostBuildPhases, MergePhases
<1>8. DocsOK'
  BY <1>2, <1>3, <1>4, <1>7 DEF DocsOK, ExpectedOK
<1> QED
  BY <1>2, <1>8, ReviewedKept DEF HInv

(* The builder at work: the documents are those of the building phase.     *)
LEMMA BuilderWorksHeads ==
  ASSUME IInv, HInv, BuilderWorks
  PROVE  DocsOK' /\ ReviewedOK'
<1>1. /\ pc = "agent" /\ mem.phase = "building" /\ mem' = mem /\ disk' = disk
      /\ integ' = integ /\ reviewed' = reviewed
  BY DEF BuilderWorks, WorkOn, process
<1>2. disk = mem /\ EffectivePhase(mem) = "building"
  BY <1>1, AtWork, ActivePhases
<1>3. DocsOK'
  BY <1>1, <1>2 DEF DocsOK, HeadOK, ExpectedOK, PostBuildPhases, MergePhases
<1> QED
  BY <1>1, <1>3, ReviewedKept DEF HInv

-----------------------------------------------------------------------------
(* The operator, between two processes                                     *)

(* the process is down, and its document stays *)
LEMMA OperatorHeads ==
  ASSUME IInv, HInv, pc = "down", UNCHANGED <<mem, disk>>, reviewed \subseteq reviewed',
         disk # None => (tree' # None => tree # None /\ TaskHead' = TaskHead)
  PROVE  DocsOK'
<1>1. PICK d : d = disk
  OBVIOUS
<1>2. mem' = None
  BY DEF IInv, TypeOK
<1>3. d # None => HeadOK(d)' /\ ExpectedOK(d, PostBuildPhases)
  BY <1>1, Steady DEF HInv
<1>4. d # None => HeadOK(disk)' /\ ExpectedOK(disk, PostBuildPhases)'
  BY <1>1, <1>3 DEF ExpectedOK
<1> QED
  BY <1>1, <1>2, <1>4 DEF DocsOK

LEMMA OperatorCommitsHeads ==
  ASSUME IInv, HInv, OperatorCommits
  PROVE  DocsOK' /\ ReviewedOK'
<1>1. PICK e : e = [id |-> nextId, second |-> None, brings |-> {}, adrs |-> {}]
  OBVIOUS
<1>2. /\ pc = "down" /\ integ' = Append(integ, e) /\ reviewed' = reviewed
      /\ UNCHANGED <<branch, tree, mem, disk>>
  BY <1>1 DEF OperatorCommits, process, ghosts
<1>3. DocsOK'
  BY <1>2, OperatorHeads DEF TaskHead
<1>4. ReviewedOK'
  BY <1>1, <1>2, AppendedReview DEF HInv
<1> QED
  BY <1>3, <1>4

LEMMA OperatorMergesHeads ==
  ASSUME IInv, GInv, HInv, OperatorMerges
  PROVE  DocsOK' /\ ReviewedOK'
<1>1. PICK e : e = MergeEntry(nextId, disk.mergeTask, branch[tree.task])
  OBVIOUS
<1>2. /\ pc = "down" /\ disk # None /\ EffectivePhase(disk) = "merging"
      /\ integ' = Append(integ, e) /\ reviewed' = reviewed
      /\ UNCHANGED <<branch, tree, mem, disk>>
  BY <1>1 DEF OperatorMerges, process, ghosts, EffectivePhase
<1>3. DocsOK'
  BY <1>2, OperatorHeads DEF TaskHead
<1>4. disk.mergeTask \in reviewed
  BY <1>2 DEF HInv, HeadOK, PostBuildPhases, MergePhases
<1>5. ReviewedOK'
  BY <1>1, <1>2, <1>4, AppendedReview DEF HInv, MergeEntry
<1> QED
  BY <1>3, <1>5

LEMMA OperatorRestoresHeads ==
  ASSUME IInv, GInv, HInv, OperatorRestores
  PROVE  DocsOK' /\ ReviewedOK'
<1>1. PICK d, t : d = disk /\ t = tree.task
  OBVIOUS
<1>2. PICK b : HeadOf(b) = d.expectedHead /\ branch' = [branch EXCEPT ![t] = b]
  BY <1>1 DEF OperatorRestores
<1>3. /\ pc = "down" /\ tree # None /\ d.worktree # None
      /\ UNCHANGED <<mem, disk, integ, reviewed>>
      /\ tree' = [tree EXCEPT !.edited = d.snapshot.edited, !.untracked = d.snapshot.untracked,
                              !.adrs = (@ \ tree.untracked) \cup d.snapshot.untracked]
  BY <1>1 DEF OperatorRestores, process
<1>4. t \in Tasks /\ tree \in Trees /\ branch \in [Tasks -> Branches \cup {None}]
  BY <1>1, <1>3, Typed DEF IInv, TypeOK
<1>5. tree'.task = t /\ branch'[t] = b
  BY <1>1, <1>2, <1>3, <1>4 DEF Trees
<1>6. TaskHead' = d.expectedHead
  BY <1>2, <1>5 DEF TaskHead
<1>7. d # None
  BY <1>1, <1>3 DEF IInv, ControlOK
<1>8. HeadOK(d) /\ ExpectedOK(d, PostBuildPhases)
  BY <1>1, <1>7 DEF HInv
<1>9. HeadOK(d)'
  BY <1>3, <1>6, <1>8 DEF HeadOK, ExpectedOK
<1>10. mem' = None /\ disk' = d
  BY <1>1, <1>3 DEF IInv, TypeOK
<1>11. DocsOK'
  BY <1>8, <1>9, <1>10 DEF DocsOK, ExpectedOK
<1> QED
  BY <1>3, <1>11, ReviewedKept DEF HInv

LEMMA OperatorDiscardsHeads ==
  ASSUME IInv, HInv, OperatorCleans \/ OperatorRemoves
  PROVE  DocsOK' /\ ReviewedOK'
<1>1. /\ pc = "down" /\ UNCHANGED <<mem, disk, integ, branch, reviewed>>
      /\ tree # None
  BY DEF OperatorCleans, OperatorRemoves, process
<1>2. tree' # None => tree'.task = tree.task
  <2>1. tree \in Trees
    BY <1>1, Typed
  <2> QED
    BY <2>1 DEF OperatorCleans, OperatorRemoves, Trees
<1>3. tree' # None => TaskHead' = TaskHead
  BY <1>1, <1>2 DEF TaskHead
<1>4. DocsOK'
  BY <1>1, <1>3, OperatorHeads
<1> QED
  BY <1>1, <1>4, ReviewedKept DEF HInv

-----------------------------------------------------------------------------
(* The invariant                                                           *)

LEMMA HInitial ==
  ASSUME Init
  PROVE  HInv
<1>1. /\ integ = <<[id |-> 0, second |-> None, brings |-> {}, adrs |-> {}]>>
      /\ mem = None /\ disk = None /\ pc = "down" /\ session = None
  BY DEF Init
<1>2. ReviewedOK
  BY <1>1 DEF ReviewedOK
<1> QED
  BY <1>1, <1>2 DEF HInv, AuditedOK

LEMMA HNext ==
  ASSUME IInv, GInv, HInv, Next, "leftover" \notin Faults
  PROVE  HInv'
<1>1. session' = None
  BY NoSession DEF HInv
<1>2. AuditedOK'
  BY AuditedKept
<1>3. DocsOK' /\ ReviewedOK'
  <2>1. CASE GitActions
    <3>1. CASE LeftoverSessionWorks
      BY <3>1 DEF LeftoverSessionWorks, HInv
    <3>2. CASE StartRun \/ ResumeRun \/ CreateWorktree \/ ProvisioningFails \/ RecordDecision
      BY <3>2, StartRunHeads, ResumeRunHeads, CreateHeads, RecordDecisionHeads
    <3>3. CASE Merge \/ CleanupWorktree \/ CleanupBranch \/ BuilderWorks
      BY <3>3, MergeHeads, CleanupWorktreeHeads, CleanupBranchHeads, BuilderWorksHeads
    <3>4. CASE OperatorCommits \/ OperatorMerges \/ OperatorRestores \/ OperatorCleans
               \/ OperatorRemoves
      BY <3>4, OperatorCommitsHeads, OperatorMergesHeads, OperatorRestoresHeads,
         OperatorDiscardsHeads
    <3> QED
      BY <2>1, <3>1, <3>2, <3>3, <3>4 DEF GitActions
  <2>2. CASE (Quietly \/ Plans \/ Prepares) /\ pc # "down" /\ UNCHANGED gitvars
    BY <2>2, QuietHeads
  <2> QED
    BY <2>1, <2>2, Sorted
<1> QED
  BY <1>1, <1>2, <1>3 DEF HInv, DocsOK

LEMMA HStutter ==
  ASSUME HInv, UNCHANGED vars
  PROVE  HInv'
<1> PICK d, m : d = disk /\ m = mem
  OBVIOUS
<1>1. /\ disk' = d /\ mem' = m
      /\ UNCHANGED <<pc, integ, branch, tree, session, audited, reviewed>>
  BY DEF vars, process, gitvars, ghosts
<1>2. TaskHead' = TaskHead
  BY <1>1 DEF TaskHead
<1>3. AuditedOK' /\ ReviewedOK'
  BY <1>1, <1>2 DEF HInv, AuditedOK, ReviewedOK
<1>4. (m # None => HeadOK(m)') /\ (d # None => HeadOK(d)')
  BY <1>1, <1>2, Steady DEF HInv
<1> QED
  BY <1>1, <1>3, <1>4 DEF HInv, ExpectedOK

(* From the builder's report to the merge everything is about one commit:  *)
(* the worktree, the checkpoint, the verification, the review and the      *)
(* merge intent all name the commit the builder reported, through crashes, *)
(* retries and whatever the operator does between two processes.           *)
THEOREM OneCommit ==
  ASSUME "leftover" \notin Faults
  PROVE  Spec => []HInv
<1>1. Init => HInv
  BY HInitial
<1>2. IInv /\ GInv /\ HInv /\ [Next]_vars => HInv'
  BY HNext, HStutter
<1> QED
  BY <1>1, <1>2, Invariant, GitInvariant, PTL DEF Spec

(* What reaches the integration branch is the commit the auditor was shown *)
(* when it accepted: by the supervisor's merge or by the operator's.       *)
THEOREM OnlyReviewedMerged ==
  ASSUME "leftover" \notin Faults
  PROVE  Spec => []MergedWasReviewed
<1>1. HInv => MergedWasReviewed
  BY DEF HInv, ReviewedOK, MergedWasReviewed
<1> QED
  BY <1>1, OneCommit, PTL

(* With verification configured, what is about to be merged is the commit  *)
(* the commands ran on, after any number of revisions, crashes and retries *)
THEOREM OnlyVerifiedMerged ==
  ASSUME "leftover" \notin Faults
  PROVE  Spec => []MergedWasVerified
<1>1. HInv => MergedWasVerified
  <2> SUFFICES ASSUME HInv, mem # None, VerifyConfigured, mem.phase \in MergePhases
               PROVE  mem.verification = mem.mergeTask
    BY DEF MergedWasVerified
  <2>1. /\ EffectivePhase(mem) \in MergePhases /\ EffectivePhase(mem) \in PostBuildPhases
        /\ EffectivePhase(mem) # "verifying"
    BY DEF EffectivePhase, PostBuildPhases, MergePhases
  <2> QED
    BY <2>1 DEF HInv, HeadOK
<1> QED
  BY <1>1, OneCommit, PTL

-----------------------------------------------------------------------------
(* What is saved loads again                                               *)

LEMMA SavedLoads ==
  ASSUME NEW d, DocOK(d), CheckedOK(d, EffectivePhase(d)), HeadOK(d),
         ExpectedOK(d, PostBuildPhases), ~RefusedGuidedCommit(d), ~StaleRevision(d)
  PROVE  Loadable(d)
<1> PICK e : e = EffectivePhase(d)
  OBVIOUS
<1>1. /\ d \in Documents /\ ErrorOK(d) /\ ContentOK(d, e)
      /\ d.phase \in RetryTargetPhases \cup TerminalPhases \cup {"operational_failure"}
  BY EffectiveActive DEF DocOK
<1>2. /\ e = "failed" <=> d.phase = "failed"
      /\ d.phase = "operational_failure" => e \in RetryTargetPhases
  BY EffectiveActive, PhaseFacts DEF TerminalPhases
<1>3. /\ d.auditor # None => d.auditor \in Auditors
      /\ d.builder # None => d.builder \in Builders
      /\ d.pending # None => d.pending \in Questions
  BY <1>1 DEF Documents
<1>4. ErrorRecordOK(d)
  BY <1>1, PhaseFacts DEF ErrorOK, ErrorRecordOK, TerminalPhases
<1>5. NestedResultsOK(d)
  BY <1>1, <1>3 DEF ContentOK, BuilderOK, AuditorOK, NestedResultsOK, StaleRevision, Auditors
<1>6. TaskIdentityOK(d)
  BY DEF CheckedOK, TaskIdentityOK
<1>7. PendingPhaseOK(d)
  <2> SUFFICES ASSUME d.pending # None, e # "awaiting_input"
               PROVE  LET k == IF d.phase = "failed" THEN d.error.failed ELSE e
                      IN  /\ d.pending.answered
                          /\ \/ k = "architecting" /\ d.pending.kind = "architect_input"
                             \/ k = "building" /\ d.pending.kind = "builder_guidance"
                          /\ PendingContextOK(d)
    BY DEF PendingPhaseOK
  <2> PICK k : k = IF d.phase = "failed" THEN d.error.failed ELSE e
    OBVIOUS
  <2>1. KeptFor(d, k) /\ (k = "architecting" => DecisionRelationshipsOK(d, TRUE))
    <3>1. PendingOK(d, e) /\ DecisionOK(d, e)
      BY <1>1 DEF ContentOK
    <3>2. CASE d.phase = "failed"
      BY <1>2, <3>1, <3>2 DEF PendingOK
    <3>3. CASE d.phase # "failed"
      <4>1. KeptFor(d, k) /\ k = e
        BY <1>2, <3>1, <3>3 DEF PendingOK
      <4> QED
        BY <3>1, <4>1 DEF DecisionOK
    <3> QED
      BY <3>2, <3>3
  <2>2. CASE k = "architecting"
    BY <2>1, <2>2 DEF KeptFor, PendingContextOK
  <2>3. CASE k = "building"
    <3>1. e = "building"
      BY <1>1, <1>2, <2>3 DEF ContentOK, PendingOK
    <3>2. d.builder # None /\ d.pending.kind = "builder_guidance" /\ d.pending.about = "BLOCKED"
          /\ d.pending.answered
      BY <2>1, <2>3 DEF KeptFor
    <3>3. d.builder.status = "BLOCKED"
      BY <1>3, <3>1, <3>2 DEF RefusedGuidedCommit, Builders
    <3> QED
      BY <2>3, <3>2, <3>3 DEF PendingContextOK
  <2> QED
    BY <2>1, <2>2, <2>3 DEF KeptFor
<1>8. VerificationOK(d)
  <2>1. VerifiedOK(d, e) /\ VerifyConfigured \in BOOLEAN
    BY <1>1, VerifyConfiguredAssumption DEF ContentOK
  <2> QED
    BY <2>1 DEF VerifiedOK, VerificationOK
<1>9. AwaitingInputOK(d)
  <2> SUFFICES ASSUME e = "awaiting_input"
               PROVE  AwaitingInputOK(d)
    BY DEF AwaitingInputOK
  <2>1. /\ d.worktree # None /\ Ready(d) /\ PendingOK(d, e) /\ DecisionOK(d, e)
        /\ d.pending # None
    BY <1>1, ActivePhases DEF ContentOK, TaskOK, TaskPhases, PendingOK
  <2>2. d.pending.kind \in QuestionKinds
    BY <1>3, <2>1 DEF Questions
  <2>3. CASE d.pending.kind \in BuilderKinds
    BY <2>1, <2>3 DEF PendingOK, BuilderKinds, AwaitingInputOK, PendingContextOK
  <2>4. CASE d.pending.kind \in ArchitectKinds
    <3>1. DecisionRelationshipsOK(d, TRUE)
      BY <2>1, <2>4 DEF DecisionOK, ArchitectAsked
    <3> QED
      BY <2>1, <2>4, <3>1 DEF PendingOK, ArchitectKinds, AwaitingInputOK, PendingContextOK
  <2> QED
    BY <2>2, <2>3, <2>4 DEF QuestionKinds, BuilderKinds, ArchitectKinds
<1>10. DecisionPhasesOK(d)
  BY <1>1 DEF ContentOK, DecisionOK, DecisionPhasesOK, DecisionRelationshipsOK
<1>11. PostBuildOK(d)
  <2> SUFFICES ASSUME e \in PostBuildPhases
               PROVE  PostBuildOK(d)
    BY DEF PostBuildOK
  <2>1. BuilderOK(d, e) /\ AuditorOK(d, e)
    BY <1>1 DEF ContentOK
  <2>2. d.expectedHead = d.lastHead /\ (e \in MergePhases => d.mergeTask = d.lastHead)
    BY DEF ExpectedOK, HeadOK
  <2> QED
    BY <2>1, <2>2 DEF BuilderOK, AuditorOK, PostBuildOK, CleanupPhases
<1>12. PhaseRequirementsOK(d)
  BY <1>1 DEF ContentOK, TaskOK, TaskPhases, PhaseRequirementsOK
<1> QED
  BY <1>4, <1>5, <1>6, <1>7, <1>8, <1>9, <1>10, <1>11, <1>12 DEF Loadable

(* Whatever is saved, at any phase and after any failure, load_state       *)
(* accepts again, but for the two documents known to be refused.           *)
THEOREM SavedAlwaysLoads ==
  ASSUME "leftover" \notin Faults
  PROVE  Spec => []SavedDocumentLoads
<1>1. IInv /\ HInv => SavedDocumentLoads
  BY SavedLoads DEF IInv, DiskOK, HInv, SavedDocumentLoads
<1> QED
  BY <1>1, Invariant, OneCommit, PTL

(* A crash between any two steps leaves a run that resume() accepts unless *)
(* someone worked in the worktree since: every effect on Git that a lost   *)
(* transition may have had is one the validation of the saved phase allows *)
THEOREM CrashesResume ==
  ASSUME "leftover" \notin Faults
  PROVE  Spec => []CrashedRunResumes
<1>1. IInv /\ GInv /\ HInv => CrashedRunResumes
  <2> SUFFICES ASSUME IInv, GInv, HInv, disk # None, disk.phase \notin TerminalPhases,
                      ~touched, ~RefusedGuidedCommit(disk), ~StaleRevision(disk)
               PROVE  Resumable(disk)
    BY DEF CrashedRunResumes
  <2>1. Loadable(disk)
    BY SavedLoads DEF IInv, DiskOK, HInv
  <2>2. /\ DocOK(disk) /\ OwnsAll(disk, EffectivePhase(disk))
        /\ ClaimsOK(disk) /\ DiskMatches
    BY DEF IInv, DiskOK, GInv, Knows
  <2> PICK e : e = EffectivePhase(disk)
    OBVIOUS
  <2>3. e \in RetryTargetPhases /\ ContentOK(disk, e)
    BY <2>2, EffectiveActive DEF DocOK, TerminalPhases
  <2>4. ASSUME disk.worktree # None, tree # None
        PROVE  tree.task = disk.worktree.task /\ branch[disk.worktree.task] # None
    <3>1. tree.task \in Tasks /\ branch[tree.task] # None
      BY <2>4, Typed
    <3>2. e # "creating_worktree"
      BY <2>3, <2>4 DEF ContentOK, TaskOK
    <3>3. tree.task = disk.worktree.task
      BY <2>2, <2>4, <3>1, <3>2 DEF OwnsAll, Owned
    <3> QED
      BY <3>1, <3>3
  <2>5. ASSUME disk.worktree # None, e \notin CleanupPhases
        PROVE  TaskWorktreeValid(disk)
    BY <2>2, <2>3, <2>4, <2>5 DEF DiskMatches, TaskWorktreeValid
  <2>6. ValidateResume(disk)
    <3>1. \E i \in DOMAIN integ : integ[i].id = disk.integrationHead
      BY <2>2 DEF ClaimsOK, Published
    <3>2. CASE e = "cleanup_branch"
      BY <2>2, <3>1, <3>2 DEF ClaimsOK, ValidateResume
    <3>3. CASE e = "cleanup_worktree"
      BY <2>4, <3>1, <3>3 DEF ValidateResume
    <3>4. CASE e \notin CleanupPhases
      BY <2>5, <3>1, <3>4 DEF ValidateResume, CleanupPhases
    <3> QED
      BY <3>2, <3>3, <3>4 DEF CleanupPhases
  <2> QED
    BY <2>1, <2>6 DEF Resumable
<1> QED
  BY <1>1, Invariant, GitInvariant, OneCommit, PTL
=============================================================================
