--------------------------- MODULE RunHistory_proofs ---------------------------
(***************************************************************************)
(* What the phase history says of a run, whatever fails, is lost or goes   *)
(* on while a reader compares: a snapshot finds no disagreement, and the   *)
(* reader of two neighbouring records finds a discontinuity or a lowered   *)
(* counter only where something was lost or failed.                        *)
(***************************************************************************)
EXTENDS RunHistory, SupervisorGit_proofs

USE DEF BetweenSaves

(* No counter of s is lower than that of d. *)
Rises(d, s) == \A c \in CounterFields : d[c] <= s[c]

(* A counter of s is lower than that of d only where edge resets it. *)
Lawful(d, s, edge) ==
  \A c \in CounterFields : d[c] <= s[c] \/ (s[c] = 0 /\ edge \in ResetTransitions(c))

(* a dispatch that waits for its save has reset no more than it may *)
MoveOK == pc \in {"saving", "signal"} => Lawful(disk, mem, <<disk.phase, mem.phase>>)

(* the record r says what the document d says *)
Current(r, d) == r.after = d.phase /\ \A c \in CounterFields : r.counters[c] = d[c]

(* A record that was read has become no more than outdated since. *)
RecordOK(r, d) ==
  /\ {"counters", "later"} \subseteq DOMAIN r /\ r.later \in BOOLEAN /\ d # None
  /\ r.later => /\ r = [after |-> r.after, counters |-> r.counters, later |-> TRUE]
                /\ Current(r, d)
  /\ r.counters.accepted \in Nat /\ r.counters.accepted <= d.accepted

HistoryOK ==
  /\ owed # None => disk # None /\ Current(owed, disk)
  /\ newest # None => RecordOK(newest, disk)
  /\ page # None => RecordOK(page, disk)

(* why the record r may have a lower counter c than the one before it *)
Excused(r, c, d) ==
  \/ PermittedReset(c, r)
  \/ d.error # None /\ d.error.failed # r.phase

(* What follows the record r, the outcome o or else the next advance() of  *)
(* the document d, begins where r ended.                                   *)
Continues(r, o, d) ==
  IF o = None
    THEN r.after = d.phase /\ \A c \in CounterFields : r.counters[c] <= d[c]
    ELSE /\ r.after = o.phase
         /\ \A c \in CounterFields : r.counters[c] <= o.counters[c] \/ Excused(o, c, d)

RecordTyped(r) ==
  /\ r = [after |-> r.after, counters |-> r.counters, later |-> r.later]
  /\ \A c \in CounterFields : r.counters[c] \in Nat

ContinuityOK ==
  newest # None => RecordTyped(newest) /\ (missed = {} => Continues(newest, owed, disk))

HistoryInv == IInv /\ MoveOK /\ HistoryOK /\ ContinuityOK

-----------------------------------------------------------------------------
(* Counters and the transitions that reset them *)

LEMMA CounterNames ==
  /\ CounterFields \subseteq Fields
  /\ \A c \in CounterFields :
       c \in {"accepted", "revisions", "replans", "architectRetries", "guidance", "opRetries"}
  BY DEF CounterFields, Fields

LEMMA DocumentFields ==
  ASSUME NEW d \in Documents
  PROVE  d = [f \in Fields |-> d[f]] /\ \A c \in CounterFields : d[c] \in Nat
<1>1. d = [f \in Fields |-> d[f]]
  BY DEF Documents, Fields
<1>2. /\ d.accepted \in Nat /\ d.revisions \in Nat /\ d.replans \in Nat
      /\ d.architectRetries \in Nat /\ d.guidance \in Nat /\ d.opRetries \in Nat
  BY Limits DEF Documents
<1> QED
  BY <1>1, <1>2 DEF CounterFields

LEMMA Resets ==
  /\ ResetTransitions("accepted") = {} /\ ResetTransitions("opRetries") = {}
  /\ \A p \in {"planning", "creating_worktree"}, q \in {"building", "architecting"} :
       <<p, q>> \in ResetTransitions("revisions") /\ <<p, q>> \in ResetTransitions("guidance")
  /\ \A q \in {"building", "planning"} :
       <<"recording_decision", q>> \in ResetTransitions("architectRetries")
  /\ \A q \in {"verifying", "auditing"} : <<"building", q>> \in ResetTransitions("guidance")
  /\ \A c \in {"revisions", "replans", "architectRetries", "guidance"} :
       <<"cleanup_branch", "planning">> \in ResetTransitions(c)
  BY DEF ResetTransitions

LEMMA ResetsMove ==
  ASSUME NEW c \in CounterFields, NEW p, NEW q, <<p, q>> \in ResetTransitions(c)
  PROVE  p # q /\ q \notin TerminalPhases
<1>1. \A S, T, a, b : <<a, b>> \in S \X T => a \in S /\ b \in T
  OBVIOUS
<1>2. c \in {"revisions", "replans", "architectRetries", "guidance"}
  BY Resets, CounterNames
<1>3. \/ <<p, q>> = <<"cleanup_branch", "planning">>
      \/ <<p, q>> \in {"planning", "creating_worktree"} \X {"building", "architecting"}
      \/ <<p, q>> \in {"recording_decision"} \X {"building", "planning"}
      \/ <<p, q>> \in {"building"} \X {"verifying", "auditing"}
  BY <1>2 DEF ResetTransitions
<1> QED
  BY <1>1, <1>3 DEF TerminalPhases

LEMMA SameRises ==
  ASSUME NEW d \in Documents, NEW s, \A c \in CounterFields : s[c] = d[c]
  PROVE  Rises(d, s) /\ \A edge : Lawful(d, s, edge)
<1>1. \A c \in CounterFields : d[c] \in Nat
  BY DocumentFields
<1> QED
  BY <1>1 DEF Rises, Lawful

(* What a checkpoint writes is no counter. *)
LEMMA CheckpointCounts ==
  ASSUME NEW s, s = [f \in Fields |-> s[f]]
  PROVE  /\ \A c \in CounterFields : Checkpoint(s)[c] = s[c]
         /\ Checkpoint(s).phase = s.phase /\ Checkpoint(s).error = s.error
<1>1. PICK i, h, n : Checkpoint(s) = [s EXCEPT !.integrationHead = i, !.expectedHead = h,
                                              !.snapshot = n]
  BY DEF Checkpoint
<1> QED
  BY <1>1 DEF Fields, CounterFields

-----------------------------------------------------------------------------
(* How a dispatch ends *)

Passes == pc' \in {"saving", "signal"} /\ UNCHANGED disk
          /\ Lawful(mem, mem', <<mem.phase, mem'.phase>>)

Stops ==
  /\ \/ pc' = "opfail"
     \/ pc' = "down" /\ disk'.phase \in TerminalPhases
  /\ Rises(mem, disk')

Ceases == pc' \in {"down", "agent", "validated", "inspected"} /\ UNCHANGED disk

Advances == Passes \/ Stops \/ Ceases

LEMMA TransitionMoves ==
  ASSUME NEW s, Transition(s), Lawful(mem, s, <<mem.phase, s.phase>>)
  PROVE  Advances
  BY DEF Transition, Control, Advances, Passes

LEMMA FailureMoves ==
  ASSUME NEW s, s = [f \in Fields |-> s[f]], Rises(mem, s), NEW failed, NEW repair, NEW left,
         FailWith(s, failed, repair, "opfail", left)
  PROVE  Advances
<1>1. PICK e : e = [failed |-> failed, retryable |-> TRUE, repair |-> repair]
  OBVIOUS
<1>2. PICK t : t = [s EXCEPT !.phase = "operational_failure", !.error = e]
  OBVIOUS
<1>3. Die \/ Persist(t, "opfail")
  BY <1>1, <1>2 DEF FailWith
<1>4. t = [f \in Fields |-> t[f]] /\ \A c \in CounterFields : t[c] = s[c]
  BY <1>2 DEF Fields, CounterFields
<1>5. \A c \in CounterFields : Checkpoint(t)[c] = s[c]
  BY <1>4, CheckpointCounts
<1>6. CASE Die
  BY <1>6 DEF Die, Control, Advances, Ceases
<1>7. CASE Persist(t, "opfail")
  <2>1. pc' = "opfail" /\ disk' = Checkpoint(t)
    BY <1>7 DEF Persist, Control
  <2> QED
    BY <1>5, <2>1 DEF Advances, Stops, Rises
<1> QED
  BY <1>3, <1>6, <1>7

LEMMA TerminalMoves ==
  ASSUME NEW s, s = [f \in Fields |-> s[f]], Rises(mem, s), Terminal(s)
  PROVE  Advances
<1>1. PICK e : e = [failed |-> mem.phase, retryable |-> FALSE, repair |-> FALSE]
  OBVIOUS
<1>2. PICK t : t = [s EXCEPT !.phase = "failed", !.error = e]
  OBVIOUS
<1>3. pc' = "down" /\ disk' = Checkpoint(t)
  BY <1>1, <1>2 DEF Terminal, Persist, Control
<1>4. t = [f \in Fields |-> t[f]] /\ t.phase = "failed" /\ \A c \in CounterFields : t[c] = s[c]
  BY <1>2 DEF Fields, CounterFields
<1>5. Checkpoint(t).phase = "failed" /\ \A c \in CounterFields : Checkpoint(t)[c] = s[c]
  BY <1>4, CheckpointCounts
<1> QED
  BY <1>3, <1>5 DEF Advances, Stops, Rises, TerminalPhases

(* Git or a decision's file fails a phase that has counted nothing yet.    *)
LEMMA PlainFailureMoves ==
  ASSUME mem \in Documents, NEW s, s = [f \in Fields |-> s[f]],
         \A c \in CounterFields : s[c] = mem[c],
         NEW failed, NEW repair, Fail(s, failed, repair)
  PROVE  Advances
  BY SameRises, FailureMoves DEF Fail

LEMMA Working ==
  ASSUME IInv, pc \in BetweenSaves
  PROVE  /\ mem \in Documents /\ mem = [f \in Fields |-> mem[f]] /\ disk = mem
         /\ \A c \in CounterFields : mem[c] \in Nat
  BY AtWork, DocumentFields

(* A dispatch that resets nothing *)
LEMMA PlainMoves ==
  ASSUME IInv, pc \in BetweenSaves, NEW s, \A c \in CounterFields : s[c] = mem[c],
         s = [f \in Fields |-> s[f]],
         Transition(s) \/ Terminal(s) \/ \E failed, repair : Fail(s, failed, repair)
  PROVE  Advances
  BY Working, SameRises, TransitionMoves, TerminalMoves, PlainFailureMoves

LEMMA GitFailureMoves ==
  ASSUME IInv, pc \in BetweenSaves, NEW s, \A c \in CounterFields : s[c] = mem[c],
         s = [f \in Fields |-> s[f]], GitFails(s)
  PROVE  Advances
  BY PlainMoves DEF GitFails

LEMMA RetriesMove ==
  ASSUME IInv, RetryOperationalFailure \/ Invoke \/ ReachLimit
  PROVE  Advances
<1>1. PICK s, t : /\ s = [mem EXCEPT !.error = None, !.phase = mem.error.failed]
                  /\ t = [mem EXCEPT !.phase = "done"]
  OBVIOUS
<1>2. CASE Invoke
  BY <1>2 DEF Invoke, Control, Advances, Ceases
<1>3. ASSUME pc = "idle", Transition(s) \/ Transition(t)
      PROVE  Advances
  <2>1. /\ s = [f \in Fields |-> s[f]] /\ \A c \in CounterFields : s[c] = mem[c]
        /\ t = [f \in Fields |-> t[f]] /\ \A c \in CounterFields : t[c] = mem[c]
    BY <1>1, <1>3, Working DEF Fields, CounterFields
  <2> QED
    BY <1>3, <2>1, PlainMoves
<1> QED
  BY <1>1, <1>2, <1>3 DEF RetryOperationalFailure, ReachLimit

LEMMA RoutedCounts ==
  ASSUME NEW u, u = [f \in Fields |-> u[f]]
  PROVE  /\ Route(u) = [f \in Fields |-> Route(u)[f]]
         /\ Route(u).phase \in {"building", "architecting"}
         /\ \A c \in CounterFields : Route(u)[c] = u[c]
  BY DEF Route, Fields, CounterFields

(* The counters of one build start again when the task is planned. *)
LEMMA RoutedMoves ==
  ASSUME IInv, pc \in BetweenSaves, mem.phase \in {"planning", "creating_worktree"},
         NEW u, u = [f \in Fields |-> u[f]], u.revisions = 0, u.guidance = 0,
         \A c \in CounterFields \ {"revisions", "guidance"} : u[c] = mem[c], Transition(Route(u))
  PROVE  Advances
<1>1. PICK s : s = Route(u)
  OBVIOUS
<1>2. /\ s.phase \in {"building", "architecting"} /\ s.revisions = 0 /\ s.guidance = 0
      /\ \A c \in CounterFields \ {"revisions", "guidance"} : s[c] = mem[c]
  BY <1>1, RoutedCounts DEF CounterFields
<1>3. \A c \in {"revisions", "guidance"} : <<mem.phase, s.phase>> \in ResetTransitions(c)
  BY <1>2, Resets
<1>4. Lawful(mem, s, <<mem.phase, s.phase>>)
  BY <1>2, <1>3, Working DEF Lawful
<1> QED
  BY <1>1, <1>4, TransitionMoves

LEMMA PlannerMoves ==
  ASSUME IInv, PlannerComplete \/ PlannerReady
  PROVE  Advances
<1>1. pc = "agent" /\ mem.phase = "planning"
  BY DEF PlannerComplete, PlannerReady
<1>2. mem = [f \in Fields |-> mem[f]]
  BY <1>1, Working
<1>3. CASE PlannerComplete
  <2>1. PICK p : p = [status |-> "COMPLETE", task |-> None, decision |-> FALSE]
    OBVIOUS
  <2>2. PICK s, t : s = [mem EXCEPT !.planner = p] /\ t = [s EXCEPT !.phase = "done"]
    OBVIOUS
  <2>3. Terminal(s) \/ Transition(t)
    BY <1>3, <2>1, <2>2 DEF PlannerComplete
  <2>4. /\ s = [f \in Fields |-> s[f]] /\ \A c \in CounterFields : s[c] = mem[c]
        /\ t = [f \in Fields |-> t[f]] /\ \A c \in CounterFields : t[c] = mem[c]
    BY <1>2, <2>2 DEF Fields, CounterFields
  <2> QED
    BY <1>1, <2>3, <2>4, PlainMoves
<1>4. CASE PlannerReady
  <2>1. PICK p, i, j :
          \/ Transition(Route([[mem EXCEPT !.planner = p] EXCEPT !.revisions = 0, !.guidance = 0]))
          \/ Transition([[mem EXCEPT !.planner = p] EXCEPT !.intent = i,
                                                          !.phase = "creating_worktree"])
          \/ GitFails([[mem EXCEPT !.planner = p] EXCEPT !.intent = j])
    <3>1. PICK t \in Tasks, d \in BOOLEAN :
           LET s == [mem EXCEPT !.planner = [status |-> "READY", task |-> t, decision |-> d]]
           IN  \/ Transition(Route([s EXCEPT !.revisions = 0, !.guidance = 0]))
               \/ Transition([s EXCEPT !.intent = [task |-> t, base |-> IntegrationHead],
                                       !.phase = "creating_worktree"])
               \/ GitFails([s EXCEPT !.intent = [task |-> t, base |-> None]])
      BY <1>4 DEF PlannerReady
    <3>2. PICK p, i, j : /\ p = [status |-> "READY", task |-> t, decision |-> d]
                         /\ i = [task |-> t, base |-> IntegrationHead]
                         /\ j = [task |-> t, base |-> None]
      OBVIOUS
    <3> QED
      BY <3>1, <3>2
  <2>2. PICK s : s = [mem EXCEPT !.planner = p]
    OBVIOUS
  <2>3. PICK u, v, w : /\ u = [s EXCEPT !.revisions = 0, !.guidance = 0]
                       /\ v = [s EXCEPT !.intent = i, !.phase = "creating_worktree"]
                       /\ w = [s EXCEPT !.intent = j]
    OBVIOUS
  <2>4. s = [f \in Fields |-> s[f]] /\ \A f \in Fields \ {"planner"} : s[f] = mem[f]
    BY <1>2, <2>2 DEF Fields
  <2>5. /\ v = [f \in Fields |-> v[f]] /\ \A c \in CounterFields : v[c] = mem[c]
        /\ w = [f \in Fields |-> w[f]] /\ \A c \in CounterFields : w[c] = mem[c]
    BY <2>3, <2>4 DEF Fields, CounterFields
  <2>6. /\ u = [f \in Fields |-> u[f]] /\ u.revisions = 0 /\ u.guidance = 0
        /\ \A c \in CounterFields \ {"revisions", "guidance"} : u[c] = mem[c]
    BY <2>3, <2>4 DEF Fields, CounterFields
  <2>7. Transition(Route(u)) \/ Transition(v) \/ GitFails(w)
    BY <2>1, <2>2, <2>3
  <2> QED
    BY <1>1, <2>5, <2>6, <2>7, RoutedMoves, PlainMoves, GitFailureMoves
<1> QED
  BY <1>3, <1>4

LEMMA WorktreeMoves ==
  ASSUME IInv, CreateWorktree \/ ProvisioningFails \/ CreateWorktreeFails
  PROVE  Advances
<1>1. pc = "idle" /\ mem.phase = "creating_worktree"
  BY DEF CreateWorktree, ProvisioningFails, CreateWorktreeFails
<1>2. mem = [f \in Fields |-> mem[f]]
  BY <1>1, Working
<1>3. CASE CreateWorktree
  <2>1. PICK u : u = [mem EXCEPT !.worktree = mem.intent, !.intent = None, !.revisions = 0,
                                 !.guidance = 0]
    OBVIOUS
  <2>2. /\ u = [f \in Fields |-> u[f]] /\ u.revisions = 0 /\ u.guidance = 0
        /\ \A c \in CounterFields \ {"revisions", "guidance"} : u[c] = mem[c]
    BY <1>2, <2>1 DEF Fields, CounterFields
  <2>3. Transition(Route(u))
    BY <1>3, <2>1 DEF CreateWorktree
  <2> QED
    BY <1>1, <2>2, <2>3, RoutedMoves
<1>4. CASE ProvisioningFails \/ CreateWorktreeFails
  BY <1>1, <1>2, <1>4, PlainMoves, GitFailureMoves DEF ProvisioningFails, CreateWorktreeFails
<1> QED
  BY <1>3, <1>4

LEMMA DecisionMoves ==
  ASSUME IInv, RecordDecision \/ RecordDecisionFails
  PROVE  Advances
<1>1. pc = "idle" /\ mem.phase = "recording_decision"
  BY DEF RecordDecision, RecordDecisionFails
<1>2. mem = [f \in Fields |-> mem[f]]
  BY <1>1, Working
<1>3. CASE RecordDecision
  <2>1. PICK p : p = IF mem.decision = "planner" THEN "building" ELSE "planning"
    OBVIOUS
  <2>2. PICK s : s = [mem EXCEPT !.adr = None, !.decision = None, !.architectRetries = 0,
                                 !.phase = p]
    OBVIOUS
  <2>3. Transition(s)
    BY <1>3, <2>1, <2>2 DEF RecordDecision
  <2>4. /\ s.architectRetries = 0 /\ s.phase = p
        /\ \A c \in CounterFields \ {"architectRetries"} : s[c] = mem[c]
    BY <1>2, <2>2 DEF Fields, CounterFields
  <2>5. <<mem.phase, s.phase>> \in ResetTransitions("architectRetries")
    BY <1>1, <2>1, <2>4, Resets
  <2>6. Lawful(mem, s, <<mem.phase, s.phase>>)
    BY <1>1, <2>4, <2>5, Working DEF Lawful
  <2> QED
    BY <2>3, <2>6, TransitionMoves
<1>4. CASE RecordDecisionFails
  BY <1>1, <1>2, <1>4, PlainMoves DEF RecordDecisionFails
<1> QED
  BY <1>3, <1>4

(* A count goes up by one: the limit is passed, or the run goes on. *)
LEMMA CountMoves ==
  ASSUME IInv, pc \in BetweenSaves, NEW k \in CounterFields, NEW s, NEW t,
         s = [f \in Fields |-> s[f]], t = [f \in Fields |-> t[f]],
         \A c \in CounterFields \ {k} : s[c] = mem[c] /\ t[c] = mem[c],
         s[k] = mem[k] + 1, t[k] = mem[k] + 1,
         Terminal(s) \/ Transition(t)
  PROVE  Advances
<1>1. \A c \in CounterFields : mem[c] \in Nat
  BY Working
<1>2. Rises(mem, s) /\ Lawful(mem, t, <<mem.phase, t.phase>>)
  BY <1>1 DEF Rises, Lawful
<1> QED
  BY <1>2, TerminalMoves, TransitionMoves

LEMMA ArchitectNeedsInputMoves ==
  ASSUME IInv, ArchitectNeedsInput
  PROVE  Advances
<1>1. PICK a, n, q : /\ a = [status |-> "NEEDS_INPUT", question |-> mem.decision, adr |-> None]
                     /\ n = mem.architectRetries + 1
                     /\ q = Ask("architect_input", mem.decision, None)
  OBVIOUS
<1>2. PICK s : s = [mem EXCEPT !.architect = a, !.architectRetries = n]
  OBVIOUS
<1>3. PICK t : t = [s EXCEPT !.pending = q, !.phase = "awaiting_input"]
  OBVIOUS
<1>4. pc = "agent" /\ (Terminal(s) \/ Transition(t))
  BY <1>1, <1>2, <1>3 DEF ArchitectNeedsInput
<1>5. /\ s = [f \in Fields |-> s[f]] /\ s.architectRetries = mem.architectRetries + 1
      /\ \A c \in CounterFields \ {"architectRetries"} : s[c] = mem[c]
  BY <1>1, <1>2, <1>4, Working DEF Fields, CounterFields
<1>6. /\ t = [f \in Fields |-> t[f]] /\ t.architectRetries = mem.architectRetries + 1
      /\ \A c \in CounterFields \ {"architectRetries"} : t[c] = mem[c]
  BY <1>3, <1>5 DEF Fields, CounterFields
<1> QED
  BY <1>4, <1>5, <1>6, CountMoves DEF CounterFields

LEMMA PreparedCounts ==
  ASSUME NEW s, s = [f \in Fields |-> s[f]]
  PROVE  /\ PrepareRecord(s) = [f \in Fields |-> PrepareRecord(s)[f]]
         /\ \A c \in CounterFields : PrepareRecord(s)[c] = s[c]
<1>1. PICK a : a = [number |-> NextAdrNumber, content |-> s.architect.adr]
  OBVIOUS
<1>2. PrepareRecord(s) = [s EXCEPT !.adr = a, !.phase = "recording_decision"]
  BY <1>1 DEF PrepareRecord
<1> QED
  BY <1>2 DEF Fields, CounterFields

LEMMA ArchitectDecidesMoves ==
  ASSUME IInv, ArchitectDecides
  PROVE  Advances
<1>1. PICK a, q : /\ a = [status |-> "DECIDED", question |-> mem.decision, adr |-> nextId]
                  /\ q = Ask("decision_approval", None, nextId)
  OBVIOUS
<1>2. PICK s : s = [mem EXCEPT !.architect = a]
  OBVIOUS
<1>3. PICK r : r = PrepareRecord(s)
  OBVIOUS
<1>4. PICK t, u : /\ t = [s EXCEPT !.pending = q, !.phase = "awaiting_input"]
                  /\ u = [r EXCEPT !.pending = None]
  OBVIOUS
<1>5. /\ pc = "agent"
      /\ \/ Control(t, "signal") /\ UNCHANGED <<disk, touched, session>>
         \/ Transition(u)
         \/ Fail(s, "architecting", TRUE)
  BY <1>1, <1>2, <1>3, <1>4 DEF ArchitectDecides
<1>6. s = [f \in Fields |-> s[f]] /\ \A c \in CounterFields : s[c] = mem[c]
  BY <1>2, <1>5, Working DEF Fields, CounterFields
<1>7. r = [f \in Fields |-> r[f]] /\ \A c \in CounterFields : r[c] = mem[c]
  BY <1>3, <1>6, PreparedCounts
<1>8. /\ t = [f \in Fields |-> t[f]] /\ \A c \in CounterFields : t[c] = mem[c]
      /\ u = [f \in Fields |-> u[f]] /\ \A c \in CounterFields : u[c] = mem[c]
  BY <1>4, <1>6, <1>7 DEF Fields, CounterFields
<1>9. CASE Control(t, "signal") /\ UNCHANGED <<disk, touched, session>>
  <2>1. Lawful(mem, t, <<mem.phase, t.phase>>)
    BY <1>5, <1>8, Working, SameRises
  <2> QED
    BY <1>9, <2>1 DEF Control, Advances, Passes
<1> QED
  BY <1>5, <1>6, <1>8, <1>9, PlainMoves

LEMMA BuilderMoves ==
  ASSUME IInv, BuilderReportsComplete \/ BuilderReportsBlocked
  PROVE  Advances
<1>1. pc = "agent" /\ mem.phase = "building"
  BY DEF BuilderReportsComplete, BuilderReportsBlocked
<1>2. mem = [f \in Fields |-> mem[f]]
  BY <1>1, Working
<1>3. CASE BuilderReportsComplete
  <2>1. PICK b, h, e :
          /\ e \in {"verifying", "auditing"}
          /\ \/ Transition([[mem EXCEPT !.builder = b] EXCEPT
                   !.lastHead = h, !.pending = None, !.guidance = 0, !.phase = e])
             \/ GitFails([mem EXCEPT !.builder = b])
    <3>1. PICK commit \in {0, TaskHead} :
           LET s == [mem EXCEPT !.builder = [task |-> mem.planner.task, status |-> "COMPLETE",
                                             commit |-> commit]]
           IN  \/ Transition([s EXCEPT
                     !.lastHead = commit, !.pending = None, !.guidance = 0,
                     !.phase = IF VerifyConfigured THEN "verifying" ELSE "auditing"])
               \/ GitFails(s)
      BY <1>3 DEF BuilderReportsComplete
    <3>2. PICK b, e : /\ b = [task |-> mem.planner.task, status |-> "COMPLETE", commit |-> commit]
                      /\ e = IF VerifyConfigured THEN "verifying" ELSE "auditing"
      OBVIOUS
    <3> QED
      BY <3>1, <3>2
  <2>2. PICK s : s = [mem EXCEPT !.builder = b]
    OBVIOUS
  <2>3. PICK t : t = [s EXCEPT !.lastHead = h, !.pending = None, !.guidance = 0, !.phase = e]
    OBVIOUS
  <2>4. Transition(t) \/ GitFails(s)
    BY <2>1, <2>2, <2>3
  <2>5. s = [f \in Fields |-> s[f]] /\ \A c \in CounterFields : s[c] = mem[c]
    BY <1>2, <2>2 DEF Fields, CounterFields
  <2>6. t.guidance = 0 /\ t.phase = e /\ \A c \in CounterFields \ {"guidance"} : t[c] = mem[c]
    BY <2>3, <2>5 DEF Fields, CounterFields
  <2>7. <<mem.phase, t.phase>> \in ResetTransitions("guidance")
    BY <1>1, <2>1, <2>6, Resets
  <2>8. Lawful(mem, t, <<mem.phase, t.phase>>)
    BY <1>1, <2>6, <2>7, Working DEF Lawful
  <2> QED
    BY <1>1, <2>4, <2>5, <2>8, TransitionMoves, GitFailureMoves
<1>4. CASE BuilderReportsBlocked
  <2>1. PICK b, n, q : Transition([mem EXCEPT !.builder = b, !.guidance = n, !.pending = q,
                                              !.phase = "awaiting_input"])
                       /\ n = mem.guidance + 1
    <3>1. PICK kind : kind = IF mem.guidance + 1 > MaxGuidance THEN "builder_escalation"
                                                               ELSE "builder_guidance"
      OBVIOUS
    <3>2. PICK b, n, q : /\ b = [task |-> mem.planner.task, status |-> "BLOCKED", commit |-> None]
                         /\ n = mem.guidance + 1 /\ q = Ask(kind, "BLOCKED", None)
      OBVIOUS
    <3> QED
      BY <1>4, <3>1, <3>2 DEF BuilderReportsBlocked
  <2>2. PICK t : t = [mem EXCEPT !.builder = b, !.guidance = n, !.pending = q,
                                 !.phase = "awaiting_input"]
    OBVIOUS
  <2>3. /\ t = [f \in Fields |-> t[f]] /\ t.guidance = mem.guidance + 1
        /\ \A c \in CounterFields \ {"guidance"} : t[c] = mem[c]
    BY <1>2, <2>1, <2>2 DEF Fields, CounterFields
  <2>4. Transition(t) /\ pc = "agent" /\ "guidance" \in CounterFields
    BY <1>1, <2>1, <2>2 DEF CounterFields
  <2> QED
    BY <2>3, <2>4, CountMoves
<1> QED
  BY <1>3, <1>4

LEMMA VerifyMoves ==
  ASSUME IInv, Verify
  PROVE  Advances
<1>1. PICK h : Transition([mem EXCEPT !.verification = h, !.phase = "auditing"]) \/ GitFails(mem)
  BY DEF Verify
<1>2. PICK s : s = [mem EXCEPT !.verification = h, !.phase = "auditing"]
  OBVIOUS
<1>3. pc = "idle" /\ (Transition(s) \/ GitFails(mem))
  BY <1>1, <1>2 DEF Verify
<1>4. mem = [f \in Fields |-> mem[f]]
  BY <1>3, Working
<1>5. s = [f \in Fields |-> s[f]] /\ \A c \in CounterFields : s[c] = mem[c]
  BY <1>2, <1>4 DEF Fields, CounterFields
<1> QED
  BY <1>3, <1>4, <1>5, PlainMoves, GitFailureMoves

LEMMA VerdictCounts ==
  ASSUME IInv, pc = "agent", NEW v, NEW a, v = [mem EXCEPT !.auditor = a]
  PROVE  v = [f \in Fields |-> v[f]] /\ \A c \in CounterFields : v[c] = mem[c]
<1>1. mem = [f \in Fields |-> mem[f]]
  BY Working
<1> QED
  BY <1>1 DEF Fields, CounterFields

LEMMA AuditorAcceptsMoves ==
  ASSUME IInv, AuditorAccepts
  PROVE  Advances
<1>1. PICK s : s = Verdict("ACCEPT", FALSE)
  OBVIOUS
<1>2. PICK h, g : Transition([s EXCEPT !.mergePre = h, !.mergeTask = g, !.phase = "merging"])
                  \/ GitFails(s)
  BY <1>1 DEF AuditorAccepts
<1>3. PICK t : t = [s EXCEPT !.mergePre = h, !.mergeTask = g, !.phase = "merging"]
  OBVIOUS
<1>4. pc = "agent" /\ (Transition(t) \/ GitFails(s))
  BY <1>2, <1>3 DEF AuditorAccepts
<1>5. s = [f \in Fields |-> s[f]] /\ \A c \in CounterFields : s[c] = mem[c]
  <2>1. PICK a : s = [mem EXCEPT !.auditor = a]
    BY <1>1 DEF Verdict
  <2> QED
    BY <1>4, <2>1, VerdictCounts
<1>6. t = [f \in Fields |-> t[f]] /\ \A c \in CounterFields : t[c] = mem[c]
  BY <1>3, <1>5 DEF Fields, CounterFields
<1> QED
  BY <1>4, <1>5, <1>6, PlainMoves, GitFailureMoves

LEMMA AuditorRevisesMoves ==
  ASSUME IInv, AuditorRevises
  PROVE  Advances
<1>1. PICK v, n : v = Verdict("REVISE", FALSE) /\ n = v.revisions + 1
  OBVIOUS
<1>2. PICK s : s = [v EXCEPT !.revisions = n]
  OBVIOUS
<1>3. PICK t : t = [s EXCEPT !.verification = None, !.phase = "building"]
  OBVIOUS
<1>4. pc = "agent" /\ (Terminal(s) \/ Transition(t))
  BY <1>1, <1>2, <1>3 DEF AuditorRevises
<1>5. v = [f \in Fields |-> v[f]] /\ \A c \in CounterFields : v[c] = mem[c]
  <2>1. PICK a : v = [mem EXCEPT !.auditor = a]
    BY <1>1 DEF Verdict
  <2> QED
    BY <1>4, <2>1, VerdictCounts
<1>6. /\ s = [f \in Fields |-> s[f]] /\ s.revisions = mem.revisions + 1
      /\ \A c \in CounterFields \ {"revisions"} : s[c] = mem[c]
  BY <1>1, <1>2, <1>5 DEF Fields, CounterFields
<1>7. /\ t = [f \in Fields |-> t[f]] /\ t.revisions = mem.revisions + 1
      /\ \A c \in CounterFields \ {"revisions"} : t[c] = mem[c]
  BY <1>3, <1>6 DEF Fields, CounterFields
<1>8. "revisions" \in CounterFields
  BY DEF CounterFields
<1> QED
  BY <1>4, <1>6, <1>7, <1>8, CountMoves

LEMMA AuditorReplansMoves ==
  ASSUME IInv, AuditorReplans
  PROVE  Advances
<1>1. PICK d \in BOOLEAN :
       LET s == [Verdict("REPLAN", d) EXCEPT !.replans = @ + 1]
       IN  \/ Terminal(s)
           \/ Transition([s EXCEPT
                    !.builder = None, !.verification = None,
                    !.decision = IF d THEN "auditor" ELSE @,
                    !.phase = IF d THEN "architecting" ELSE "planning"])
  BY DEF AuditorReplans
<1>2. PICK v, n : v = Verdict("REPLAN", d) /\ n = v.replans + 1
  OBVIOUS
<1>3. PICK s : s = [v EXCEPT !.replans = n]
  OBVIOUS
<1>4. PICK q, e : q = (IF d THEN "auditor" ELSE s.decision)
                  /\ e = IF d THEN "architecting" ELSE "planning"
  OBVIOUS
<1>5. PICK t : t = [s EXCEPT !.builder = None, !.verification = None, !.decision = q, !.phase = e]
  OBVIOUS
<1>6. pc = "agent" /\ (Terminal(s) \/ Transition(t))
  BY <1>1, <1>2, <1>3, <1>4, <1>5 DEF AuditorReplans
<1>7. v = [f \in Fields |-> v[f]] /\ \A c \in CounterFields : v[c] = mem[c]
  <2>1. PICK a : v = [mem EXCEPT !.auditor = a]
    BY <1>2 DEF Verdict
  <2> QED
    BY <1>6, <2>1, VerdictCounts
<1>8. /\ s = [f \in Fields |-> s[f]] /\ s.replans = mem.replans + 1
      /\ \A c \in CounterFields \ {"replans"} : s[c] = mem[c]
  BY <1>2, <1>3, <1>7 DEF Fields, CounterFields
<1>9. /\ t = [f \in Fields |-> t[f]] /\ t.replans = mem.replans + 1
      /\ \A c \in CounterFields \ {"replans"} : t[c] = mem[c]
  BY <1>5, <1>8 DEF Fields, CounterFields
<1>10. "replans" \in CounterFields
  BY DEF CounterFields
<1> QED
  BY <1>6, <1>8, <1>9, <1>10, CountMoves

LEMMA MergesMove ==
  ASSUME IInv, AdoptMerge \/ Merge \/ MergeFails \/ MergeConflicts
  PROVE  Advances
<1>1. pc = "idle" /\ mem = [f \in Fields |-> mem[f]]
  BY Working DEF AdoptMerge, Merge, MergeFails, MergeConflicts
<1>2. CASE AdoptMerge \/ Merge
  <2>1. PICK i : Merged(i)
    BY <1>2 DEF AdoptMerge, Merge
  <2>2. PICK s : s = [mem EXCEPT !.mergeCommit = i, !.phase = "cleanup_worktree"]
    OBVIOUS
  <2>3. s = [f \in Fields |-> s[f]] /\ \A c \in CounterFields : s[c] = mem[c]
    BY <1>1, <2>2 DEF Fields, CounterFields
  <2>4. Transition(s)
    BY <2>1, <2>2 DEF Merged
  <2> QED
    BY <1>1, <2>3, <2>4, PlainMoves
<1>3. CASE MergeFails \/ MergeConflicts
  BY <1>1, <1>3, PlainMoves, GitFailureMoves DEF MergeFails, MergeConflicts
<1> QED
  BY <1>2, <1>3

LEMMA CleanupMoves ==
  ASSUME IInv, \/ ValidateCleanup \/ InspectWorktree \/ CleanupWorktree \/ CleanupWorktreeFails
               \/ CleanupBranch \/ CleanupBranchFails
  PROVE  Advances
<1>1. pc \in BetweenSaves /\ mem = [f \in Fields |-> mem[f]]
  <2>1. pc \in BetweenSaves
    BY DEF ValidateCleanup, InspectWorktree, CleanupWorktree, WorktreeGoes,
       CleanupWorktreeFails, CleanupBranch, CleanupBranchFails
  <2> QED
    BY <2>1, Working
<1>2. CASE CleanupWorktree
  <2>1. PICK s : s = [mem EXCEPT !.phase = "cleanup_branch"]
    OBVIOUS
  <2>2. s = [f \in Fields |-> s[f]] /\ \A c \in CounterFields : s[c] = mem[c]
    BY <1>1, <2>1 DEF Fields, CounterFields
  <2>3. Transition(s)
    BY <1>2, <2>1 DEF CleanupWorktree
  <2> QED
    BY <1>1, <2>2, <2>3, PlainMoves
<1>3. CASE CleanupBranch
  <2>1. PICK s : s = Finished(mem)
    OBVIOUS
  <2>2. mem.phase = "cleanup_branch" /\ Transition(s)
    BY <1>3, <2>1 DEF CleanupBranch
  <2>3. /\ s.accepted = mem.accepted + 1 /\ s.opRetries = mem.opRetries /\ s.phase = "planning"
        /\ s.revisions = 0 /\ s.replans = 0 /\ s.architectRetries = 0 /\ s.guidance = 0
    BY <1>1, <2>1 DEF Finished, Fields
  <2>4. /\ mem.accepted \in Nat /\ mem.opRetries \in Nat
        /\ \A c \in CounterFields :
             \/ c \in {"accepted", "opRetries"}
             \/ c \in {"revisions", "replans", "architectRetries", "guidance"}
    BY <1>1, Working DEF CounterFields
  <2>5. \A c \in {"revisions", "replans", "architectRetries", "guidance"} :
          s[c] = 0 /\ <<mem.phase, s.phase>> \in ResetTransitions(c)
    BY <2>2, <2>3, Resets
  <2>6. \A c \in {"accepted", "opRetries"} : mem[c] <= s[c]
    BY <2>3, <2>4
  <2>7. Lawful(mem, s, <<mem.phase, s.phase>>)
    BY <2>4, <2>5, <2>6 DEF Lawful
  <2> QED
    BY <2>2, <2>7, TransitionMoves
<1>4. CASE CleanupWorktreeFails \/ CleanupBranchFails
  BY <1>1, <1>4, GitFailureMoves DEF CleanupWorktreeFails, CleanupBranchFails
<1>5. CASE ValidateCleanup \/ InspectWorktree
  BY <1>5 DEF ValidateCleanup, InspectWorktree, Control, Advances, Ceases
<1> QED
  BY <1>2, <1>3, <1>4, <1>5

LEMMA ReplanFromInputMoves ==
  ASSUME IInv, Asked, ReplanFromInput
  PROVE  Advances
<1>1. PICK n : n = mem.replans + 1
  OBVIOUS
<1>2. PICK s : s = [mem EXCEPT !.replans = n, !.pending = None]
  OBVIOUS
<1>3. PICK t : t = [s EXCEPT !.builder = None, !.verification = None, !.phase = "planning"]
  OBVIOUS
<1>4. pc = "idle" /\ (Terminal(s) \/ Transition(t))
  BY <1>1, <1>2, <1>3 DEF ReplanFromInput, Asked
<1>5. /\ s = [f \in Fields |-> s[f]] /\ s.replans = mem.replans + 1
      /\ \A c \in CounterFields \ {"replans"} : s[c] = mem[c]
  BY <1>1, <1>2, <1>4, Working DEF Fields, CounterFields
<1>6. /\ t = [f \in Fields |-> t[f]] /\ t.replans = mem.replans + 1
      /\ \A c \in CounterFields \ {"replans"} : t[c] = mem[c]
  BY <1>3, <1>5 DEF Fields, CounterFields
<1>7. "replans" \in CounterFields
  BY DEF CounterFields
<1> QED
  BY <1>4, <1>5, <1>6, <1>7, CountMoves

LEMMA AnswerMoves ==
  ASSUME IInv, AnswerGuidance \/ AnswerEscalation \/ AnswerArchitect
  PROVE  Advances
<1>1. Asked
  BY DEF AnswerGuidance, AnswerEscalation, AnswerArchitect
<1>2. pc = "idle" /\ mem = [f \in Fields |-> mem[f]]
  BY <1>1, Working DEF Asked
<1>3. PICK q : q = [mem.pending EXCEPT !.answered = TRUE]
  OBVIOUS
<1>4. PICK b, a, n : /\ b = [mem EXCEPT !.pending = q, !.phase = "building"]
                     /\ a = [mem EXCEPT !.pending = q, !.phase = "architecting"]
                     /\ n = [mem EXCEPT !.pending = None]
  OBVIOUS
<1>5. \/ ReplanFromInput \/ Terminal(n)
      \/ Transition(b) \/ Transition(a) \/ Transition(mem)
  <2>1. CASE AnswerGuidance
    BY <1>3, <1>4, <2>1 DEF AnswerGuidance
  <2>2. CASE AnswerEscalation
    BY <1>4, <2>2 DEF AnswerEscalation
  <2>3. CASE AnswerArchitect
    BY <1>3, <1>4, <2>3 DEF AnswerArchitect
  <2> QED
    BY <2>1, <2>2, <2>3
<1>6. /\ b = [f \in Fields |-> b[f]] /\ \A c \in CounterFields : b[c] = mem[c]
      /\ a = [f \in Fields |-> a[f]] /\ \A c \in CounterFields : a[c] = mem[c]
      /\ n = [f \in Fields |-> n[f]] /\ \A c \in CounterFields : n[c] = mem[c]
  BY <1>2, <1>4 DEF Fields, CounterFields
<1> QED
  BY <1>1, <1>2, <1>5, <1>6, ReplanFromInputMoves, PlainMoves

LEMMA AnswerApprovalMoves ==
  ASSUME IInv, AnswerApproval
  PROVE  Advances
<1>1. PICK q, k : /\ q = Ask("architect_input", mem.decision, None)
                  /\ k = [mem.pending EXCEPT !.answered = TRUE]
  OBVIOUS
<1>2. PICK r : r = PrepareRecord(mem)
  OBVIOUS
<1>3. PICK s, t, u : /\ s = [r EXCEPT !.pending = None]
                     /\ t = [mem EXCEPT !.pending = k]
                     /\ u = [mem EXCEPT !.pending = q]
  OBVIOUS
<1>4. pc = "idle" /\ (Transition(s) \/ Fail(t, "awaiting_input", TRUE) \/ Transition(u))
  BY <1>1, <1>2, <1>3 DEF AnswerApproval, Asked
<1>5. mem = [f \in Fields |-> mem[f]]
  BY <1>4, Working
<1>6. r = [f \in Fields |-> r[f]] /\ \A c \in CounterFields : r[c] = mem[c]
  BY <1>2, <1>5, PreparedCounts
<1>7. /\ s = [f \in Fields |-> s[f]] /\ \A c \in CounterFields : s[c] = mem[c]
      /\ t = [f \in Fields |-> t[f]] /\ \A c \in CounterFields : t[c] = mem[c]
      /\ u = [f \in Fields |-> u[f]] /\ \A c \in CounterFields : u[c] = mem[c]
  BY <1>3, <1>5, <1>6 DEF Fields, CounterFields
<1> QED
  BY <1>4, <1>7, PlainMoves

LEMMA AgentFailsMoves ==
  ASSUME IInv, AgentFails
  PROVE  Advances
<1>1. pc = "agent" /\ \E leftover : FailWith(mem, mem.phase, FALSE, "opfail", leftover)
  BY DEF AgentFails
<1>2. mem \in Documents /\ mem = [f \in Fields |-> mem[f]]
  BY <1>1, Working
<1>3. Rises(mem, mem)
  BY <1>2, SameRises
<1> QED
  BY <1>1, <1>2, <1>3, FailureMoves

(* Every dispatch, agent's result and answer resets what it may and saves  *)
(* what it has counted.                                                    *)
LEMMA WorkMoves ==
  ASSUME IInv, Dispatch \/ AgentReturns \/ Answered
  PROVE  Advances
<1>1. CASE Dispatch
  BY <1>1, RetriesMove, WorktreeMoves, DecisionMoves, VerifyMoves, MergesMove, CleanupMoves
     DEF Dispatch
<1>2. CASE AgentReturns
  BY <1>2, AgentFailsMoves, PlannerMoves, ArchitectNeedsInputMoves, ArchitectDecidesMoves,
     BuilderMoves, AuditorAcceptsMoves, AuditorRevisesMoves, AuditorReplansMoves
     DEF AgentReturns
<1>3. CASE Answered
  BY <1>3, AnswerMoves, AnswerApprovalMoves DEF Answered
<1> QED
  BY <1>1, <1>2, <1>3

LEMMA WorkGuards ==
  ASSUME Dispatch \/ AgentReturns \/ Answered
  PROVE  pc \in BetweenSaves
<1>1. ASSUME Dispatch
      PROVE  pc \in BetweenSaves
  BY <1>1 DEF Dispatch, RetryOperationalFailure, Invoke, ReachLimit, CreateWorktree,
     ProvisioningFails, CreateWorktreeFails, RecordDecision, RecordDecisionFails, Verify,
     AdoptMerge, Merge, MergeFails, MergeConflicts, ValidateCleanup, InspectWorktree,
     CleanupWorktree, WorktreeGoes, CleanupWorktreeFails, CleanupBranch, CleanupBranchFails
<1>2. ASSUME AgentReturns
      PROVE  pc = "agent"
  BY <1>2 DEF AgentReturns, AgentFails, PlannerComplete, PlannerReady, ArchitectNeedsInput,
     ArchitectDecides, BuilderReportsComplete, BuilderReportsBlocked, AuditorAccepts,
     AuditorRevises, AuditorReplans
<1>3. ASSUME Answered
      PROVE  pc = "idle"
  BY <1>3 DEF Answered, AnswerGuidance, AnswerEscalation, AnswerArchitect, AnswerApproval, Asked
<1> QED
  BY <1>1, <1>2, <1>3

-----------------------------------------------------------------------------
(* Saves *)

(* The save of a dispatch writes its counters, and starts those of the     *)
(* operational retries again; so does the save of its failure.             *)
SavedCounts ==
  /\ \A c \in CounterFields \ {"opRetries"} : disk'[c] = mem[c]
  /\ disk'.opRetries = IF from = "operational_failure" THEN mem.opRetries ELSE 0

LEMMA ResetCounts ==
  ASSUME IInv, pc \in {"saving", "signal"}
  PROVE  /\ AfterReset = [f \in Fields |-> AfterReset[f]]
         /\ \A f \in Fields \ {"opRetries"} : AfterReset[f] = mem[f]
         /\ AfterReset.opRetries = IF from = "operational_failure" THEN mem.opRetries ELSE 0
<1>1. mem = [f \in Fields |-> mem[f]]
  <2>1. mem \in Documents
    BY DEF IInv, MemOK, DocOK
  <2> QED
    BY <2>1, DocumentFields
<1>2. PICK n : n = IF from = "operational_failure" THEN mem.opRetries ELSE 0
  OBVIOUS
<1>3. AfterReset = [mem EXCEPT !.opRetries = n]
  BY <1>2 DEF AfterReset
<1> QED
  BY <1>1, <1>2, <1>3 DEF Fields

LEMMA SaveCounts ==
  ASSUME IInv, Save
  PROVE  \/ UNCHANGED disk /\ pc' = "down"
         \/ /\ SavedCounts /\ disk'.phase = mem.phase
            /\ pc' = "idle" \/ (pc' = "down" /\ disk'.phase \in TerminalPhases)
<1>1. PICK s, next : /\ s = AfterReset
                     /\ next = IF mem.phase \in TerminalPhases THEN "down" ELSE "idle"
  OBVIOUS
<1>2. pc \in {"saving", "signal"} /\ (Die \/ Persist(s, next))
  BY <1>1 DEF Save
<1>3. CASE Die
  BY <1>3 DEF Die, Control
<1>4. CASE Persist(s, next)
  <2>1. disk' = Checkpoint(s) /\ pc' = next
    BY <1>4 DEF Persist, Control
  <2>2. /\ s = [f \in Fields |-> s[f]] /\ \A f \in Fields \ {"opRetries"} : s[f] = mem[f]
        /\ s.opRetries = IF from = "operational_failure" THEN mem.opRetries ELSE 0
    BY <1>1, <1>2, ResetCounts
  <2>3. s.phase = mem.phase /\ \A c \in CounterFields \ {"opRetries"} : s[c] = mem[c]
    BY <2>2 DEF Fields, CounterFields
  <2>4. disk'.phase = s.phase /\ \A c \in CounterFields : disk'[c] = s[c]
    BY <2>1, <2>2, CheckpointCounts
  <2> QED
    BY <1>1, <2>1, <2>2, <2>3, <2>4 DEF SavedCounts, CounterFields
<1> QED
  BY <1>2, <1>3, <1>4

LEMMA SaveFailsCounts ==
  ASSUME IInv, IInv', SaveFails
  PROVE  \/ UNCHANGED disk /\ pc' = "down"
         \/ /\ SavedCounts /\ pc' = "opfail" /\ disk'.error # None
            /\ disk'.error.failed = IF mem.phase \in TerminalPhases THEN from ELSE mem.phase
<1>1. PICK s, k : s = AfterReset /\ k = IF mem.phase \in TerminalPhases THEN from ELSE mem.phase
  OBVIOUS
<1>2. PICK r : r = GitRepair(k)
  OBVIOUS
<1>3. PICK e : e = [failed |-> k, retryable |-> TRUE, repair |-> r]
  OBVIOUS
<1>4. PICK t : t = [s EXCEPT !.phase = "operational_failure", !.error = e]
  OBVIOUS
<1>5. pc = "saving" /\ (Die \/ Persist(t, "opfail"))
  BY <1>1, <1>2, <1>3, <1>4 DEF SaveFails, Fail, FailWith
<1>6. CASE Die
  BY <1>6 DEF Die, Control
<1>7. CASE Persist(t, "opfail")
  <2>1. disk' = Checkpoint(t) /\ pc' = "opfail" /\ mem' = Checkpoint(t)
    BY <1>7 DEF Persist, Control
  <2>2. /\ s = [f \in Fields |-> s[f]] /\ \A f \in Fields \ {"opRetries"} : s[f] = mem[f]
        /\ s.opRetries = IF from = "operational_failure" THEN mem.opRetries ELSE 0
    BY <1>1, <1>5, ResetCounts
  <2>3. /\ t = [f \in Fields |-> t[f]] /\ t.phase = "operational_failure" /\ t.error = e
        /\ \A c \in CounterFields : t[c] = s[c]
    BY <1>4, <2>2 DEF Fields, CounterFields
  <2>4. /\ disk'.phase = "operational_failure" /\ disk'.error = e
        /\ \A c \in CounterFields : disk'[c] = s[c]
    BY <2>1, <2>3, CheckpointCounts
  <2>5. SavedCounts
    BY <2>2, <2>4 DEF SavedCounts, Fields, CounterFields
  <2>6. DocOK(mem') /\ mem' = disk'
    BY <2>1 DEF IInv, MemOK
  <2>7. disk'.error # None
    BY <2>4, <2>6 DEF DocOK, ErrorOK
  <2> QED
    BY <1>1, <1>3, <2>1, <2>4, <2>5, <2>7
<1> QED
  BY <1>5, <1>6, <1>7

(* An unattended retry is counted in the document of its failure. *)
LEMMA AutoRetryCounts ==
  ASSUME IInv, AutoRetry
  PROVE  \/ UNCHANGED disk /\ pc' = "down"
         \/ pc' = "idle" /\ disk'.phase = disk.phase /\ Rises(disk, disk')
<1>1. PICK n : n = mem.opRetries + 1
  OBVIOUS
<1>2. PICK s : s = [mem EXCEPT !.opRetries = n]
  OBVIOUS
<1>3. pc = "opfail" /\ (Die \/ Persist(s, "idle"))
  BY <1>1, <1>2 DEF AutoRetry
<1>4. CASE Die
  BY <1>4 DEF Die, Control
<1>5. CASE Persist(s, "idle")
  <2>1. disk' = Checkpoint(s) /\ pc' = "idle"
    BY <1>5 DEF Persist, Control
  <2>2. mem = disk /\ mem \in Documents
    BY <1>3 DEF IInv, MemOK, DocOK, ControlOK
  <2>3. mem = [f \in Fields |-> mem[f]] /\ \A c \in CounterFields : mem[c] \in Nat
    BY <2>2, DocumentFields
  <2>4. /\ s = [f \in Fields |-> s[f]] /\ s.phase = mem.phase /\ s.opRetries = n
        /\ \A c \in CounterFields \ {"opRetries"} : s[c] = mem[c]
    BY <1>2, <2>3 DEF Fields, CounterFields
  <2>5. disk'.phase = s.phase /\ \A c \in CounterFields : disk'[c] = s[c]
    BY <2>1, <2>4, CheckpointCounts
  <2>6. Rises(disk, disk')
    BY <1>1, <2>2, <2>3, <2>4, <2>5 DEF Rises
  <2> QED
    BY <2>1, <2>2, <2>4, <2>5, <2>6
<1> QED
  BY <1>3, <1>4, <1>5

LEMMA InputUnavailableCounts ==
  ASSUME IInv, InputUnavailable
  PROVE  /\ Rises(disk, disk') /\ pc' \notin {"saving", "signal"}
         /\ pc = "idle" /\ mem = disk
<1>1. pc = "idle" /\ (Persist(mem, "down") \/ GitFails(mem))
  BY DEF InputUnavailable, Asked
<1>2. mem \in Documents /\ mem = [f \in Fields |-> mem[f]] /\ disk = mem
  BY <1>1, Working
<1>3. Rises(mem, mem)
  BY <1>2, SameRises
<1>4. CASE Persist(mem, "down")
  <2>1. disk' = Checkpoint(mem) /\ pc' = "down"
    BY <1>4 DEF Persist, Control
  <2> QED
    BY <1>1, <1>2, <1>3, <2>1, CheckpointCounts DEF Rises
<1>5. CASE GitFails(mem)
  <2>1. Advances
    BY <1>1, <1>2, <1>5, GitFailureMoves
  <2>2. pc' \in {"opfail", "down"}
    BY <1>5 DEF GitFails, Fail, FailWith, Die, Persist, Control
  <2> QED
    BY <1>1, <1>2, <1>3, <2>1, <2>2 DEF Advances, Passes, Stops, Ceases
<1> QED
  BY <1>1, <1>4, <1>5

LEMMA StartupFailsCounts ==
  ASSUME IInv, StartupFails
  PROVE  Rises(disk, disk') /\ pc' \notin {"saving", "signal"}
<1>1. PICK e : e = EffectivePhase(mem)
  OBVIOUS
<1>2. PICK r : r = [failed |-> e, retryable |-> TRUE, repair |-> FALSE]
  OBVIOUS
<1>3. PICK t : t = [mem EXCEPT !.phase = "operational_failure", !.error = r]
  OBVIOUS
<1>4. pc = "starting" /\ (Die \/ Persist(t, "down"))
  BY <1>1, <1>2, <1>3 DEF StartupFails, FailWith
<1>5. mem = disk /\ mem \in Documents
  BY <1>4 DEF IInv, MemOK, DocOK, ControlOK
<1>6. mem = [f \in Fields |-> mem[f]] /\ Rises(disk, disk)
  BY <1>5, DocumentFields, SameRises
<1>7. t = [f \in Fields |-> t[f]] /\ \A c \in CounterFields : t[c] = mem[c]
  BY <1>3, <1>6 DEF Fields, CounterFields
<1>8. \A c \in CounterFields : Checkpoint(t)[c] = disk[c]
  BY <1>5, <1>7, CheckpointCounts
<1>9. pc' = "down" /\ disk' \in {disk, Checkpoint(t)}
  BY <1>4 DEF Die, Persist, Control
<1> QED
  BY <1>6, <1>8, <1>9 DEF Rises

LEMMA DocumentStays ==
  ASSUME IInv, IInv', Next, disk # None
  PROVE  disk' # None
<1> SUFFICES ASSUME disk' = None
             PROVE  FALSE
  OBVIOUS
<1>1. pc' = "down" /\ tree' = None
  BY DEF IInv, ControlOK
<1>2. CASE GitActions
  <2>1. CASE ProvisioningFails
    BY <1>1, <2>1 DEF ProvisioningFails, Fail, FailWith, Persist, Die, Control
  <2>2. UNCHANGED disk \/ ProvisioningFails
    BY <1>2 DEF GitActions, StartRun, ResumeRun, CreateWorktree, RecordDecision, Merge, Merged,
       CleanupWorktree, CleanupBranch, Transition, BuilderWorks, LeftoverSessionWorks, WorkOn,
       OperatorCommits, OperatorMerges, OperatorRestores, OperatorCleans, OperatorRemoves, process
  <2> QED
    BY <2>1, <2>2
<1>3. CASE (Quietly \/ Plans \/ Prepares) /\ UNCHANGED gitvars
  <2>1. UNCHANGED disk \/ tree # None
    BY <1>1, <1>3 DEF Quietly, Plans, Prepares, Ends
  <2> QED
    BY <1>1, <1>3, <2>1 DEF gitvars
<1> QED
  BY <1>2, <1>3, Sorted

(* Everything else saves nothing, but for a new run's first document.      *)
Others == StartRun \/ ResumeRun \/ ServerStarts \/ SaveEscapes \/ Environment

LEMMA OthersKeep ==
  ASSUME Others
  PROVE  /\ disk # None => UNCHANGED disk
         /\ pc' \in {"saving", "signal"} => UNCHANGED <<mem, disk, pc>>
<1>1. CASE StartRun \/ ResumeRun
  BY <1>1 DEF StartRun, ResumeRun, Persist, Control
<1>2. CASE ServerStarts \/ SaveEscapes
  BY <1>2 DEF ServerStarts, SaveEscapes, Die, Control
<1>3. CASE Environment
  BY <1>3 DEF Environment, Crash, Die, Control, BuilderWorks, LeftoverSessionWorks, WorkOn,
     OperatorCommits, OperatorMerges, OperatorRestores, OperatorCleans, OperatorRemoves, process
<1> QED
  BY <1>1, <1>2, <1>3 DEF Others

LEMMA AllSteps ==
  ASSUME Next
  PROVE  \/ Others \/ StartupFails \/ InputUnavailable
         \/ Dispatch \/ AgentReturns \/ Answered
         \/ Save \/ SaveFails \/ AutoRetry
  BY DEF Next, Supervise, Saving, Others

LEMMA MoveStays ==
  ASSUME IInv, IInv', MoveOK, Next
  PROVE  MoveOK'
<1> SUFFICES ASSUME pc' \in {"saving", "signal"}
             PROVE  Lawful(disk, mem, <<disk.phase, mem.phase>>)'
  BY DEF MoveOK
<1>1. CASE Others
  BY <1>1, OthersKeep DEF MoveOK, Lawful
<1>2. CASE Dispatch \/ AgentReturns \/ Answered
  <2>1. Passes
    BY <1>2, WorkMoves DEF Advances, Stops, Ceases
  <2>2. disk = mem
    BY <1>2, WorkGuards, Working
  <2> QED
    BY <2>1, <2>2 DEF Passes, Lawful
<1>3. ~ (StartupFails \/ InputUnavailable \/ Save \/ SaveFails \/ AutoRetry)
  BY StartupFailsCounts, InputUnavailableCounts, SaveCounts, SaveFailsCounts, AutoRetryCounts
<1> QED
  BY <1>1, <1>2, <1>3, AllSteps

(* What a process has counted, it counts for good. *)
LEMMA AcceptedGrows ==
  ASSUME IInv, IInv', MoveOK, Next, disk # None
  PROVE  disk.accepted \in Nat /\ disk.accepted <= disk'.accepted /\ disk'.accepted \in Nat
<1> "accepted" \in CounterFields \ {"opRetries"}
  BY DEF CounterFields
<1>1. disk.accepted \in Nat /\ disk'.accepted \in Nat
  <2>1. disk \in Documents /\ disk' \in Documents
    BY DocumentStays DEF IInv, TypeOK
  <2> QED
    BY <2>1, DocumentFields
<1>2. CASE Others
  BY <1>1, <1>2, OthersKeep
<1>3. CASE Dispatch \/ AgentReturns \/ Answered
  <2>1. disk = mem
    BY <1>3, WorkGuards, Working
  <2> QED
    BY <1>1, <1>3, <2>1, WorkMoves DEF Advances, Passes, Stops, Ceases, Rises
<1>4. CASE Save \/ SaveFails
  <2>1. Lawful(disk, mem, <<disk.phase, mem.phase>>)
    BY <1>4 DEF MoveOK, Save, SaveFails
  <2>2. disk.accepted <= mem.accepted
    BY <2>1, Resets DEF Lawful
  <2> QED
    BY <1>1, <1>4, <2>2, SaveCounts, SaveFailsCounts DEF SavedCounts
<1>5. CASE StartupFails \/ InputUnavailable \/ AutoRetry
  BY <1>1, <1>5, StartupFailsCounts, InputUnavailableCounts, AutoRetryCounts DEF Rises
<1> QED
  BY <1>2, <1>3, <1>4, <1>5, AllSteps

-----------------------------------------------------------------------------
(* What a step makes of the record that the next one is compared with      *)

(* r, recorded for the saved step, follows on from the document before it. *)
Follows(r) ==
  /\ r.phase = disk.phase
  /\ \A c \in CounterFields :
       \/ disk[c] <= r.counters[c]
       \/ Excused(r, c, disk')

LEMMA ReturnedFrom ==
  ASSUME IInv, Returned
  PROVE  /\ disk # None
         /\ (IF pc \in {"saving", "signal"} THEN from ELSE mem.phase) = disk.phase
<1>1. pc \in BetweenSaves \cup {"starting", "saving", "signal", "opfail"}
  BY DEF Returned, IInv, TypeOK
<1> QED
  BY <1>1 DEF IInv, ControlOK

LEMMA SaveFollows ==
  ASSUME IInv, IInv', MoveOK, Save \/ SaveFails, disk' # disk, disk # None,
         NEW r, r = Outcome(FALSE), r.phase = disk.phase
  PROVE  Follows(r)
<1>1. SavedCounts /\ pc \in {"saving", "signal"} /\ from = disk.phase
  BY SaveCounts, SaveFailsCounts DEF Save, SaveFails, IInv, ControlOK
<1>2. /\ r.after = disk'.phase /\ r.unavailable = FALSE
      /\ \A c \in CounterFields : r.counters[c] = disk'[c]
  BY DEF Outcome, Counters, CounterFields
<1>3. Lawful(disk, mem, <<disk.phase, mem.phase>>)
  BY <1>1 DEF MoveOK
<1>4. \A c \in CounterFields : disk[c] \in Nat
  <2>1. disk \in Documents
    BY DEF IInv, TypeOK
  <2> QED
    BY <2>1, DocumentFields
<1>5. disk.opRetries <= r.counters["opRetries"] \/ PermittedReset("opRetries", r)
  <2>1. r.counters["opRetries"] = disk'.opRetries /\ "opRetries" \in CounterFields
    BY <1>2 DEF CounterFields
  <2>2. disk.opRetries <= mem.opRetries
    BY <1>3, <2>1, Resets DEF Lawful
  <2> QED
    BY <1>1, <1>2, <2>1, <2>2 DEF SavedCounts, PermittedReset
<1>6. ASSUME NEW c \in CounterFields \ {"opRetries"}, ~(disk[c] <= r.counters[c])
      PROVE  Excused(r, c, disk')
  <2>1. r.counters[c] = mem[c]
    BY <1>1, <1>2 DEF SavedCounts
  <2>2. r.counters[c] = 0 /\ <<disk.phase, mem.phase>> \in ResetTransitions(c)
    BY <1>3, <1>6, <2>1 DEF Lawful
  <2>3. disk.phase # mem.phase /\ mem.phase \notin TerminalPhases
    BY <2>2, ResetsMove
  <2>4. CASE Save
    <3>1. r.after = mem.phase
      BY <1>2, <2>4, SaveCounts
    <3> QED
      BY <2>2, <3>1 DEF PermittedReset, Excused
  <2>5. CASE SaveFails
    BY <2>3, <2>5, SaveFailsCounts DEF Excused
  <2> QED
    BY <2>4, <2>5
<1> QED
  BY <1>5, <1>6 DEF Follows, Excused

(* What an advance() that ended has to record follows on from the document *)
(* it found.                                                               *)
LEMMA StepFollows ==
  ASSUME IInv, IInv', MoveOK, Returned,
         ServerStarts \/ Dispatch \/ AgentReturns \/ Saving \/ Answered,
         NEW r, r = Outcome(FALSE)
  PROVE  Follows(r)
<1>1. disk # None /\ r.phase = disk.phase
  BY ReturnedFrom DEF Outcome
<1>2. \A c \in CounterFields : disk[c] \in Nat
  <2>1. disk \in Documents
    BY <1>1 DEF IInv, TypeOK
  <2> QED
    BY <2>1, DocumentFields
<1>3. ASSUME Rises(disk, disk')
      PROVE  Follows(r)
  <2>1. \A c \in CounterFields : r.counters[c] = disk'[c]
    BY DEF Outcome, Counters, CounterFields
  <2> QED
    BY <1>1, <1>3, <2>1 DEF Follows, Rises
<1>4. CASE UNCHANGED disk
  <2>1. Rises(disk, disk')
    BY <1>2, <1>4 DEF Rises
  <2> QED
    BY <1>3, <2>1
<1>5. CASE ServerStarts \/ SaveEscapes
  BY <1>1, <1>4, <1>5, OthersKeep DEF Others
<1>6. CASE Dispatch \/ AgentReturns \/ Answered
  <2>1. disk = mem
    BY <1>6, WorkGuards, Working
  <2> QED
    BY <1>3, <1>4, <1>6, <2>1, WorkMoves DEF Advances, Passes, Stops, Ceases
<1>7. CASE Save \/ SaveFails
  BY <1>1, <1>4, <1>7, SaveFollows
<1>8. CASE AutoRetry
  BY <1>3, <1>4, <1>8, AutoRetryCounts
<1> QED
  BY <1>5, <1>6, <1>7, <1>8 DEF Saving

(* A step in the middle of an advance() saves nothing but an unattended    *)
(* retry of the phase.                                                     *)
LEMMA StepSaves ==
  ASSUME IInv, IInv', ~Returned, disk # None,
         ServerStarts \/ Dispatch \/ AgentReturns \/ Saving \/ Answered
  PROVE  disk'.phase = disk.phase /\ Rises(disk, disk')
<1>1. \A c \in CounterFields : disk[c] \in Nat
  <2>1. disk \in Documents
    BY DEF IInv, TypeOK
  <2> QED
    BY <2>1, DocumentFields
<1>2. CASE UNCHANGED disk
  BY <1>1, <1>2 DEF Rises
<1>3. CASE ServerStarts \/ SaveEscapes
  BY <1>2, <1>3, OthersKeep DEF Others
<1>4. CASE Dispatch \/ AgentReturns \/ Answered
  <2>1. ~Stops
    BY <1>4, WorkGuards DEF Returned, Stops
  <2> QED
    BY <1>2, <1>4, <2>1, WorkMoves DEF Advances, Passes, Ceases
<1>5. CASE Save \/ SaveFails
  BY <1>2, <1>5, SaveCounts, SaveFailsCounts DEF Returned, Save, SaveFails
<1>6. CASE AutoRetry
  BY <1>2, <1>6, AutoRetryCounts
<1> QED
  BY <1>3, <1>4, <1>5, <1>6 DEF Saving

-----------------------------------------------------------------------------
(* The records that were written, while the run goes on *)

LEMMA OutdatedRecord ==
  ASSUME NEW d, NEW e, e # None, d.accepted \in Nat, e.accepted \in Nat, d.accepted <= e.accepted,
         NEW r, r # None, RecordOK(r, d), NEW s, s = Outdate(r)
  PROVE  RecordOK(s, e) /\ RecordOK(Seen(s), e)
<1>1. s = [r EXCEPT !.later = FALSE]
  BY DEF Outdate
<1>2. s.later = FALSE /\ s.counters = r.counters /\ {"counters", "later"} \subseteq DOMAIN s
  BY <1>1 DEF RecordOK
<1>3. RecordOK(s, e)
  <2>1. r.counters.accepted \in Nat /\ r.counters.accepted <= d.accepted
    BY DEF RecordOK
  <2>2. s.counters.accepted \in Nat /\ s.counters.accepted <= e.accepted
    BY <1>2, <2>1
  <2>3. ~s.later
    BY <1>2
  <2> QED
    BY <1>2, <2>2, <2>3, Zenon DEF RecordOK
<1>4. RecordOK(Seen(s), e)
  <2>1. CASE s = None
    <3>1. Seen(s) = s
      BY <2>1 DEF Seen
    <3> QED
      BY <1>3, <3>1
  <2>2. CASE s # None
    <3> ~s.later
      BY <1>2
    <3>1. PICK t : t = [counters |-> [accepted |-> s.counters.accepted], later |-> FALSE]
      OBVIOUS
    <3>2. Seen(s) = t
      BY <2>2, <3>1 DEF Seen
    <3>3. /\ DOMAIN t = {"counters", "later"} /\ t.later = FALSE
          /\ t.counters.accepted = s.counters.accepted
      BY <3>1
    <3> QED
      BY <1>3, <3>2, <3>3 DEF RecordOK
  <2> QED
    BY <2>1, <2>2
<1> QED
  BY <1>3, <1>4

LEMMA OutdatedTyped ==
  ASSUME NEW r, r # None, RecordTyped(r), NEW s, s = Outdate(r)
  PROVE  /\ RecordTyped(s) /\ s.later = FALSE
         /\ s.after = r.after /\ s.counters = r.counters
<1>1. s = [r EXCEPT !.later = FALSE]
  BY DEF Outdate
<1> QED
  BY <1>1 DEF RecordTyped

LEMMA SeenRecord ==
  ASSUME NEW d, NEW r, r # None, RecordOK(r, d)
  PROVE  RecordOK(Seen(r), d)
<1>1. CASE r.later
  <2>1. Seen(r) = r
    BY <1>1 DEF Seen
  <2> QED
    BY <2>1
<1>2. CASE ~r.later
  <2>1. PICK t : t = [counters |-> [accepted |-> r.counters.accepted], later |-> FALSE]
    OBVIOUS
  <2>2. Seen(r) = t
    BY <1>2, <2>1 DEF Seen
  <2>3. /\ DOMAIN t = {"counters", "later"} /\ t.later = FALSE
        /\ t.counters.accepted = r.counters.accepted
    BY <2>1
  <2> QED
    BY <2>2, <2>3 DEF RecordOK
<1> QED
  BY <1>1, <1>2

(* Whatever the run does, the records read from it stay true of it. *)
LEMMA OutdatedKeeps ==
  ASSUME IInv, IInv', MoveOK, HistoryOK, ContinuityOK, Next, Outdated
  PROVE  /\ newest' # None => /\ newest # None /\ disk # None
                              /\ RecordOK(newest', disk') /\ RecordTyped(newest')
                              /\ newest'.after = newest.after
                              /\ newest'.counters = newest.counters
                              /\ newest'.later => newest.later
         /\ page' # None => RecordOK(page', disk')
<1>1. ASSUME disk # None
      PROVE  /\ disk.accepted \in Nat /\ disk'.accepted \in Nat
             /\ disk.accepted <= disk'.accepted /\ disk' # None
  BY <1>1, AcceptedGrows, DocumentStays
<1>2. CASE owed' # None \/ disk' # disk
  <2>1. newest' = Outdate(newest) /\ page' = Seen(Outdate(page))
    BY <1>2 DEF Outdated
  <2>2. ASSUME newest' # None
        PROVE  /\ newest # None /\ disk # None /\ RecordOK(newest', disk')
               /\ RecordTyped(newest') /\ newest'.after = newest.after
               /\ newest'.counters = newest.counters /\ newest'.later = FALSE
    <3>1. newest # None
      BY <2>1, <2>2 DEF Outdate
    <3>2. RecordOK(newest, disk) /\ disk # None /\ RecordTyped(newest)
      BY <3>1 DEF HistoryOK, ContinuityOK, RecordOK
    <3>3. PICK s : s = Outdate(newest)
      OBVIOUS
    <3>4. RecordOK(s, disk')
      BY <1>1, <3>1, <3>2, <3>3, OutdatedRecord
    <3>5. /\ RecordTyped(s) /\ s.later = FALSE
          /\ s.after = newest.after /\ s.counters = newest.counters
      BY <3>1, <3>2, <3>3, OutdatedTyped
    <3> QED
      BY <2>1, <3>1, <3>2, <3>3, <3>4, <3>5
  <2>3. ASSUME page' # None
        PROVE  RecordOK(page', disk')
    <3>1. page # None
      BY <2>1, <2>3 DEF Outdate, Seen
    <3>2. RecordOK(page, disk) /\ disk # None
      BY <3>1 DEF HistoryOK, RecordOK
    <3> QED
      BY <1>1, <2>1, <3>1, <3>2, OutdatedRecord
  <2> QED
    BY <2>2, <2>3
<1>3. CASE owed' = None /\ disk' = disk
  BY <1>3 DEF Outdated, HistoryOK, ContinuityOK, RecordOK
<1> QED
  BY <1>2, <1>3

-----------------------------------------------------------------------------
(* The history is kept, step by step *)

(* the run's part of a step *)
LEMMA RunSteps ==
  ASSUME HistoryNext
  PROVE  Next \/ UNCHANGED vars
  BY DEF HistoryNext, Process, FailStarting, Step, LeaveWithoutInput, Record, RecordFails, Kill,
     World, ReadHistory, ReadDocument, Next, Supervise, Environment

LEMMA RunKept ==
  ASSUME HistoryInv, HistoryNext \/ UNCHANGED allvars
  PROVE  IInv' /\ MoveOK'
<1>1. CASE Next
  <2>1. IInv'
    BY <1>1, NextInvariant DEF HistoryInv
  <2> QED
    BY <1>1, <2>1, MoveStays DEF HistoryInv
<1>2. CASE UNCHANGED vars
  <2>1. IInv'
    BY <1>2, StutterInvariant DEF HistoryInv
  <2> QED
    BY <1>2, <2>1 DEF HistoryInv, MoveOK, Lawful, vars, process
<1> QED
  BY <1>1, <1>2, RunSteps DEF allvars

(* A step that leaves the records alone and the document as it was. *)
LEMMA StillStep ==
  ASSUME HistoryOK, ContinuityOK, disk # None => UNCHANGED disk,
         UNCHANGED <<newest, page>>, owed' \in {owed, None},
         owed' = None => (owed = None /\ missed' = missed) \/ missed' # {},
         owed' # None => missed' = missed
  PROVE  HistoryOK' /\ ContinuityOK'
<1>1. CASE disk = None
  <2>1. newest = None /\ page = None /\ owed = None
    BY <1>1 DEF HistoryOK, RecordOK
  <2> QED
    BY <2>1 DEF HistoryOK, ContinuityOK
<1>2. CASE UNCHANGED disk
  <2>1. HistoryOK'
    BY <1>2 DEF HistoryOK
  <2>2. ASSUME missed' = {}
        PROVE  missed = {} /\ UNCHANGED owed
    BY <2>2
  <2> QED
    BY <1>2, <2>1, <2>2 DEF ContinuityOK
<1> QED
  BY <1>1, <1>2

LEMMA ProcessStep ==
  ASSUME HistoryInv, IInv', Process
  PROVE  HistoryOK' /\ ContinuityOK'
<1>1. Next /\ Outdated /\ owed = None /\ owed' = None /\ UNCHANGED missed
  BY DEF Process, Next
<1>2. disk # None => UNCHANGED disk
  BY OthersKeep DEF Process, Others
<1>3. /\ newest' # None => /\ newest # None /\ disk # None
                           /\ RecordOK(newest', disk') /\ RecordTyped(newest')
                           /\ newest'.after = newest.after /\ newest'.counters = newest.counters
      /\ page' # None => RecordOK(page', disk')
  BY <1>1, OutdatedKeeps DEF HistoryInv
<1>4. HistoryOK'
  BY <1>1, <1>3 DEF HistoryOK
<1> QED
  BY <1>1, <1>2, <1>3, <1>4 DEF HistoryInv, ContinuityOK, Continues

LEMMA FailStartingStep ==
  ASSUME HistoryInv, IInv', FailStarting
  PROVE  HistoryOK' /\ ContinuityOK'
<1>1. Next /\ Outdated /\ owed' = None /\ missed' # {}
  BY DEF FailStarting, Next, Supervise
<1>2. /\ newest' # None => RecordOK(newest', disk') /\ RecordTyped(newest')
      /\ page' # None => RecordOK(page', disk')
  BY <1>1, OutdatedKeeps DEF HistoryInv
<1> QED
  BY <1>1, <1>2 DEF HistoryOK, ContinuityOK

(* An advance() that ended owes a record which follows on. *)
LEMMA OwedStep ==
  ASSUME HistoryInv, IInv', Next, Outdated, owed = None, UNCHANGED missed,
         NEW r, owed' = r, r # None, disk # None, Follows(r),
         r.after = disk'.phase, \A c \in CounterFields : r.counters[c] = disk'[c]
  PROVE  HistoryOK' /\ ContinuityOK'
<1>1. /\ newest' # None => /\ newest # None /\ RecordOK(newest', disk') /\ RecordTyped(newest')
                           /\ newest'.after = newest.after /\ newest'.counters = newest.counters
      /\ page' # None => RecordOK(page', disk')
  BY OutdatedKeeps DEF HistoryInv
<1>2. HistoryOK'
  BY <1>1, DocumentStays DEF HistoryInv, HistoryOK, Current
<1>3. ASSUME newest' # None, missed = {}
      PROVE  Continues(newest', r, disk')
  <2>1. RecordTyped(newest) /\ Continues(newest, None, disk) /\ newest'.after = newest.after
        /\ newest'.counters = newest.counters
    BY <1>1, <1>3 DEF HistoryInv, ContinuityOK
  <2>2. newest'.after = r.phase
    BY <2>1 DEF Continues, Follows
  <2>3. ASSUME NEW c \in CounterFields
        PROVE  newest'.counters[c] <= r.counters[c] \/ Excused(r, c, disk')
    <3>1. newest.counters[c] \in Nat /\ newest.counters[c] <= disk[c]
      BY <2>1 DEF Continues, RecordTyped
    <3>2. disk[c] \in Nat /\ r.counters[c] \in Nat
      <4>1. disk \in Documents /\ disk' \in Documents
        BY DocumentStays DEF HistoryInv, IInv, TypeOK
      <4> QED
        BY <4>1, DocumentFields
    <3>3. disk[c] <= r.counters[c] \/ Excused(r, c, disk')
      BY DEF Follows
    <3> QED
      BY <2>1, <3>1, <3>2, <3>3
  <2> QED
    BY <2>2, <2>3 DEF Continues
<1> QED
  BY <1>1, <1>2, <1>3 DEF ContinuityOK

(* No outcome is null. *)
LEMMA OutcomeRecord ==
  ASSUME IInv, IInv', disk # None, disk' # None, NEW r, NEW u, u \in BOOLEAN,
         r = [phase |-> disk.phase, after |-> disk'.phase, unavailable |-> u,
              counters |-> Counters(disk')]
  PROVE  r # None
<1>1. disk \in Documents /\ disk' \in Documents
  BY DEF IInv, TypeOK
<1>2. disk.phase \in AllPhases /\ disk'.phase \in AllPhases
  BY <1>1 DEF Documents
<1>3. Counters(disk') \in [CounterFields -> Nat]
  BY <1>1, DocumentFields DEF Counters
<1> QED
  BY <1>2, <1>3, RecordAssumption

LEMMA StepStep ==
  ASSUME HistoryInv, IInv', Step
  PROVE  HistoryOK' /\ ContinuityOK'
<1>1. /\ Next /\ Outdated /\ owed = None /\ UNCHANGED missed
      /\ ServerStarts \/ Dispatch \/ AgentReturns \/ Saving \/ Answered
      /\ owed' = IF Returned THEN Outcome(FALSE) ELSE None
  BY DEF Step, Next, Supervise
<1>2. CASE Returned
  <2>1. PICK r : r = Outcome(FALSE)
    OBVIOUS
  <2>2. Follows(r)
    BY <1>1, <1>2, <2>1, StepFollows DEF HistoryInv
  <2>3. disk # None /\ r.phase = disk.phase
    BY <1>2, <2>1, ReturnedFrom DEF HistoryInv, Outcome
  <2>4. r.after = disk'.phase /\ \A c \in CounterFields : r.counters[c] = disk'[c]
    BY <2>1 DEF Outcome, Counters
  <2>5. disk' # None
    BY <1>1, <2>3, DocumentStays DEF HistoryInv
  <2>6. r = [phase |-> disk.phase, after |-> disk'.phase, unavailable |-> FALSE,
             counters |-> Counters(disk')]
    BY <1>2, <2>1, ReturnedFrom DEF HistoryInv, Outcome
  <2>7. r # None
    BY <2>3, <2>5, <2>6, OutcomeRecord DEF HistoryInv
  <2> QED
    BY <1>1, <1>2, <2>1, <2>2, <2>3, <2>4, <2>7, OwedStep
<1>3. CASE ~Returned
  <2>1. owed' = None
    BY <1>1, <1>3
  <2>2. disk # None => disk'.phase = disk.phase /\ Rises(disk, disk')
    BY <1>1, <1>3, StepSaves DEF HistoryInv
  <2>3. /\ newest' # None => /\ newest # None /\ disk # None
                             /\ RecordOK(newest', disk') /\ RecordTyped(newest')
                             /\ newest'.after = newest.after
                             /\ newest'.counters = newest.counters
        /\ page' # None => RecordOK(page', disk')
    BY <1>1, OutdatedKeeps DEF HistoryInv
  <2>4. HistoryOK'
    BY <2>1, <2>3 DEF HistoryOK
  <2>5. ASSUME newest' # None, missed = {}
        PROVE  Continues(newest', None, disk')
    <3>1. RecordTyped(newest) /\ Continues(newest, None, disk)
      BY <1>1, <2>3, <2>5 DEF HistoryInv, ContinuityOK
    <3>2. disk # None /\ disk'.phase = disk.phase /\ newest'.after = newest.after
          /\ newest'.counters = newest.counters
      BY <2>2, <2>3, <2>5
    <3>3. ASSUME NEW c \in CounterFields
          PROVE  newest'.counters[c] <= disk'[c]
      <4>1. newest.counters[c] \in Nat /\ newest.counters[c] <= disk[c]
        BY <3>1 DEF Continues, RecordTyped
      <4>2. disk[c] \in Nat /\ disk'[c] \in Nat
        <5>1. disk \in Documents /\ disk' \in Documents
          BY <1>1, <3>2, DocumentStays DEF HistoryInv, IInv, TypeOK
        <5> QED
          BY <5>1, DocumentFields
      <4>3. disk[c] <= disk'[c]
        BY <2>2, <3>2 DEF Rises
      <4> QED
        BY <3>2, <4>1, <4>2, <4>3
    <3> QED
      BY <3>1, <3>2, <3>3 DEF Continues
  <2> QED
    BY <1>1, <2>1, <2>3, <2>4, <2>5 DEF ContinuityOK
<1> QED
  BY <1>2, <1>3

LEMMA LeaveWithoutInputStep ==
  ASSUME HistoryInv, IInv', LeaveWithoutInput
  PROVE  HistoryOK' /\ ContinuityOK'
<1>1. /\ Next /\ Outdated /\ owed = None /\ UNCHANGED missed /\ InputUnavailable
      /\ owed' = Outcome(pc' = "down")
  BY DEF LeaveWithoutInput, Next, Supervise
<1>2. /\ pc = "idle" /\ mem = disk /\ disk # None /\ Rises(disk, disk')
  BY <1>1, InputUnavailableCounts DEF HistoryInv, IInv, ControlOK
<1>3. PICK u \in BOOLEAN : owed' = Outcome(u)
  BY <1>1
<1>4. PICK r : r = [phase |-> disk.phase, after |-> disk'.phase, unavailable |-> u,
                    counters |-> Counters(disk')]
  OBVIOUS
<1>5. owed' = r
  BY <1>2, <1>3, <1>4 DEF Outcome
<1>6. r.after = disk'.phase /\ \A c \in CounterFields : r.counters[c] = disk'[c]
  BY <1>4 DEF Counters
<1>7. Follows(r)
  BY <1>2, <1>4, <1>6 DEF Follows, Rises
<1>8. disk' # None
  BY <1>1, <1>2, DocumentStays DEF HistoryInv
<1>9. r # None
  BY <1>2, <1>4, <1>8, OutcomeRecord DEF HistoryInv
<1> QED
  BY <1>1, <1>2, <1>5, <1>6, <1>7, <1>9, OwedStep

(* What is written says what the document says, and ends where it is. *)
LEMMA RecordStep ==
  ASSUME HistoryInv, Record
  PROVE  HistoryOK' /\ ContinuityOK'
<1>1. PICK n : n = [after |-> owed.after, counters |-> owed.counters, later |-> TRUE]
  OBVIOUS
<1>2. newest' = n /\ owed # None /\ owed' = None /\ UNCHANGED <<disk, page>>
  BY <1>1 DEF Record, vars, process
<1>3. disk # None /\ Current(owed, disk)
  BY <1>2 DEF HistoryInv, HistoryOK
<1>4. \A c \in CounterFields : disk[c] \in Nat
  <2>1. disk \in Documents
    BY <1>3 DEF HistoryInv, IInv, TypeOK
  <2> QED
    BY <2>1, DocumentFields
<1>5. /\ n.after = disk.phase /\ n.later = TRUE
      /\ \A c \in CounterFields : n.counters[c] = disk[c]
      /\ n = [after |-> n.after, counters |-> n.counters, later |-> TRUE]
      /\ {"counters", "later"} \subseteq DOMAIN n
  BY <1>1, <1>3 DEF Current
<1>6. n.counters.accepted = disk.accepted /\ disk.accepted \in Nat
  BY <1>4, <1>5 DEF CounterFields
<1>7. RecordOK(n, disk)
  <2>1. Current(n, disk)
    BY <1>5 DEF Current
  <2>2. n.later \in BOOLEAN
    BY <1>5
  <2>3. n.counters.accepted \in Nat /\ n.counters.accepted <= disk.accepted
    BY <1>6
  <2> QED
    BY <1>3, <1>5, <2>1, <2>2, <2>3, Zenon DEF RecordOK
<1>8. RecordTyped(n)
  BY <1>4, <1>5 DEF RecordTyped
<1>9. Continues(n, None, disk)
  BY <1>4, <1>5 DEF Continues
<1>10. HistoryOK'
  BY <1>2, <1>7 DEF HistoryInv, HistoryOK
<1> QED
  BY <1>2, <1>8, <1>9, <1>10 DEF ContinuityOK

LEMMA RecordFailsStep ==
  ASSUME HistoryInv, RecordFails
  PROVE  HistoryOK' /\ ContinuityOK'
<1>1. /\ UNCHANGED <<disk, newest, page>> /\ owed' = None /\ missed' # {}
  BY DEF RecordFails, vars, process
<1> QED
  BY <1>1, StillStep DEF HistoryInv

LEMMA KillStep ==
  ASSUME HistoryInv, Kill
  PROVE  HistoryOK' /\ ContinuityOK'
<1>1. /\ UNCHANGED <<newest, page>> /\ owed' = None
      /\ (owed = None /\ missed' = missed) \/ missed' # {}
  BY DEF Kill
<1>2. disk # None => UNCHANGED disk
  <2>1. CASE Crash
    BY <2>1, OthersKeep DEF Others, Environment
  <2> QED
    BY <2>1 DEF Kill, vars, process
<1> QED
  BY <1>1, <1>2, StillStep DEF HistoryInv

LEMMA WorldStep ==
  ASSUME HistoryInv, World
  PROVE  HistoryOK' /\ ContinuityOK'
<1>1. UNCHANGED <<owed, newest, page, missed>>
  BY DEF World, history
<1>2. disk # None => UNCHANGED disk
  BY OthersKeep DEF World, Others, Environment
<1> QED
  BY <1>1, <1>2, StillStep DEF HistoryInv

LEMMA ReadStep ==
  ASSUME HistoryInv, ReadHistory \/ ReadDocument
  PROVE  HistoryOK' /\ ContinuityOK'
<1>1. UNCHANGED <<disk, owed, newest, missed>>
  BY DEF ReadHistory, ReadDocument, vars, process
<1>2. ASSUME page' # None
      PROVE  newest # None /\ page' = Seen(newest)
  BY <1>2 DEF ReadHistory, ReadDocument
<1>3. ASSUME page' # None
      PROVE  RecordOK(page', disk')
  <2>1. RecordOK(newest, disk)
    BY <1>2, <1>3 DEF HistoryInv, HistoryOK
  <2> QED
    BY <1>1, <1>2, <1>3, <2>1, SeenRecord
<1> QED
  BY <1>1, <1>3 DEF HistoryInv, HistoryOK, ContinuityOK

LEMMA HistoryKept ==
  ASSUME HistoryInv, HistoryNext \/ UNCHANGED allvars
  PROVE  HistoryInv'
<1>1. IInv' /\ MoveOK'
  BY RunKept
<1>2. HistoryOK' /\ ContinuityOK'
  <2>1. CASE UNCHANGED allvars
    BY <2>1 DEF allvars, vars, process, history, HistoryInv, HistoryOK, ContinuityOK
  <2> QED
    BY <1>1, <2>1, ProcessStep, FailStartingStep, StepStep, LeaveWithoutInputStep, RecordStep,
       RecordFailsStep, KillStep, WorldStep, ReadStep DEF HistoryNext
<1> QED
  BY <1>1, <1>2 DEF HistoryInv

LEMMA HistoryInitInvariant ==
  ASSUME HistoryInit
  PROVE  HistoryInv
<1>1. IInv
  BY InitInvariant DEF HistoryInit
<1> QED
  BY <1>1 DEF HistoryInit, Init, HistoryInv, MoveOK, HistoryOK, ContinuityOK

(* The recorder, its reader and the run agree, in every reachable state:   *)
(* HistoryInv is inductive.                                                      *)
THEOREM HistoryInvariant == HistorySpec => []HistoryInv
<1>1. HistoryInv /\ [HistoryNext]_allvars => HistoryInv'
  BY HistoryKept
<1> QED
  BY <1>1, HistoryInitInvariant, PTL DEF HistorySpec

-----------------------------------------------------------------------------
(* What the reader is told *)

(* A snapshot that reads the document some time after the newest record    *)
(* finds them to agree: build_snapshot accuses no healthy run, whatever    *)
(* was saved, killed or resumed in between (ADR 0039).                     *)
THEOREM NoneAccused == HistorySpec => []NoFalseDisagreement
<1>1. ASSUME HistoryInv
      PROVE  NoFalseDisagreement
  <2> SUFFICES ASSUME page # None
               PROVE  Disagreements(page, disk) = {}
    BY DEF NoFalseDisagreement
  <2>1. RecordOK(page, disk) /\ disk # None
    BY <1>1 DEF HistoryInv, HistoryOK, RecordOK
  <2>2. CASE page.later
    <3>1. page.after = disk.phase /\ \A c \in CounterFields : page.counters[c] = disk[c]
      BY <2>1, <2>2 DEF RecordOK, Current
    <3> QED
      BY <2>2, <3>1 DEF Disagreements
  <2>3. CASE ~page.later
    <3>1. page.counters.accepted \in Nat /\ page.counters.accepted <= disk.accepted
      BY <2>1 DEF RecordOK
    <3>2. disk.accepted \in Nat
      <4>1. disk \in Documents
        BY <1>1, <2>1 DEF HistoryInv, IInv, TypeOK
      <4> QED
        BY <4>1, DocumentFields DEF CounterFields
    <3>3. ~ (page.counters.accepted > disk.accepted)
      BY <3>1, <3>2
    <3>4. {c \in {"accepted"} : page.counters[c] > disk[c]} = {}
      BY <3>3
    <3> QED
      BY <2>3, <3>4 DEF Disagreements
  <2> QED
    BY <2>2, <2>3
<1> QED
  BY <1>1, HistoryInvariant, PTL

(* Only Record makes a newer record than the newest one. *)
LEMMA NeighbourWritten ==
  ASSUME HistoryInv, HistoryNext \/ UNCHANGED allvars, NeighbourRecorded
  PROVE  Record
<1>1. RecordTyped(newest) /\ newest # None /\ ~newest.later /\ newest'.later
  BY DEF NeighbourRecorded, HistoryInv, ContinuityOK
<1>2. newest' # newest
  BY <1>1
<1>3. Outdate(newest).later = FALSE
  BY <1>1, OutdatedTyped
<1>4. ~Outdated
  BY <1>1, <1>2, <1>3 DEF Outdated
<1> QED
  BY <1>2, <1>4 DEF HistoryNext, Process, FailStarting, Step, LeaveWithoutInput, RecordFails,
     Kill, World, ReadHistory, ReadDocument, history, allvars

(* The reader calls two neighbours discontinuous only when a record        *)
(* between them was lost or a startup failure was saved in between         *)
(* (_append_adjacent_contradiction_diagnostics).                           *)
THEOREM DiscontinuitiesExplained == HistorySpec => DiscontinuityExplained
<1>1. ASSUME HistoryInv, HistoryNext \/ UNCHANGED allvars, NeighbourRecorded,
             Discontinuous(newest, owed)
      PROVE  missed # {}
  <2>1. newest # None /\ owed # None
    BY <1>1, NeighbourWritten DEF NeighbourRecorded, Record
  <2>2. newest.after # owed.phase
    BY <1>1 DEF Discontinuous
  <2> QED
    BY <1>1, <2>1, <2>2 DEF HistoryInv, ContinuityOK, Continues
<1>2. HistoryInv /\ [HistoryNext]_allvars
        => [NeighbourRecorded /\ Discontinuous(newest, owed) => missed # {}]_allvars
  BY <1>1
<1> QED
  BY <1>2, HistoryInvariant, PTL DEF HistorySpec, DiscontinuityExplained

(* It calls a counter regressed only when a record was lost, or when the   *)
(* save after a transition that reset it failed (_is_permitted_counter_    *)
(* reset knows every other transition that resets one).                    *)
THEOREM RegressionsExplained == HistorySpec => RegressionExplained
<1>1. ASSUME HistoryInv, HistoryNext \/ UNCHANGED allvars, NeighbourRecorded,
             Regressed(newest, owed) # {}, missed = {}
      PROVE  disk.error # None /\ disk.error.failed # owed.phase
  <2>1. newest # None /\ owed # None
    BY <1>1, NeighbourWritten DEF NeighbourRecorded, Record
  <2>2. Continues(newest, owed, disk) /\ RecordTyped(newest)
    BY <1>1, <2>1 DEF HistoryInv, ContinuityOK
  <2>3. PICK c \in CounterFields : owed.counters[c] < newest.counters[c]
                                   /\ ~PermittedReset(c, owed)
    BY <1>1 DEF Regressed
  <2>4. newest.counters[c] \in Nat /\ owed.counters[c] \in Nat
    <3>1. disk # None /\ owed.counters[c] = disk[c]
      BY <1>1, <2>1 DEF HistoryInv, HistoryOK, Current
    <3>2. disk \in Documents
      BY <1>1, <3>1 DEF HistoryInv, IInv, TypeOK
    <3> QED
      BY <2>2, <3>1, <3>2, DocumentFields DEF RecordTyped
  <2>5. newest.counters[c] <= owed.counters[c] \/ Excused(owed, c, disk)
    BY <2>1, <2>2 DEF Continues
  <2> QED
    BY <2>3, <2>4, <2>5 DEF Excused
<1>2. HistoryInv /\ [HistoryNext]_allvars
        => [NeighbourRecorded /\ Regressed(newest, owed) # {} =>
              \/ missed # {}
              \/ disk.error # None /\ disk.error.failed # owed.phase]_allvars
  BY <1>1
<1> QED
  BY <1>2, HistoryInvariant, PTL DEF HistorySpec, RegressionExplained
=============================================================================
