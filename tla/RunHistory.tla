------------------------------ MODULE RunHistory ------------------------------
(***************************************************************************)
(* The phase history of a run: the recorder that on_advance calls after    *)
(* every advance() of Supervisor, the reader that checks neighbouring      *)
(* records against each other, and the snapshot that compares the newest   *)
(* record with the saved document while the run goes on.                   *)
(*                                                                         *)
(* Of the newest valid record, what the next one is compared with is kept: *)
(* the reader compares a record with its neighbour alone, so what it will  *)
(* say is settled when the record is written.  Timestamps are one bit of a *)
(* record: recorded_at is later than the document's updated_at until the   *)
(* next save.  The clock never goes back, and a record and a save never    *)
(* share a microsecond (they would only make the snapshot compare less).   *)
(*                                                                         *)
(* Bound: one record is lost between two recorded ones.                    *)
(***************************************************************************)
EXTENDS Supervisor, TLC

CONSTANT HistoryFaults  \* how the write of a record may fail

ASSUME HistoryAssumption == HistoryFaults \subseteq {"write", "partial"}

VARIABLES
  owed,    \* the outcome that on_advance has not recorded yet
  newest,  \* the newest valid record, as the next one is compared with it
  hole,    \* why the next number will not follow that of newest
  page,    \* the newest record as a snapshot has read it
  missed   \* ghost: what changed the document unrecorded since newest

history == <<owed, newest, hole, page, missed>>
allvars == <<vars, history>>

CounterFields == {"accepted", "revisions", "replans", "architectRetries",
                  "guidance", "opRetries"}

Counters(s) == [c \in CounterFields |-> s[c]]

(* no outcome of an advance() is null *)
ASSUME RecordAssumption ==
  None \notin [ phase : AllPhases, after : AllPhases, unavailable : BOOLEAN,
                counters : [CounterFields -> Nat] ]

-----------------------------------------------------------------------------
(* The reader *)

(* Mutant: counters are reset at the end of a task and nowhere else. *)
ResetTransitionsPerTask(c) ==
  IF c \in {"accepted", "opRetries"} THEN {} ELSE {<<"cleanup_branch", "planning">>}

ResetTransitions(c) ==
  LET newTask == {<<"cleanup_branch", "planning">>}
      planned == {"planning", "creating_worktree"} \X {"building", "architecting"}
      decided == {"recording_decision"} \X {"building", "planning"}
      built   == {"building"} \X {"verifying", "auditing"}
  IN  CASE c = "revisions" -> newTask \cup planned
        [] c = "replans" -> newTask
        [] c = "architectRetries" -> newTask \cup decided
        [] c = "guidance" -> newTask \cup planned \cup built
        [] OTHER -> {}

(* _is_permitted_counter_reset *)
PermittedReset(c, r) ==
  /\ r.counters[c] = 0
  /\ IF c = "opRetries"
       THEN r.phase # "operational_failure" /\ ~r.unavailable
       ELSE <<r.phase, r.after>> \in ResetTransitions(c)

(* _append_adjacent_contradiction_diagnostics, timestamps aside *)
Discontinuous(p, r) == p.after # r.phase

Regressed(p, r) ==
  {c \in CounterFields : r.counters[c] < p.counters[c] /\ ~PermittedReset(c, r)}

(* Mutant: the accepted tasks of an older record are compared like those   *)
(* of the document's own.                                                  *)
DisagreementsEqual(r, s) ==
  IF ~Loadable(s) THEN {}
  ELSE IF r.later
    THEN {c \in CounterFields : r.counters[c] # s[c]}
           \cup (IF r.after # s.phase THEN {"phase"} ELSE {})
    ELSE {c \in {"accepted"} : r.counters[c] # s[c]}

(* _current_state_disagreements *)
Disagreements(r, s) ==
  IF ~Loadable(s) THEN {}
  ELSE IF r.later
    THEN {c \in CounterFields : r.counters[c] # s[c]}
           \cup (IF r.after # s.phase THEN {"phase"} ELSE {})
    ELSE {c \in {"accepted"} : r.counters[c] > s[c]}

-----------------------------------------------------------------------------
(* The step of Supervisor ends an advance(): its save, or the save of its  *)
(* failure, has replaced the document.                                     *)
Returned ==
  \/ pc \in {"saving", "signal"} /\ pc' = "idle"
  \/ pc \notin {"down", "starting", "opfail"} /\ pc' = "opfail"
  \/ pc # "down" /\ pc' = "down" /\ disk'.phase \in TerminalPhases

(* Mutant: the phase is read when the record is due. *)
OutcomeLate(unavailable) ==
  [ phase |-> disk'.phase, after |-> disk'.phase, unavailable |-> unavailable,
    counters |-> Counters(disk') ]

Outcome(unavailable) ==
  [ phase |-> IF pc \in {"saving", "signal"} THEN from ELSE mem.phase,
    after |-> disk'.phase,
    unavailable |-> unavailable,
    counters |-> Counters(disk') ]

(* A save makes every record older than the document. *)
Outdate(r) == IF r = None THEN None ELSE [r EXCEPT !.later = FALSE]

(* What a snapshot can still compare of a record. *)
Seen(r) ==
  IF r = None \/ r.later THEN r
  ELSE [counters |-> [accepted |-> r.counters.accepted], later |-> FALSE]

Outdated ==
  IF owed' # None \/ disk' # disk
    THEN newest' = Outdate(newest) /\ page' = Seen(Outdate(page))
    ELSE UNCHANGED <<newest, page>>

HistoryInit ==
  /\ Init
  /\ owed = None /\ newest = None /\ hole = "none" /\ page = None
  /\ missed = {}

(* A new process, and with it a new recorder: a number used up in memory   *)
(* only is given out again.                                                *)
Process ==
  /\ owed = None
  /\ (StartRun \/ ResumeRun)
  /\ hole' = IF hole = "cached" THEN "none" ELSE hole
  /\ owed' = None /\ Outdated
  /\ UNCHANGED missed

(* A failure saved outside advance(): nothing is recorded. *)
FailStarting ==
  /\ StartupFails
  /\ owed' = None /\ Outdated
  /\ missed' = missed \cup {"startup"}
  /\ UNCHANGED hole

Step ==
  /\ owed = None
  /\ (ServerStarts \/ Dispatch \/ AgentReturns \/ Saving \/ Answered)
  /\ owed' = IF Returned THEN Outcome(FALSE) ELSE None
  /\ Outdated
  /\ UNCHANGED <<hole, missed>>

LeaveWithoutInput ==
  /\ owed = None
  /\ InputUnavailable
  /\ owed' = Outcome(pc' = "down")
  /\ Outdated
  /\ UNCHANGED <<hole, missed>>

(* PhaseHistoryRecorder._write_record *)
Record ==
  /\ owed # None
  /\ newest' = [after |-> owed.after, counters |-> owed.counters, later |-> TRUE]
  /\ hole' = "none" /\ missed' = {}
  /\ owed' = None
  /\ UNCHANGED <<vars, page>>

(* on_advance drops the record; its number is used up, on disk too if a    *)
(* part of the file was written.                                           *)
RecordFails ==
  /\ owed # None /\ "record" \notin missed
  /\ \/ "write" \in HistoryFaults /\ hole' = (IF hole = "file" THEN "file" ELSE "cached")
     \/ "partial" \in HistoryFaults /\ hole' = "file"
  /\ missed' = missed \cup {"record"}
  /\ owed' = None
  /\ UNCHANGED <<vars, newest, page>>

(* The process is killed between the save and the record, or elsewhere. *)
Kill ==
  /\ IF pc # "down" THEN Crash ELSE owed # None /\ "crash" \in Faults /\ UNCHANGED vars
  /\ owed # None => "record" \notin missed
  /\ missed' = IF owed = None THEN missed ELSE missed \cup {"record"}
  /\ owed' = None
  /\ UNCHANGED <<newest, hole, page>>

World ==
  /\ (BuilderWorks \/ LeftoverSessionWorks \/ OperatorCommits \/ OperatorMerges
        \/ OperatorRestores \/ OperatorCleans \/ OperatorRemoves)
  /\ UNCHANGED history

(* build_snapshot: the history first, the document some time later *)
ReadHistory ==
  /\ page = None /\ newest # None
  /\ page' = Seen(newest)
  /\ UNCHANGED <<vars, owed, newest, hole, missed>>

ReadDocument ==
  /\ page # None
  /\ page' = None
  /\ UNCHANGED <<vars, owed, newest, hole, missed>>

HistoryNext ==
  \/ Process \/ FailStarting \/ Step \/ LeaveWithoutInput \/ Record \/ RecordFails \/ Kill \/ World
  \/ ReadHistory \/ ReadDocument

HistorySpec == HistoryInit /\ [][HistoryNext]_allvars

-----------------------------------------------------------------------------
(* Properties *)

(* Whenever a snapshot reads the document after the history, however far   *)
(* the run has gone on, been killed or been retried in between, it finds   *)
(* no disagreement: ADR 0039's gate never accuses a healthy run.           *)
NoFalseDisagreement == page # None => Disagreements(page, disk) = {}

(* A record is written next to the one before it. *)
NeighbourRecorded == newest # None /\ ~newest.later /\ newest'.later /\ hole = "none"

(* The reader calls two neighbours discontinuous only when a record        *)
(* between them was lost or a startup failure was saved in between.        *)
DiscontinuityExplained ==
  [][NeighbourRecorded /\ Discontinuous(newest, owed) => missed # {}]_allvars

(* It calls a counter regressed only when a record was lost, or when the   *)
(* save after a transition that reset it failed.                           *)
RegressionExplained ==
  [][NeighbourRecorded /\ Regressed(newest, owed) # {} =>
        \/ missed # {}
        \/ disk.error # None /\ disk.error.failed # owed.phase]_allvars

(* ADR 0038: a counter the lifecycle reset is never called regressed when  *)
(* every record was written.                                               *)
ResetsRecognized ==
  [][NeighbourRecorded /\ missed = {} => Regressed(newest, owed) = {}]_allvars
=============================================================================
