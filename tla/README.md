# The loop supervisor in TLA+

`loop-supervisor` drives a repository through tasks: a planner names a task, a
builder works on it in a Git worktree of its own, an auditor reviews the commit,
the supervisor merges it and cleans up, and the loop starts again. Architects
answer decision questions, an operator is asked when an agent is stuck, and any
of it may fail, be killed and be resumed. This directory holds TLA+ models of
that program, the TLC configurations that check them, and TLAPS proofs.

Paths below are relative to `src/loop_supervisor/` unless they start with
`docs/`. `PROJECT.json` maps every definition to the lines it models and lists
the hazards, runs, mutants and theorems; this file says what they amount to.

## The system

| Part | State it keeps | Operations | Hard behaviour | What makes it correct |
| --- | --- | --- | --- | --- |
| Phase machine (`supervisor.py`) | a `RunState` in memory | `start_new_run`, `resume`, `advance`, `run` | every phase changes Git, then memory, then the file; each may fail or be cut off by a kill | one merge per accepted task, of the audited commit; every stop can be resumed |
| Run document (`state.py`, `phases.py`) | one JSON file per run | `save_state`, `load_state` | validated only when read | whatever is written can be read again |
| Git operations (`git.py`) | integration branch, task branches, worktrees | create, verify, merge, remove; each reconciles an interrupted attempt | idempotence across crashes; the operator works in the same repository | nothing unmerged is lost, nothing is merged twice |
| Decisions (`decisions.py`) | ADR files in the worktree | number, write, resume a write | the number is persisted before the file exists | numbers unique, only approved text recorded |
| Repository lock (`locking.py`) | `supervisor.lock`, its guard file | `acquire`, `bind_run_id`, `release` | stale takeover, PID reuse, reboot, death in a critical section, failing system calls | at most one holder; a live owner's record is never removed |
| Run session (`runtime.py`) | session state, lock lease, server handle, pending cleanup | `__enter__`, `start_server`, `advance`, `run_to_completion`, `stop_server`, `close` | two threads; cleanup that fails and is retried; interrupts | the lock outlives the server and every transition |
| OpenCode server (`opencode.py`, `_launcher.py`) | launcher, process group, control client, pump thread, pipes | `start`, `stop` | stages of `stop` fail one by one and are retried; late acknowledgements | a confirmed stop leaves no process and no resource |
| Agent invocations (`opencode.py`) | a session, a request on a thread of its own | `run_agent`, `abort_active_sessions` | a deadline leaves the request behind; the abort is one request that may be lost or overtaken | every invocation ends; a session left at work has a known cause |
| Session monitor, permissions (`sse.py`, `permissions.py`) | worker thread, published client and response | start, stop, reconnect, reject | stop looks once at what the worker publishes; no replay of events | the worker ends; no reader is left behind |
| Phase history (`history.py`) | one file per advance | `on_advance`, `prune_runs` | the document is saved before the record is written | the reader blames a gap, never a healthy run |
| Read model (`read_model/`) | none of its own | validate history, build a snapshot | history and document are read at different moments of a running run | no false disagreement |
| TUI, CLI, doctor, configuration, event decoding | none of their own | render, parse, decode | none that persists | not modelled |

The CLI takes the lock through a run session, which creates or loads the run
document, starts the OpenCode server and calls the phase machine until it stops;
closing the session stops the server and then releases the lock. The phase
machine calls Git and the server; an operator works on the repository and types
answers. Two processes meet at the lock only.

## The modules

| Module | Models | Used by |
| --- | --- | --- |
| `RunState` | the run document and everything `RunState.from_dict` demands of it | `Supervisor` |
| `Supervisor` | one run: phases, persistence, Git, crash and resume, operator | `SupervisorProperties` |
| `SupervisorProperties` | what a run must be | `MCSupervisor`, `SupervisorDocuments` |
| `SupervisorDocuments` | lemmas: what each rewriting of a document keeps | `Supervisor_proofs` |
| `Supervisor_proofs` | the documents account for Git in every phase | `SupervisorGit_proofs` |
| `SupervisorGit_proofs` | what the documents know of commits, merges and records | `SupervisorMerges_proofs`, `RunHistory_proofs` |
| `SupervisorMerges_proofs` | one commit from the builder's report to the merge; what is saved loads | |
| `RunHistory` | the recorder, the history reader and the snapshot, beside `Supervisor` | `MCRunHistory`, `RunHistory_proofs` |
| `SupervisorLock` | lock file, guard, PIDs and boots of several hosts | `MCSupervisorLock`, `SupervisorLock_proofs` |
| `Mutex` | what the lock promises | refined by `SupervisorLock` |
| `RunSession` | session, lease and the two threads that may use it | `MCRunSession`, `RunSession_proofs` |
| `OpenCodeServer` | `start` and `stop`, launcher, server process, pipes | `AgentCalls` |
| `ManagedServer` | what a session needs of its server | refined by `OpenCodeServer` |
| `AgentCalls` | invocations, their sessions and the session monitor, beside `OpenCodeServer` | `MCAgentCalls`, `OpenCode_proofs` |

`Supervisor` extends `RunState` and so composes document, phases, Git and
decisions in one state; `RunHistory` adds the recorder, which is called after every
`advance()`, and a reader in another process. `AgentCalls` composes the invocations
and the monitor with the server they run on. These two compositions, the session
and the lock are not composed with each other; they meet through narrow interfaces. `Supervisor` has at most one process on a run
at a time, which `Mutex` promises. `RunSession` keeps of the lock whether it is
held, and of the server whether a process is alive and whether a sweep confirmed
that it is gone, which is what `Mutex` and `ManagedServer` say of them.

### Supervisor and RunState

`mem` is the process's `RunState` and `disk` the saved document, records with the
fields of the dataclass that some rule or guard reads. `integ`, `branch` and
`tree` are the integration branch (first-parent chain), the task branches and the
task worktree. `pc` says where a process is: down, starting its server, between
transitions, waiting for an agent, about to save, or about to save a question or
a failure.

A transition is two steps, as in the code: the dispatch changes memory and Git,
then `_checkpoint` re-reads Git and `save_state` replaces the file. A crash in
between loses the memory and keeps the Git effect. Each phase handler is one
action per outcome (`PlannerReady`, `ArchitectDecides`, `RecordDecision`,
`BuilderReportsComplete`, `Verify`, `AuditorAccepts`, `Merge`, `AdoptMerge`,
`CleanupBranch`, ...), its error paths are actions next to it,
and `Fail`, `Terminal`, `Save`, `SaveFails`, `SaveEscapes`, `AutoRetry` and
`RetryOperationalFailure` are what `advance()` and `run()` do with the result.
`ResumeRun` is `resume()` with `ValidateResume`, which compares the document with
Git. Agent calls are two steps as well (`Invoke`, then the answer), so that a
builder, an abandoned builder session or the operator may work in between.
Removing the worktree takes three steps for the same reason: `ValidateCleanup`
compares the tip of the branch with the merged commit, `InspectWorktree` asks whether
the worktree is clean, and only then does `CleanupWorktree` run `git worktree remove`,
which looks at the files again but not at the commits.

A commit, a decision proposal and a merge are numbers; a branch is a base and the
commits since; a worktree is either as its branch says or edited, with a set of
untracked decision files. Free text is left out, and INCOMPLETE is taken with
BLOCKED, which every rule treats alike.

### RunHistory

`owed` is the outcome of an `advance()` that `on_advance` has yet to record:
`Returned` recognizes the steps of `Supervisor` that end one. `Record` and
`RecordFails` are the recorder's write, `Kill` is the supervisor's crash or one
between save and record, `FailStarting` a failure that is saved outside
`advance()` and so never recorded. Of the history, `newest` keeps what the reader
compares the next record with (`Discontinuous`, `Regressed` with
`PermittedReset`), and `hole` why the next number will not follow. `page` is the
newest record as a snapshot has read it; `ReadDocument` comes any number of steps
later and compares it with the document of that moment (`Disagreements`).
`missed` is a ghost: what changed the document unrecorded.

### SupervisorLock and Mutex

Processes live on hosts, get a PID and a start tick, die at any step and may have
their PID reused; a reboot kills all of a host and restarts its ticks. `file` is
the record on disk, `guard` the holder of the flock, `pc` and `seen` the place of
a process in `acquire`, `bind_run_id` or `release` and the record it read there.
The critical sections are split wherever the code makes a system call that may
fail or reads something it uses later (create, inspect, classify, confirm,
unlink; bind, bindWrite; release, removeOwn, forget). A schema-1 record has
neither boot ID nor start ticks (zero in the model).

### RunSession

`state` is `SessionState`; `lease`, `pending`, `mayExist`, `done` and `mutex` are
`_lock_lease`, `_pending_cleanup`, `_server_may_exist`, `_advance_done` and
`_state_lock`. The driver is the thread of the `with` block; the helper is the
second thread the concurrency contract allows (`runtime.py:79`), which may call
`close()` and `stop_server()`, first while a transition is in flight. `close()` is
split at its wait for `_advance_done`, at `_state_lock`, at the sweep of the
server and at the release, since the other thread may move at each. An interrupt
is taken to arrive only in the long calls (start, sweep, release).

### OpenCodeServer and ManagedServer

`at` is the place in `start()` or `stop()`; `launcher` and `child` are the two
processes, `commands` and `events` the pipes between the launcher and the
supervisor, which lose data exactly as the readers do: the launcher keeps the
first line of what it reads (`_launcher.py:37`), the supervisor skips lines it is
not looking for. `stop()` goes on after each failed stage and raises at the end;
its stages are `StartClose` to `StopPump` in the order of the code, with the
handles (`_owner`, `_client`, `_client_close_attempt`, the pump thread) that make
a retry continue where the last call failed.

### AgentCalls

`call` is the place in `run_agent()`, `session` what its session does on the
server, `prompts` the requests on the way. A request runs on its own thread, so
that `CallTimesOut` leaves it behind (`_run_with_deadline`) and its prompt may
arrive after the abort; `AbortSession` is one request whose outcome nobody looks
at, and errors other than a timeout are raised without one (`CallBreaks`). `left`
says that a session works on without its invocation, and the ghost `lost` keeps
why. The monitor's worker (`worker`, one action per stretch between the points
where it looks at `_stop_event`, publishes, blocks or cleans up) and `stop()`
(`stopper`, `seen`) share `_active_client` and `_active_response` as the code
does. `SessionWorks`, `LeftSessionEnds` and `StreamBreaks` are the external
server. `ServerStep` is any step of `OpenCodeServer`; sessions and prompts end with
its child.

## Runs

Every property of a passing run has a mutant in `PROJECT.json`: a plausible
mistake in one modelled definition under which TLC finds it violated.

| Run | Asks | Instance and bounds |
| --- | --- | --- |
| `Crash` | may the process die, or a history record be lost, anywhere? | two tasks (symmetric), one accepted, decisions with approval, three ids; crash, decision and startup faults, writes of a record that fail or leave a part; 3.05 million states |
| `Failures` | what does a run with every operational failure merge and save? | one task, accepted twice under the same name, verification and provisioning configured, decisions with approval, four ids; all faults but a leftover session; the operator commits and merges; 2.6 million states |
| `Leftover` | what does cleanup lose while an abandoned builder goes on committing and editing, also between its checks, and does a run always return? | one task, three ids, decisions without approval; agent, startup and provisioning faults; the operator restores, cleans and removes; 165 000 states |
| `Lock` | is the lock a mutex, and does acquire answer? | two processes, three PIDs, one host with two boots, a schema-1 record at first, failing identity reads and file operations; 441 000 states |
| `LockTampered` | what does a record mean across hosts, and what remains when it is deleted or damaged, also between a bind's read and its write? | two processes, two hosts, two PIDs, two boots, two run ids, a schema-1 record, tampering, every failure; 1.3 million states |
| `Session` | does the lock outlive the server, and is every retained lock reported? | all faults, three transitions, three further calls by each thread; 44 000 states |
| `Server` | does a confirmed stop leave nothing, does every invocation end, and does the monitor? | all faults, two starts, three stops, two invocations and a monitor in the first lifetime; 480 000 states |

What the passing runs show:

- **Crash.** Whatever a crash interrupts, the document on disk loads, is accepted
  by `resume()` unless someone worked in the worktree since the last save
  (`CrashedRunResumes`), and names every branch and worktree that exists
  (`NothingOrphaned`). Decision numbers stay unique though a crash may fall
  between choosing a number and writing the file (`AdrNumbersUnique`), and no
  decision is recorded that the operator did not approve (`RecordedWasApproved`).
  A snapshot taken while the run goes on, is killed or resumed finds no
  disagreement between history and document (`NoFalseDisagreement`); a gap between
  two records is there only when a record was lost or a startup failure was saved
  in between (`DiscontinuityExplained`), and a counter that went down unexpectedly
  only then or after the failed save of `VHistory` (`RegressionExplained`).
- **Failures.** Every saved document loads (`SavedDocumentLoads`, with the two
  exceptions below), only reviewed and verified commits reach the integration
  branch (`MergedWasReviewed`, `MergedWasVerified`), each accepted task exactly
  once though merges are adopted after a crash or made by the operator
  (`MergedOncePerTask`), and guidance stays until a builder has used it
  (`GuidanceKept`).
- **Leftover.** A builder that was thought to be gone may commit and edit at any
  moment, also after the checks of a cleanup: the worktree may then go while its
  branch holds an unmerged commit, but the commit stays on the branch, which
  `git branch -d` keeps, and no uncommitted file goes
  (`NothingUnmergedDiscarded`). A started process returns (`RunReturns`).
- **Lock, LockTampered.** One holder, whose record is on disk and true
  (`MutualExclusion`, `HolderRecorded`); a matching identity is a running owner and
  only the owner touches a live record (`IdentityIsLiveness`, `LiveRecordKept`);
  a record is bound to one run, whatever happens to the file between the read and the
  write of `bind_run_id` (`BoundOnce`, under tampering); a process that does not hold the
  lock has left no record that only its death would free (`NothingLeftLocked`);
  `acquire` answers (`AcquireReturns`); the lock implements `Mutex`
  (`ImplementsMutex`). With a tampered file the program still acts only on
  validated records, and a record still identifies its owner.
- **Session.** The lock outlives the server (`LockOutlivesServer`), each state says
  the truth (`StatesMeanWhatTheySay`), a failed cleanup is never silent
  (`RetentionReported`) nor judged on a sweep made before the last transition
  ended (`UnresolvedIsFresh`), a closed session is not reopened by the transition
  that outlived the close (`TerminalStays`), and every close returns
  (`CloseWaited`, `CloseReturns`).
- **Server.** A `stop()` that returns has left no process, client, close or pump
  (`ConfirmedMeansGone`); only a fault makes it raise (`OnlyFaultsUnconfirm`),
  retries never close the client twice at once (`OneCloseAtATime`), every call
  returns (`CallsReturn`), and the server implements `ManagedServer`: it knows of
  its process until the process is gone and starts no second one. All of this holds
  beside invocations and a monitor. An invocation returns though its session waits
  for a permission nobody heard it ask for (`CallReturns`), and leaves a session at
  work only if the abort was lost, was overtaken by the prompt, or the call
  ended by an error other than a timeout, which is raised without an abort
  (`AbandonedExplained`, the premise of the leftover session in `Supervisor`).
  `stop()` of the monitor leaves no worker reading an open stream
  (`StopReachesReader`), and the worker ends (`WorkerEnds`).

### Disagreements found

Five runs check what the repository says of itself and find it violated:

- `VGuided`: after operator guidance, a COMPLETE report whose commit is refused is
  saved beside the question it answers (`supervisor.py:1283`); the comment at
  `supervisor.py:1300` says the building phase can be retried, but the document
  does not load.
- `VReplan`: an operator's `replan` keeps the REVISE verdict
  (`supervisor.py:1614`); once the planner has named another task the saved run
  does not load.
- `VUnreviewed`: the commit to merge is read after the auditor has answered
  (`supervisor.py:1446`); a commit made meanwhile is merged unaudited.
- `VSession`: `close()` waits for the transition in flight and then takes
  `_state_lock` (`runtime.py:1251`); another transition may begin in between, and
  the lock is released under it, which its docstring excludes.
- `VHistory`: a transition resets a counter in memory and its save fails
  (`supervisor.py:646`); the failure is recorded with the old phase and the reset
  counter, which the reader reports as a regression although no record is missing
  and ADR 0038 says that such histories remain complete.

`SavedDocumentLoads` and `CrashedRunResumes` except exactly the documents of the
first two (`RefusedGuidedCommit`, `StaleRevision`), so that they still speak about
all others. `Failures` leaves the leftover session out for the third.

Others were seen in the models and have no run. When a session left behind commits after
the audit, `merging` or `cleanup_worktree` rightly refuses the moved branch, but the save of
that failure stores the new head (`supervisor.py:505`) and the document does not load
(`state.py:1108`), though ADR 0009 has a resume replay such failures; after a commit
between the checks of the cleanup it is `resume()` that refuses, as the branch is not
merged. No commit is lost, but the operator has to move the branch back. Also: a Git error while a question is
being saved escapes `advance()` (`supervisor.py:568`, against ADR 0029); a removed
worktree makes Git fail with an exception no handler expects (`git.py:45`); the
counter of automatic retries is reset before a save that fails
(`supervisor.py:644`), so that a save that always fails is retried for ever
(against ADR 0042); a `close()` retried inside the clause that handles the first
failure returns without raising (`runtime.py:1337`); silence
after a kill command counts as success (`opencode.py:1150`), so that a lost command
is never sent again and `stop()` stays unresolved for good, which fails closed.

### Why the bounds are enough

A task's life uses at most two ids before it is merged (a commit and a merge), so
three or four ids let a run revise once, decide once, or accept twice, and limits
of one let every counter reach its limit and be refused beyond it. Two tasks occur
where a rule compares task names (`Crash`, `VReplan`); elsewhere one task named
again after its cleanup reaches the same handlers. The lock's races need an owner,
a process that judges it stale and one that slips in; one process in its second
life may be the owner and the intruder. PID reuse needs one PID more than processes
alive, and repeated start ticks need two boots. Three processes, and exclusion
across hosts, are left to the proofs below, which make these bounds immaterial for
safety of the lock. The history's reader compares neighbours only, so one lost
record between two recorded ones meets every case of a gap; the reader's second
look may come any number of steps after its first. The session's counters only have to exceed one transition per call, since
`done` and `pending` remember one; the proofs cover every value. Two starts show
that what one lifetime of the server leaves does not disturb the next, and three
stops fail, retry and confirm; once an invocation or a monitor has begun, one stop
and no further start follow, since those of the next lifetime start afresh. Two
invocations let the prompt of the first arrive under the second, which the proofs
extend to any number.

### Fairness and liveness

- `RunReturns` assumes that a process takes its next step: agent calls and
  commands are timed out and a headless provider answers at once. The outcome is
  free. Answers in prose are excluded there, because an escalation that is
  answered but not resolved is asked again for as long as the operator likes; so
  are failing saves, because of the endless retry above.
- `AcquireReturns` assumes that a process inside the guard runs on (weakly fair)
  and that a waiter on the flock is not passed over for ever (strongly fair).
- `CloseReturns` assumes that transitions end, which agent timeouts give, and that
  a thread inside a call goes on. Nobody is forced to call anything.
- `CallReturns` and `WorkerEnds` assume that an invocation's deadline passes, that
  an abort is sent and answered or times out, and that the worker and the stopping
  thread are scheduled; a connection under a closed client ends. No fault is fair:
  a stream need never break and a session need never finish.
- `CallsReturn` assumes that the waits of `start` and `stop` end, all of which are
  bounded, and that a running launcher is scheduled. `client.close()` may hang for
  ever, and the launcher's own exit is not assumed.

`CHECK_DEADLOCK FALSE` is given throughout: a run that has finished, a session that
is closed and a lock nobody wants may stop, and the bounds stop the rest.

## Proofs

The proofs hold for every value of the constants; the assumptions are those the
modules name: limits and bounds are natural numbers, fault sets contain known
faults, and sentinels (`None`, `NoFile`, `Malformed`) differ from the values they
stand beside.

**SupervisorLock_proofs.** Mutual exclusion is not inductive: it needs to know why
a record judged stale is still stale when it is unlinked. The invariant is
`TypeOK`, `MachineInv` (identities lie in their host's past, and the process table
matches exactly the running processes), `SectionInv` (whoever is inside a critical
section holds the guard), `FileInv` (a schema-2 record carries an identity some
process was given) and, without tampering, `OwnershipInv` (a holder's record is on
disk; what was read in the section is what is there; a record judged stale belongs
to no running process, and never will, since identities are not issued twice).
From it follow `Exclusion`, `Recording`, `IdentityVerdict` and `Keeping`, and
`Refinement`: every step takes the abstract mutex from free to held, from held to
free, or leaves it alone, so no takeover is ever seen from outside. `Binding` needs
what `bind_run_id` knows when it writes (`BindInv`: the record is the one it checked,
or someone took it away), and `NothingLeft` that the record of a running process
belongs to a holder (`OwnInv`). `Typing`, `IdentityVerdict`, `Binding` and
`NothingLeft` hold under tampering too; `NothingLeft` has as its hypothesis that the
temporary file of a creation can be removed (`"tempfile" \notin Failures`), without
which the code does leave such a record.

**RunSession_proofs.** The invariant adds to the properties: what holds at each
place of the driver before the first transition (`EntryInv`), that the lease
covers lock and server (`LeaseInv`), that past the wait of `close()` the thread
holds `_state_lock` and has seen its transition end (`CloseInv`), and that the
outcome of a failed start is followed by no transition (`PendingInv`). The last is
needed for `UnresolvedOnFreshSweep`, since `close()` does take such an outcome
without trying again. `TerminalIsFinal` needs `CloseInv`: only a thread that holds
`_state_lock` in a session that is closing may still change its state.

The abstract specification of the session's promise is not `LockOutlivesTransition`,
which `VSession` refutes: what is proved is the part that holds,
`CloseWaitsForItsTransition`.

**OpenCode_proofs.** That a confirmed stop leaves nothing follows from where
each handle stands: what runs is pending or owned (`TrackInv`), a close attempt
runs exactly while one thread is in `client.close()` (`CloseInv`), and a stop that
has had no error so far has left nothing of the stages behind it (`ConfirmInv`).
That only a fault makes a stop raise (`FaultsExplainUnconfirmed`) needs much more,
since a command or an answer lost in a pipe would do as well: `PipesInv` says for
every place of `start()` and `stop()` what the two pipes hold when nothing has gone
wrong, e.g. that in `waitTerm` either the command is unread or its answer is among
the events, whatever exit of the child is reported before or after it.
`KeepsTrack` is the refinement of `ManagedServer`: only `Launch` makes a process or
an owner.

`CallsImplementServer` shows that invocations and monitor
leave the server's variables alone, so that every theorem about the server holds of
the composition; it includes the fairness. `LeftSessionsExplained` needs to know
that a session works only under its invocation and that a late prompt already has
its cause (`SessionInv`, `LeftInv`). `ReaderReached` rests on `ReaderInv`: the
worker publishes before it looks at the event, and `stop()` sets the event before
it looks at what is published, so one of them sees the other.

**SupervisorDocuments and Supervisor_proofs.** None of the run's invariants is
inductive: whether the document on disk names every worktree depends on what the
document in memory will be when it is saved, and that on what each handler may
assume of its phase. `IInv` is `TypeOK`, `GitOK` (a worktree has its branch, its
files are finite), `DiskOK` and `MemOK` (each document obeys the rules of its
phase, `DocOK`, and owns every branch there is, `OwnsAll`; the worktree a running
phase works in is there, `LiveOK`) and `ControlOK` (what `pc` says about both:
between transitions memory and file agree, after a dispatch `from` names the
phase on disk). `DocOK` is what `RunState.from_dict` demands, as the writer must see it: the
phase it is judged by is a parameter, because a failure is written under another
phase than the one whose rules apply, and the two documents that do not load are
allowed. `SupervisorDocuments` has one lemma for each way a handler rewrites a
document; `Supervisor_proofs` has one for each action. `TypesHold` and
`OrphansNone` follow.

**SupervisorGit_proofs.** `GInv` says what a document knows of Git. Commits and
merges get their ids in order (`IdsOK`), and a merge of a commit has brought the
commits below it (`MergesBring`); heads and claims of a document stand
(`ClaimsOK`), a built task has a commit of its own (`AheadOK`), decision numbers in
the worktree and the one about to be written differ (`RecordsOK`), the merges are
those counted or one more (`CountOK`). On disk it also says what the operator may
put back (`SavedOK`) and that a worktree nobody touched is as the last save saw it,
but for the decision file being written (`DiskMatches`). That last part is why
`AdrNumbersUnique` is harder than it looks: between a crash and a resume the
operator may restore files the supervisor saw, so numbers must differ over what
is there, what was seen and what is due. `OneMergePerTask` needs that a merge
counted has no commit on a task branch any more: cleanup deletes the branch whose
head was merged. `NothingDiscarded` is proved with leftover sessions, which may
commit between the checks of a cleanup and what they guard. It therefore leans on no
check made earlier: a commit leaves a task branch only with the branch, whose deletion
Git itself refuses unless the integration branch has it (`ReachableKept`), and only
`CleanupWorktree` removes a worktree, a clean one (`OnlyCleanupRemoves`). Without
leftover sessions the checks do hold until the removal (`CleanupInvariant`): a worktree that
is about to go is clean and its branch ends in the merged commit; with them `ClaimsOK` does
not claim that a branch without worktree is merged. `GuidanceStays` has an invariant of its
own, `GuidedOK`: while answered guidance is on disk, the document in memory still has
a question or is past the builder, so whatever is saved next does not lose it.

**SupervisorMerges_proofs.** From the builder's report to the merge everything is
about one commit: `HeadOK` says that the worktree, the verification, the merge
intent and the accepted review name the builder's commit, `ExpectedOK` that the
checkpoint does, `AuditedOK` that the auditor at work was shown the commit that is
there. With `GInv` this is inductive (`HInv`, `OneCommit`) under one hypothesis,
`"leftover" \notin Faults`: no builder session outlives its timeout. `VUnreviewed`
shows that `OnlyReviewedMerged` is false without it; a timeout tries to abort its
session and does not wait for the result, so the code cannot promise it. `SavedLoads` then derives
`Loadable` rule by rule from `DocOK` and `HInv`; the rules that relate the commit
fields (`PostBuildOK`) are the ones that need it. `CrashesResume` adds `DiskMatches`,
`ClaimsOK` and `OwnsAll` for the comparison with Git.

**RunHistory_proofs.** The invariant adds to `IInv` what the history says of the
run. `HistoryOK`: an outcome that waits for its record says what the document says,
and so does a record written since the last save; an older one, on disk or read by a
snapshot, has at most the document's accepted tasks. `ContinuityOK`: as long as
nothing was lost since the newest record, what will be recorded next begins in the
phase where that record ended, and no counter of it is lower unless its reset is
permitted or the save of the transition failed (`Excused`). Between a dispatch and
its save the memory has run ahead of the document, so `MoveOK` says which counters
may already be lower there; it takes one lemma per handler that every counter only
rises or is reset on an edge of `ResetTransitions` (`WorkMoves`), the heart of
`RegressionsExplained`. The records of one run follow on although the document was
checkpointed, failed or retried in between, because none of these writes touches a
counter but its own. `NoneAccused`, `DiscontinuitiesExplained` and
`RegressionsExplained` follow; only `Record` writes a newer record than the newest.

Every safety property of the passing runs is proved. Only model-checked are the
liveness properties (`RunReturns`, `AcquireReturns`, `CloseReturns`, `CallsReturn`,
`CallReturns`, `WorkerEnds`), which rest on fairness and so on `ENABLED`, which is
outside the prover's reach. The properties that `VGuided`, `VReplan`, `VSession` and
`VHistory` refute, and `MergedWasReviewed` with leftover sessions (`VUnreviewed`),
are false and stay with their runs.

## What the models leave out

- A Git command takes effect or does not; a command that fails half way, uncommitted
  changes in the integration worktree, and fsync or power loss are not modelled. A
  save is atomic, as `os.replace` is. `git worktree remove` looks at the files and
  removes them in one step: an edit between the two, inside Git, is not seen.
- Other handlers that check and then act on Git are one step. `verify_builder_commit`
  only reads. `merge` names the commit, not the branch. `cleanup_branch` finds no
  worktree in which anybody could commit, and `git branch -d` checks the branch again.
  `_checkpoint` reads the branches one after the other; a session that commits between
  two reads is seen by the next save or by `resume()`, as one that commits after both.
- The abort of a session is bounded only by inactivity of its connection
  (`opencode.py:1411`), not by a deadline as the prompt is. That it ends is assumed.
- Kernel start ticks tell processes of one boot apart and hosts have names of their
  own; nobody replaces the guard file (deleting or damaging the lock file is
  `Tampering`).
- Failing to unlink the temporary file of a creation leaves a record behind
  (`locking.py:486`): `Failures` contains "tempfile" only in `LockTampered`.
- The server's child stays in its process group and nobody else sends SIGKILL.
  Errors from closing pipes are left out. When the supervisor itself is killed, the
  launcher exits at the end of its input and the server survives; ADR 0009 makes
  the operator verify that before recovering the lock, and `Surviving` in
  `Supervisor` relies on it.
- A `run_state` published while a transition runs is the same object, so it is no
  state of the session model.
- `prune_runs` looks for a lock and deletes afterwards (`history.py:380`). A run
  that starts in between loses its files; ADR 0034 accepts this and tells the
  operator to prune when nothing runs, so no property is claimed.
- Startup failures are saved outside `advance()` and never recorded: the reader
  sees a gap that `DiscontinuityExplained` names and does not call wrong.
- Of the read model, the checks of neighbouring records and the comparison with
  the document are modelled as far as phases and counters go. Timestamps, sizes and
  permissions of files, malformed JSON and the other readers are not: they are
  pure functions of files.
- `reconcile_invocation`, the observers and the decoding of events
  (`opencode_events.py`) turn data into other data; `abort_active_sessions` is one
  action of another thread. The monitor's back-off between connections is a step
  like any other.
- The TUI, the CLI, the doctor and configuration are not modelled. They persist
  nothing a run depends on.

## Plan

1. An abstract specification of a run, a ledger of tasks that are accepted one at a
   time, merged once and never taken back, with the integration branch as its only
   state; `Supervisor` should implement it through crashes and resumes, which
   `OneMergePerTask` and `NothingDiscarded` say in parts. First as a property of
   `Crash` and `Failures`, then as a theorem from `GInv`.
2. The steps that the liveness properties rest on and that need no fairness: that a
   process which is up is never left in a place without a step of its own.
