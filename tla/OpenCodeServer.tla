---------------------------- MODULE OpenCodeServer ----------------------------
(***************************************************************************)
(* The life of one `opencode serve': start() and stop() in the supervisor, *)
(* the launcher that leads the server's process group, and the server, its *)
(* child.  The two sides talk through a command pipe and an event pipe,    *)
(* both of which lose data: a reader that waits for one line takes all     *)
(* there is and keeps the first (the launcher always, the supervisor while *)
(* it starts), or skips what it does not look for (the supervisor while it *)
(* stops).  _cleanup_lock lets one call at a time run.                     *)
(*                                                                         *)
(* stop() goes on after each failure and raises at the end: "unconfirmed". *)
(* Bounds: MaxStarts calls of start, MaxStops calls of stop by a session.  *)
(* The child stays in its process group, and nobody else sends SIGKILL.    *)
(***************************************************************************)
EXTENDS Naturals, Sequences

CONSTANTS None,
          Faults,  \* what may go wrong: an entry of Faulty
          MaxStarts, MaxStops

Faulty == {"spawn", "abort", "serve", "launcher", "term", "kill", "stall", "close", "hang", "pump"}

ASSUME ServerConstants ==
  /\ Faults \subseteq Faulty /\ MaxStarts \in Nat /\ MaxStops \in Nat
  /\ None \notin [term : BOOLEAN, kill : BOOLEAN]

VARIABLES
  at,        \* where start or stop is, or "idle"
  launcher,  \* "none", "new", "anchored", "serving", then "killed" or "exited"
  child,     \* "none", "alive", "exited", "reported"
  commands,  \* the command pipe
  events,    \* the event pipe with the owner's buffer
  pending,   \* _pending_launcher is set
  owner,     \* _owner: [term, kill], whether those have been sent, or None
  client,    \* _client is set
  attempt,   \* _client_close_attempt: "none", "running", "failed", "closed"
  closing,   \* calls of client.close() now running
  pump,      \* the stdout pump thread is tracked
  failed,    \* the current stop has met an error
  outcome,   \* of the last stop: "none", "confirmed", "unconfirmed"
  troubled,  \* a fault has happened
  starts, stops

processes == <<launcher, child, commands>>
resources == <<client, attempt, closing, pump>>
bounds == <<starts, stops>>
vars == <<at, processes, events, pending, owner, resources, failed, outcome, troubled, bounds>>

Running == {"new", "anchored", "serving"}

Alive == launcher \in Running \/ child = "alive"

Send(command) == commands' = IF launcher \in Running THEN Append(commands, command) ELSE commands

Fault(f) == f \in Faults /\ troubled' = TRUE

Init ==
  /\ at = "idle" /\ launcher = "none" /\ child = "none"
  /\ commands = <<>> /\ events = <<>>
  /\ pending = FALSE /\ owner = None
  /\ client = FALSE /\ attempt = "none" /\ closing = 0 /\ pump = FALSE
  /\ failed = FALSE /\ outcome = "none" /\ troubled = FALSE
  /\ starts = 0 /\ stops = 0

-----------------------------------------------------------------------------
(* The launcher and its child *)

Anchor ==
  /\ launcher = "new"
  /\ launcher' = "anchored" /\ events' = Append(events, "anchor")
  /\ UNCHANGED <<at, child, commands, pending, owner, resources, failed, outcome, troubled, bounds>>

(* Any other command is ignored; a command behind "start" is lost. *)
ReadStart ==
  /\ launcher = "anchored" /\ commands # <<>>
  /\ commands' = <<>>
  /\ \/ /\ Head(commands) = "start"
        /\ launcher' = "serving"
        /\ \/ child' = "alive" /\ events' = Append(events, "child") /\ UNCHANGED troubled
           \/ Fault("serve") /\ events' = Append(events, "startError") /\ UNCHANGED child
  /\ UNCHANGED <<at, pending, owner, resources, failed, outcome, bounds>>

(* SIGTERM to the group: the launcher ignores it, the child may *)
ReadTerm ==
  /\ launcher = "serving" /\ commands # <<>> /\ Head(commands) = "term"
  /\ commands' = <<>>
  /\ \/ /\ events' = Append(events, "termOk")
        /\ child' \in {child, IF child = "alive" THEN "exited" ELSE child}
        /\ UNCHANGED troubled
     \/ Fault("term") /\ events' = Append(events, "termError") /\ UNCHANGED child
  /\ UNCHANGED <<at, launcher, pending, owner, resources, failed, outcome, bounds>>

(* SIGKILL to the group takes launcher and child *)
ReadKill ==
  /\ launcher = "serving" /\ commands # <<>> /\ Head(commands) = "kill"
  /\ commands' = <<>>
  /\ \/ /\ launcher' = "killed" /\ child' = IF child = "alive" THEN "exited" ELSE child
        /\ UNCHANGED <<events, troubled>>
     \/ Fault("kill") /\ events' = Append(events, "killError") /\ UNCHANGED <<launcher, child>>
  /\ UNCHANGED <<at, pending, owner, resources, failed, outcome, bounds>>

ChildExits ==
  /\ child = "alive" /\ child' = "exited"
  /\ UNCHANGED <<at, launcher, commands, events, pending, owner, resources, failed, outcome,
                 troubled, bounds>>

ReportExit ==
  /\ launcher = "serving" /\ child = "exited"
  /\ child' = "reported" /\ events' = Append(events, "exit")
  /\ UNCHANGED <<at, launcher, commands, pending, owner, resources, failed, outcome, troubled,
                 bounds>>

(* The launcher ends without its child: a failure of its own, or the end   *)
(* of a command pipe that start() closed before it owned the launcher.     *)
LauncherExits ==
  /\ launcher \in Running
  /\ \/ Fault("launcher")
     \/ pending /\ at # "identify" /\ UNCHANGED troubled
  /\ launcher' = "exited"
  /\ UNCHANGED <<at, child, commands, events, pending, owner, resources, failed, outcome, bounds>>

-----------------------------------------------------------------------------
(* start *)

(* Mutant: only an owner refuses another start. *)
LaunchIfUnowned ==
  /\ at = "idle" /\ starts < MaxStarts
  /\ owner = None
  /\ starts' = starts + 1 /\ outcome' = "none" /\ failed' = FALSE
  /\ events' = <<>> /\ commands' = <<>> /\ child' = "none"
  /\ \/ launcher' = "new" /\ pending' = TRUE /\ at' = "identify" /\ UNCHANGED troubled
     \/ Fault("spawn") /\ launcher' = "none" /\ at' = "stop" /\ UNCHANGED pending
  /\ UNCHANGED <<owner, resources, stops>>

Launch ==
  /\ at = "idle" /\ starts < MaxStarts
  /\ owner = None /\ ~pending /\ ~client /\ attempt = "none" /\ ~pump
  /\ starts' = starts + 1 /\ outcome' = "none" /\ failed' = FALSE
  /\ events' = <<>> /\ commands' = <<>> /\ child' = "none"
  /\ \/ launcher' = "new" /\ pending' = TRUE /\ at' = "identify" /\ UNCHANGED troubled
     \/ Fault("spawn") /\ launcher' = "none" /\ at' = "stop" /\ UNCHANGED pending
  /\ UNCHANGED <<owner, resources, stops>>

Identify ==
  /\ at = "identify" /\ events # <<>>
  /\ events' = <<>> /\ pending' = FALSE
  /\ owner' = [term |-> FALSE, kill |-> FALSE]
  /\ Send("start") /\ at' = "childEvent"
  /\ UNCHANGED <<launcher, child, resources, failed, outcome, troubled, bounds>>

ChildEvent ==
  /\ at = "childEvent" /\ events # <<>>
  /\ events' = <<>>
  /\ IF Head(events) = "child" THEN pump' = TRUE /\ at' = "ready"
                               ELSE at' = "stop" /\ UNCHANGED pump
  /\ UNCHANGED <<processes, pending, owner, client, attempt, closing, failed, outcome, troubled,
                 bounds>>

(* The readiness line may be seen after the child has gone *)
AwaitReady ==
  /\ at = "ready"
  /\ \/ client' = TRUE /\ at' = "idle"
     \/ child # "alive" /\ at' = "stop" /\ UNCHANGED client
  /\ events' = IF events = <<>> THEN events ELSE Tail(events)
  /\ UNCHANGED <<processes, pending, owner, attempt, closing, pump, failed, outcome, troubled,
                 bounds>>

(* A deadline, an identity that is refused, a launcher that has exited or  *)
(* an interrupt: start() cleans up before it raises                        *)
StartAborts ==
  /\ at \in {"identify", "childEvent", "ready"}
  /\ \/ Fault("abort")
     \/ launcher \notin Running /\ UNCHANGED troubled
  /\ at' = "stop"
  /\ UNCHANGED <<processes, events, pending, owner, resources, failed, outcome, bounds>>

-----------------------------------------------------------------------------
(* stop: the shared client *)

BeginStop ==
  /\ at = "idle" /\ stops < MaxStops
  /\ at' = "stop" /\ failed' = FALSE /\ outcome' = "none" /\ stops' = stops + 1
  /\ UNCHANGED <<processes, events, pending, owner, resources, troubled, starts>>

StartClose ==
  /\ at = "stop"
  /\ \/ ~client /\ at' = "pending" /\ UNCHANGED <<attempt, closing, failed, troubled>>
     \/ /\ client /\ attempt = "none"
        /\ \/ attempt' = "running" /\ closing' = closing + 1 /\ at' = "waitClose"
              /\ UNCHANGED <<failed, troubled>>
           \/ Fault("close") /\ failed' = TRUE /\ at' = "pending" /\ UNCHANGED <<attempt, closing>>
     \/ /\ client /\ attempt # "none"
        /\ at' = "waitClose" /\ UNCHANGED <<attempt, closing, failed, troubled>>
  /\ UNCHANGED <<processes, events, pending, owner, client, pump, outcome, bounds>>

(* The worker thread of a _BoundedCloseAttempt *)
CloseEnds ==
  /\ closing > 0 /\ closing' = closing - 1
  /\ \/ /\ attempt' = IF attempt = "running" THEN "closed" ELSE attempt
        /\ UNCHANGED troubled
     \/ /\ Fault("close")
        /\ attempt' = IF attempt = "running" THEN "failed" ELSE attempt
  /\ UNCHANGED <<at, processes, events, pending, owner, client, pump, failed, outcome, bounds>>

CloseSettled ==
  /\ attempt' = "none"
  /\ \/ attempt = "closed" /\ client' = FALSE /\ UNCHANGED failed
     \/ attempt = "failed" /\ failed' = TRUE /\ UNCHANGED client
  /\ UNCHANGED troubled

(* Mutant: a close that runs out of time is forgotten. *)
WaitCloseForgets ==
  /\ at = "waitClose" /\ at' = "pending"
  /\ \/ CloseSettled
     \/ attempt = "running" /\ Fault("hang") /\ attempt' = "none" /\ failed' = TRUE
        /\ UNCHANGED client
  /\ UNCHANGED <<processes, events, pending, owner, closing, pump, outcome, bounds>>

(* Mutant: the wait for close has no bound. *)
WaitCloseUnbounded ==
  /\ at = "waitClose" /\ at' = "pending"
  /\ CloseSettled
  /\ UNCHANGED <<processes, events, pending, owner, closing, pump, outcome, bounds>>

(* On a timeout both client and attempt are kept, for the next stop *)
WaitClose ==
  /\ at = "waitClose" /\ at' = "pending"
  /\ \/ CloseSettled
     \/ attempt = "running" /\ Fault("hang") /\ failed' = TRUE /\ UNCHANGED <<client, attempt>>
  /\ UNCHANGED <<processes, events, pending, owner, closing, pump, outcome, bounds>>

-----------------------------------------------------------------------------
(* stop: the launcher *)

(* A launcher not yet identified, hence without a child, is killed itself *)
StopPending ==
  /\ at = "pending" /\ at' = "term"
  /\ \/ ~pending /\ UNCHANGED <<launcher, pending, failed, troubled>>
     \/ /\ pending /\ pending' = FALSE
        /\ launcher' = IF launcher \in Running THEN "killed" ELSE launcher
        /\ UNCHANGED <<failed, troubled>>
     \/ /\ pending /\ launcher \in Running /\ Fault("stall")
        /\ failed' = TRUE /\ UNCHANGED <<launcher, pending>>
  /\ UNCHANGED <<child, commands, events, owner, resources, outcome, bounds>>

StopTerm ==
  /\ at = "term"
  /\ \/ owner = None /\ at' = "pump" /\ UNCHANGED commands
     \/ owner # None /\ launcher \notin Running /\ at' = "confirm" /\ UNCHANGED commands
     \/ /\ owner # None /\ launcher \in Running
        /\ IF owner.term THEN at' = "child" /\ UNCHANGED commands
                         ELSE at' = "waitTerm" /\ Send("term")
  /\ UNCHANGED <<launcher, child, events, pending, owner, resources, failed, outcome, troubled,
                 bounds>>

(* wait_for_acknowledgement: what stands before the answer is dropped *)
Answers(kinds) == {i \in DOMAIN events : events[i] \in kinds}

First(kinds) == {i \in Answers(kinds) : \A j \in Answers(kinds) : i <= j}

After(i) == SubSeq(events, i + 1, Len(events))

TermKinds == {"termOk", "termError"}

(* No answer in time: the launcher has gone, the command was lost, or the  *)
(* launcher has not come to it                                             *)
Unanswered(kinds) ==
  /\ Answers(kinds) = {} /\ events' = <<>>
  /\ \/ (launcher \notin Running \/ commands = <<>>) /\ UNCHANGED troubled
     \/ launcher \in Running /\ commands # <<>> /\ Fault("stall")

WaitTerm ==
  /\ at = "waitTerm"
  /\ \/ \E i \in First(TermKinds) :
          /\ events' = After(i) /\ UNCHANGED troubled
          /\ IF events[i] = "termOk"
             THEN owner' = [owner EXCEPT !.term = TRUE] /\ at' = "child" /\ UNCHANGED failed
             ELSE failed' = TRUE /\ at' = "reap" /\ UNCHANGED owner
     \/ Unanswered(TermKinds) /\ failed' = TRUE /\ at' = "reap" /\ UNCHANGED owner
  /\ UNCHANGED <<processes, pending, resources, outcome, bounds>>

(* The child has five seconds; then, or when it exits, the group is killed *)
WaitChild ==
  /\ at = "child"
  /\ \/ \E i \in First({"exit"}) : events' = After(i)
     \/ Answers({"exit"}) = {} /\ events' = <<>>
  /\ at' = IF launcher \in Running /\ ~owner.kill THEN "kill" ELSE "reap"
  /\ UNCHANGED <<processes, pending, owner, resources, failed, outcome, troubled, bounds>>

SendKill ==
  /\ at = "kill" /\ at' = "waitKill"
  /\ Send("kill")
  /\ UNCHANGED <<launcher, child, events, pending, owner, resources, failed, outcome, troubled,
                 bounds>>

(* Mutant: silence is taken for a failure. *)
WaitKillSilent ==
  /\ at = "waitKill" /\ at' = "reap"
  /\ \/ \E i \in First({"killError"}) : events' = After(i) /\ UNCHANGED troubled
     \/ Unanswered({"killError"})
  /\ failed' = TRUE
  /\ UNCHANGED <<processes, pending, owner, resources, outcome, bounds>>

(* No answer is the good one: the launcher died of its own SIGKILL *)
WaitKill ==
  /\ at = "waitKill" /\ at' = "reap"
  /\ \/ \E i \in First({"killError"}) :
          events' = After(i) /\ failed' = TRUE /\ UNCHANGED <<owner, troubled>>
     \/ /\ Unanswered({"killError"})
        /\ owner' = [owner EXCEPT !.kill = TRUE] /\ UNCHANGED failed
  /\ UNCHANGED <<processes, pending, resources, outcome, bounds>>

(* wait_launcher *)
Reap ==
  /\ at = "reap" /\ at' = "confirm"
  /\ \/ (launcher \notin Running \/ commands = <<>>) /\ UNCHANGED troubled
     \/ launcher \in Running /\ commands # <<>> /\ Fault("stall")
  /\ UNCHANGED <<processes, events, pending, owner, resources, failed, outcome, bounds>>

(* Mutant: a launcher that has exited is enough. *)
ShutdownConfirmedExited == launcher \notin Running

ShutdownConfirmed == owner.kill /\ launcher = "killed"

Confirm ==
  /\ at = "confirm" /\ at' = "pump"
  /\ IF ShutdownConfirmed THEN owner' = None /\ UNCHANGED failed
                          ELSE failed' = TRUE /\ UNCHANGED owner
  /\ UNCHANGED <<processes, events, pending, resources, outcome, troubled, bounds>>

(* The pump is joined, and stop() returns or raises what it has met *)
StopPump ==
  /\ at = "pump" /\ at' = "idle"
  /\ \/ pump' = FALSE /\ UNCHANGED <<failed, troubled>>
     \/ pump /\ Fault("pump") /\ failed' = TRUE /\ UNCHANGED pump
  /\ outcome' = IF failed' THEN "unconfirmed" ELSE "confirmed"
  /\ UNCHANGED <<processes, events, pending, owner, client, attempt, closing, bounds>>

-----------------------------------------------------------------------------
Processes ==
  Anchor \/ ReadStart \/ ReadTerm \/ ReadKill \/ ChildExits \/ ReportExit \/ LauncherExits

StartStep == Identify \/ ChildEvent \/ AwaitReady \/ StartAborts

StopStep ==
  \/ StartClose \/ WaitClose \/ StopPending \/ StopTerm \/ WaitTerm \/ WaitChild
  \/ SendKill \/ WaitKill \/ Reap \/ Confirm \/ StopPump

Next == Processes \/ CloseEnds \/ Launch \/ StartStep \/ BeginStop \/ StopStep

(* The calls go on, each wait being bounded; so does a running launcher.   *)
Fairness ==
  /\ WF_vars(StartStep) /\ WF_vars(StopStep)
  /\ WF_vars(Anchor) /\ WF_vars(ReadStart) /\ WF_vars(ReadTerm) /\ WF_vars(ReadKill)

Spec == Init /\ [][Next]_vars

FairSpec == Spec /\ Fairness

-----------------------------------------------------------------------------
(* Properties *)

(* A stop() that returns has left nothing: no process, no open client, no  *)
(* close still running, no pump thread.                                    *)
ConfirmedMeansGone ==
  outcome = "confirmed" =>
    ~Alive /\ owner = None /\ ~pending /\ ~client /\ closing = 0 /\ ~pump

(* client.close() never runs twice at once, however often stop is retried. *)
OneCloseAtATime == closing <= 1

(* A first stop() that meets no fault confirms: no command or answer it    *)
(* needs is lost in the pipes, whenever the child exits.                   *)
OnlyFaultsUnconfirm == outcome = "unconfirmed" => troubled

(* Every start() and stop() returns.                                       *)
CallsReturn == at # "idle" ~> at = "idle"

Managed == INSTANCE ManagedServer WITH alive <- Alive, owned <- owner # None \/ pending

(* The server keeps track of its processes until they are confirmed gone.  *)
ImplementsManagedServer == Managed!Spec
=============================================================================
