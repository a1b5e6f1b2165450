------------------------------ MODULE AgentCalls ------------------------------
(***************************************************************************)
(* What runs on a server that OpenCodeServer has started: the invocations  *)
(* of run_agent() with their sessions, and the session monitor, a worker   *)
(* thread that reads the event stream, answers every permission request    *)
(* with "reject" and is stopped by another thread before the server is.    *)
(*                                                                         *)
(* A request runs on a thread of its own, so that a deadline leaves it     *)
(* behind: a prompt may reach the server after the abort of its session.   *)
(* Reading ends when the response or its client is closed under it         *)
(* (external: httpx).  _lifecycle_lock has one user here.                  *)
(*                                                                         *)
(* Bounds: MaxCalls invocations and a monitor, all in the first lifetime   *)
(* of the server; after one of them began, one stop and no second start;   *)
(* stop_server() beside an invocation only when no monitor runs.           *)
(***************************************************************************)
EXTENDS OpenCodeServer

CONSTANTS MaxCalls,
          CallFaults  \* what may go wrong on the way to the server

ASSUME CallConstants ==
  MaxCalls \in Nat /\ CallFaults \subseteq {"error", "abort", "stream", "reply"}

VARIABLES
  call,     \* run_agent: "none", "creating", "prompting", "aborting"
  session,  \* its session: "none", "created", "working", "asking", "finished"
  prompts,  \* on the way: "own", of this call, and "late", of an earlier one
  left,     \* the session of an earlier call is at work
  lost,     \* ghost: what kept abandoned sessions from being aborted
  calls,
  worker,   \* SSEClient._run_loop
  sseClient, response,  \* _active_client, _active_response: "none", "open", "closed"
  event,    \* a permission request is in the stream
  stopper,  \* SSEClient.stop: "none", "set", "response", "client", "join", "done"
  seen      \* what stop() found published

invocation == <<call, session, prompts, left, lost, calls>>
monitor == <<worker, sseClient, response, event, stopper, seen>>
allvars == <<vars, invocation, monitor>>

Up == at = "idle" /\ client /\ starts = 1 /\ stops = 0

(* Mutant: _stop_event is set after the look at what is open. *)
StoppingLate == stopper \in {"client", "join", "done"}

(* _stop_event is set and stays set. *)
Stopping == stopper # "none"

AtWork == {"working", "asking"}

CallsInit ==
  /\ Init
  /\ call = "none" /\ session = "none" /\ prompts = {} /\ left = FALSE /\ lost = {}
  /\ calls = 0
  /\ worker = "none" /\ sseClient = "none" /\ response = "none" /\ event = FALSE
  /\ stopper = "none" /\ seen = {}

-----------------------------------------------------------------------------
(* run_agent *)

BeginCall ==
  /\ Up /\ call = "none" /\ ~Stopping /\ calls < MaxCalls
  /\ call' = "creating" /\ calls' = calls + 1
  /\ lost' = IF left \/ prompts # {} THEN lost ELSE {}
  /\ UNCHANGED <<vars, session, prompts, left, monitor>>

(* The deadline may pass before a prompt could be sent. *)
SessionCreated ==
  /\ call = "creating" /\ child = "alive"
  /\ session' = "created"
  /\ \/ call' = "prompting" /\ prompts' = prompts \cup {"own"}
     \/ call' = "aborting" /\ UNCHANGED prompts
  /\ UNCHANGED <<vars, left, lost, calls, monitor>>

CreateFails ==
  /\ call = "creating"
  /\ call' = "none"
  /\ UNCHANGED <<vars, session, prompts, left, lost, calls, monitor>>

(* The call is over; what it leaves behind goes on without it. *)
Returns(why) ==
  /\ call' = "none" /\ session' = "none"
  /\ left' = (left \/ session \in AtWork)
  /\ prompts' = IF "own" \in prompts THEN {"late"} ELSE prompts
  /\ lost' = IF session \in AtWork \/ "own" \in prompts THEN lost \cup {why} ELSE lost
  /\ UNCHANGED <<vars, calls, monitor>>

CallAnswered == call = "prompting" /\ session = "finished" /\ Returns("answered")

(* Mutant: a timeout is an error like any other. *)
CallTimesOutQuietly == call = "prompting" /\ Returns("timeout")

(* Mutant: as httpx counts it, a session that sends anything is in time. *)
CallTimesOutInactive ==
  /\ call = "prompting" /\ session # "working"
  /\ call' = "aborting"
  /\ UNCHANGED <<vars, session, prompts, left, lost, calls, monitor>>

(* PhaseTimeoutError, whatever the session is doing *)
CallTimesOut ==
  /\ call = "prompting"
  /\ call' = "aborting"
  /\ UNCHANGED <<vars, session, prompts, left, lost, calls, monitor>>

(* Any other error (a broken connection, an HTTP status, an interrupt) is  *)
(* raised at once, without an abort.                                       *)
CallBreaks ==
  /\ call = "prompting"
  /\ child # "alive" \/ "error" \in CallFaults
  /\ Returns("error")

(* One request, whose outcome is not looked at.  The prompt may still be   *)
(* on its way.                                                             *)
AbortSession ==
  /\ call = "aborting"
  /\ \/ /\ call' = "none" /\ session' = "none"
        /\ prompts' = IF "own" \in prompts THEN {"late"} ELSE prompts
        /\ lost' = IF "own" \in prompts THEN lost \cup {"overtaken"} ELSE lost
        /\ UNCHANGED <<vars, left, calls, monitor>>
     \/ "abort" \in CallFaults /\ Returns("abort")

(* abort_active_sessions by another thread ends the prompt with an error.  *)
AbortActive ==
  /\ call = "prompting" /\ session \in AtWork
  /\ session' = "finished"
  /\ UNCHANGED <<vars, call, prompts, left, lost, calls, monitor>>

-----------------------------------------------------------------------------
(* The server and its sessions *)

PromptArrives ==
  /\ child = "alive"
  /\ \E p \in prompts :
       /\ prompts' = prompts \ {p}
       /\ IF p = "own" THEN session' = "working" /\ UNCHANGED left
                       ELSE left' = TRUE /\ UNCHANGED session
  /\ UNCHANGED <<vars, call, lost, calls, monitor>>

(* The client of a request that was left behind is closed. *)
PromptDropped ==
  /\ \E p \in prompts : (p = "late" \/ call = "aborting") /\ prompts' = prompts \ {p}
  /\ UNCHANGED <<vars, call, session, left, lost, calls, monitor>>

SessionWorks ==
  /\ child = "alive" /\ session = "working"
  /\ \/ session' = "finished" /\ UNCHANGED event
     \/ session' = "asking" /\ event' = (event \/ worker = "reading")
  /\ UNCHANGED <<vars, call, prompts, left, lost, calls, worker, sseClient, response,
                 stopper, seen>>

LeftSessionEnds ==
  /\ left /\ left' = FALSE
  /\ lost' = IF prompts = {} THEN {} ELSE lost
  /\ UNCHANGED <<vars, call, session, prompts, calls, monitor>>

-----------------------------------------------------------------------------
(* The monitor's worker *)

Worker(from, to) == worker = from /\ worker' = to

StartMonitor ==
  /\ Up /\ calls = 0 /\ call = "none"
  /\ Worker("none", "check")
  /\ UNCHANGED <<vars, invocation, sseClient, response, event, stopper, seen>>

WorkerChecks ==
  /\ Worker("check", IF Stopping THEN "exited" ELSE "create")
  /\ UNCHANGED <<vars, invocation, sseClient, response, event, stopper, seen>>

WorkerCreates ==
  /\ Worker("create", "created")
  /\ sseClient' = "open"
  /\ UNCHANGED <<vars, invocation, response, event, stopper, seen>>

(* A stop() that took its snapshot before closes nothing: look again. *)
WorkerRechecks ==
  /\ \/ Stopping /\ Worker("created", "exited") /\ sseClient' = "none"
     \/ ~Stopping /\ Worker("created", "connect") /\ UNCHANGED sseClient
  /\ UNCHANGED <<vars, invocation, response, event, stopper, seen>>

WorkerConnects ==
  /\ \/ child = "alive" /\ Worker("connect", "connected")
     \/ /\ child # "alive" \/ sseClient = "closed" \/ "stream" \in CallFaults
        /\ Worker("connect", "cleanup")
  /\ UNCHANGED <<vars, invocation, sseClient, response, event, stopper, seen>>

WorkerPublishes ==
  /\ Worker("connected", "published")
  /\ response' = "open"
  /\ UNCHANGED <<vars, invocation, sseClient, event, stopper, seen>>

WorkerStreams ==
  /\ \/ Stopping /\ Worker("published", "exited") /\ sseClient' = "none" /\ response' = "closed"
     \/ ~Stopping /\ Worker("published", "reading") /\ UNCHANGED <<sseClient, response>>
  /\ UNCHANGED <<vars, invocation, event, stopper, seen>>

WorkerReads ==
  /\ event /\ event' = FALSE
  /\ Worker("reading", IF Stopping THEN "cleanup" ELSE "reply")
  /\ UNCHANGED <<vars, invocation, sseClient, response, stopper, seen>>

(* There is no replay of what a stream carried. *)
EndReading ==
  /\ Worker("reading", "cleanup") /\ event' = FALSE
  /\ UNCHANGED <<vars, invocation, sseClient, response, stopper, seen>>

StreamEnds == ("closed" \in {sseClient, response} \/ child # "alive") /\ EndReading

StreamBreaks == "stream" \in CallFaults /\ EndReading

(* PermissionPolicy: a refused reply leaves the session waiting. *)
WorkerReplies ==
  /\ Worker("reply", "reading")
  /\ \/ child = "alive" /\ session' = (IF session = "asking" THEN "working" ELSE session)
     \/ (child # "alive" \/ "reply" \in CallFaults) /\ UNCHANGED session
  /\ UNCHANGED <<vars, call, prompts, left, lost, calls, sseClient, response, event, stopper, seen>>

WorkerCleans ==
  /\ Worker("cleanup", "check")
  /\ sseClient' = "none" /\ response' = "none"
  /\ UNCHANGED <<vars, invocation, event, stopper, seen>>

-----------------------------------------------------------------------------
(* SSEClient.stop, called by close() when no invocation is running *)

Stopper(from, to) == stopper = from /\ stopper' = to

StopMonitor ==
  /\ Up /\ call = "none" /\ worker # "none"
  /\ Stopper("none", "set")
  /\ UNCHANGED <<vars, invocation, worker, sseClient, response, event, seen>>

SeePublished ==
  /\ Stopper("set", "response")
  /\ seen' = (IF sseClient = "none" THEN {} ELSE {"client"})
               \cup (IF response = "none" THEN {} ELSE {"response"})
  /\ UNCHANGED <<vars, invocation, worker, sseClient, response, event>>

CloseResponse ==
  /\ Stopper("response", "client")
  /\ response' = IF "response" \in seen /\ response = "open" THEN "closed" ELSE response
  /\ UNCHANGED <<vars, invocation, worker, sseClient, event, seen>>

CloseClient ==
  /\ Stopper("client", "join")
  /\ sseClient' = IF "client" \in seen /\ sseClient = "open" THEN "closed" ELSE sseClient
  /\ UNCHANGED <<vars, invocation, worker, response, event, seen>>

(* The worker has exited, or SSECleanupError, which close() swallows *)
Join ==
  /\ Stopper("join", "done") /\ seen' = {}
  /\ UNCHANGED <<vars, invocation, worker, sseClient, response, event>>

-----------------------------------------------------------------------------
(* A step of the server, within the bounds; its sessions end with it. *)
ServerStep ==
  /\ Next
  /\ (at = "idle" /\ at' = "stop" /\ starts' = starts) =>
       /\ worker # "none" => stopper = "done"
       /\ call # "none" => worker = "none"
  /\ (calls > 0 \/ worker # "none") => starts' = 1 /\ stops' <= 1
  /\ session' = IF child' = "alive" THEN session ELSE "none"
  /\ prompts' = IF child' = "alive" THEN prompts ELSE {}
  /\ left' = (left /\ child' = "alive")
  /\ lost' = IF child' = "alive" THEN lost ELSE {}
  /\ UNCHANGED <<call, calls, monitor>>

CallStep ==
  \/ SessionCreated \/ CreateFails \/ CallAnswered \/ CallTimesOut \/ AbortSession

WorkerStep ==
  \/ WorkerChecks \/ WorkerCreates \/ WorkerRechecks \/ WorkerConnects \/ WorkerPublishes
  \/ WorkerStreams \/ WorkerReads \/ StreamEnds \/ WorkerReplies \/ WorkerCleans

StopperStep == SeePublished \/ CloseResponse \/ CloseClient \/ Join

CallsNext ==
  \/ ServerStep \/ BeginCall \/ CallStep \/ CallBreaks \/ AbortActive
  \/ PromptArrives \/ PromptDropped \/ SessionWorks \/ LeftSessionEnds
  \/ StartMonitor \/ WorkerStep \/ StreamBreaks \/ StopMonitor \/ StopperStep

(* Deadlines pass, the timeouts of a connection too, and threads run; no   *)
(* connection has to break.                                                *)
CallsFairness ==
  /\ Fairness
  /\ WF_allvars(CallStep) /\ WF_allvars(WorkerStep) /\ WF_allvars(StopperStep)

CallsSpec == CallsInit /\ [][CallsNext]_allvars /\ CallsFairness

-----------------------------------------------------------------------------
(* Properties *)

(* A session works on after its invocation only when an abort was lost or  *)
(* overtaken by the prompt, or when the call ended by an error other than  *)
(* a timeout: a timeout alone never leaves one behind.                     *)
AbandonedExplained == left => lost \cap {"abort", "overtaken", "error"} # {}

(* run_agent() returns, even when its session waits for a permission that  *)
(* nobody heard it ask for, or the server is stopped under it.             *)
CallReturns == call # "none" ~> call = "none"

(* stop() looks once at what is open: whichever step the worker was at, it *)
(* is not left reading a stream that nobody closed.                        *)
StopReachesReader ==
  stopper \in {"join", "done"} /\ worker \in {"reading", "reply"} =>
    "closed" \in {sseClient, response}

(* Once stop() has set its event the worker ends, wherever it was: what it *)
(* blocks on was seen by stop() and closed, or it sees the event itself.   *)
WorkerEnds == stopper = "set" ~> worker = "exited"
=============================================================================
