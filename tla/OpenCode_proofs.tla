------------------------------- MODULE OpenCode_proofs -------------------------------
(***************************************************************************)
(* Proofs about the life of one OpenCode server, for every set of faults   *)
(* and any number of starts and stops, and about the invocations and the   *)
(* session monitor that run on it.                                         *)
(***************************************************************************)
EXTENDS AgentCalls, SequenceTheorems, TLAPS

Places ==
  {"idle", "identify", "childEvent", "ready", "stop", "waitClose", "pending", "term", "waitTerm",
   "child", "kill", "waitKill", "reap", "confirm", "pump"}

Messages == {"anchor", "child", "startError", "termOk", "termError", "killError", "exit"}

PlacesOK ==
  /\ at \in Places
  /\ launcher \in {"none", "new", "anchored", "serving", "killed", "exited"}
  /\ child \in {"none", "alive", "exited", "reported"}
  /\ owner \in [term : BOOLEAN, kill : BOOLEAN] \cup {None}
  /\ attempt \in {"none", "running", "failed", "closed"} /\ closing \in Nat
  /\ outcome \in {"none", "confirmed", "unconfirmed"}

PipesOK == commands \in Seq({"start", "term", "kill"}) /\ events \in Seq(Messages)

FlagsOK ==
  /\ pending \in BOOLEAN /\ client \in BOOLEAN /\ pump \in BOOLEAN
  /\ failed \in BOOLEAN /\ troubled \in BOOLEAN

Typed == PlacesOK /\ PipesOK /\ FlagsOK

(* Where start and stop work on a launcher they own *)
Owning == {"childEvent", "ready", "waitTerm", "child", "kill", "waitKill", "reap", "confirm"}

(* What runs is pending or owned, and no command reaches a pending one.    *)
TrackInv ==
  /\ launcher \in Running => pending \/ owner # None
  /\ child = "alive" => launcher \in {"serving", "exited"} /\ owner # None
  /\ pending => owner = None /\ commands = <<>> /\ child = "none"
  /\ at \in Owning => owner # None
  /\ at = "identify" => pending

CloseInv ==
  /\ closing = IF attempt = "running" THEN 1 ELSE 0
  /\ attempt # "none" => client
  /\ at = "waitClose" => attempt # "none"

AfterPending == {"term", "waitTerm", "child", "kill", "waitKill", "reap", "confirm", "pump"}

(* What a stop without an error so far has left behind it *)
ConfirmInv ==
  /\ at # "idle" => outcome = "none"
  /\ outcome = "confirmed" => owner = None /\ ~pending /\ ~client /\ ~pump
  /\ at \in AfterPending \cup {"pending"} /\ ~failed => ~client
  /\ at \in AfterPending /\ ~failed => ~pending
  /\ at = "pump" /\ ~failed => owner = None

Errors == {"startError", "termError", "killError"}

Serving == launcher = "serving" /\ commands = <<>>

NotYetAnswered == \A i \in DOMAIN events : events[i] # "termOk"

(* Without a fault the pipes hold what the other side waits for. *)
PipesInv ==
  /\ at = "childEvent" =>
       \/ launcher = "anchored" /\ commands = <<"start">> /\ events = <<>>
       \/ Serving /\ events # <<>> /\ Head(events) = "child"
  /\ at = "childEvent" => ~owner.term /\ ~owner.kill /\ NotYetAnswered
  /\ owner # None /\ at \in {"ready", "idle", "stop", "waitClose", "pending", "term"} =>
       Serving /\ ~owner.term /\ ~owner.kill /\ NotYetAnswered
  /\ at = "waitTerm" =>
       /\ launcher = "serving" /\ ~owner.kill
       /\ \/ commands = <<"term">> /\ NotYetAnswered
          \/ commands = <<>> /\ \E i \in DOMAIN events : events[i] = "termOk"
  /\ at \in {"child", "kill"} => Serving /\ ~owner.kill
  /\ at = "waitKill" => (launcher = "serving" /\ commands = <<"kill">>) \/ launcher = "killed"
  /\ at \in {"reap", "confirm"} => launcher = "killed" /\ owner.kill
  /\ at = "pump" => owner = None

FaultFreeInv ==
  /\ ~failed /\ attempt # "failed" /\ launcher # "exited"
  /\ \A i \in DOMAIN events : events[i] \notin Errors
  /\ pending <=> at = "identify"
  /\ pending => (launcher = "new" /\ events = <<>>) \/ launcher = "anchored"
  /\ PipesInv

IInv ==
  /\ Typed /\ TrackInv /\ CloseInv /\ ConfirmInv
  /\ ~troubled => FaultFreeInv /\ outcome # "unconfirmed"

USE ServerConstants DEF vars, processes, resources, bounds, Running

(* What wait_for_acknowledgement leaves of the events *)
LEMMA AfterLemma ==
  ASSUME events \in Seq(Messages), NEW i \in DOMAIN events
  PROVE  /\ After(i) \in Seq(Messages)
         /\ \A j \in DOMAIN After(i) : \E k \in DOMAIN events : After(i)[j] = events[k]
<1>1. i \in 1..Len(events) /\ Len(events) \in Nat
  OBVIOUS
<1>2. i + 1 \in 1..Len(events) + 1 /\ Len(events) \in i..Len(events)
  BY <1>1
<1>3. /\ After(i) \in Seq(Messages) /\ Len(After(i)) = Len(events) - i
      /\ \A j \in 1..Len(After(i)) : After(i)[j] = events[i + j]
  BY <1>1, <1>2, SubSeqProperties DEF After
<1> QED
  BY <1>1, <1>3

(* What one more event adds to the events *)
LEMMA AppendLemma ==
  ASSUME events \in Seq(Messages), NEW m \in Messages, events' = Append(events, m)
  PROVE  /\ events' \in Seq(Messages)
         /\ \A i \in DOMAIN events : i \in DOMAIN events' /\ events'[i] = events[i]
         /\ \A i \in DOMAIN events' :
              events'[i] = m \/ \E k \in DOMAIN events : events'[i] = events[k]
         /\ events' # <<>> /\ Head(events') = IF events = <<>> THEN m ELSE Head(events)
<1>1. events' \in Seq(Messages)
  OBVIOUS
<1>2. /\ Len(events') = Len(events) + 1 /\ events'[Len(events) + 1] = m
      /\ \A i \in 1..Len(events) : events'[i] = events[i]
  OBVIOUS
<1> QED
  BY <1>1, <1>2

(* The launcher reports its anchor. *)
LEMMA AnchorLemma == IInv /\ Anchor => IInv'
<1> SUFFICES ASSUME IInv, Anchor PROVE IInv'
  OBVIOUS
<1> USE DEF Anchor
<1>1. Typed'
  <2>1. PlacesOK'
    BY DEF IInv, Typed, PlacesOK, Places, CloseInv
  <2>2. PipesOK'
    BY DEF IInv, Typed, PipesOK, Messages
  <2>3. FlagsOK'
    BY DEF IInv, Typed, FlagsOK
  <2> QED
    BY <2>1, <2>2, <2>3 DEF Typed
<1>2. TrackInv'
  BY DEF IInv, Typed, PlacesOK, PipesOK, FlagsOK, TrackInv, Owning
<1>3. CloseInv'
  BY DEF IInv, Typed, PlacesOK, CloseInv
<1>4. ConfirmInv'
  BY DEF IInv, Typed, PlacesOK, TrackInv, CloseInv, ConfirmInv, FlagsOK, AfterPending
<1>5. ~troubled' => FaultFreeInv' /\ outcome' # "unconfirmed"
  BY DEF IInv, Typed, PlacesOK, TrackInv, PipesOK, FlagsOK, CloseInv, ConfirmInv, FaultFreeInv,
    PipesInv, NotYetAnswered, Serving, Owning, Errors
<1> QED
  BY <1>1, <1>2, <1>3, <1>4, <1>5 DEF IInv

(* The launcher starts the server, or reports that it cannot. *)
LEMMA ReadStartLemma == IInv /\ ReadStart => IInv'
<1> SUFFICES ASSUME IInv, ReadStart PROVE IInv'
  OBVIOUS
<1> USE DEF ReadStart, Fault
<1>1. Typed'
  <2>1. PlacesOK'
    BY DEF IInv, Typed, PlacesOK, Places, CloseInv
  <2>2. PipesOK'
    <3>1. "child" \in Messages /\ "startError" \in Messages
      BY DEF Messages
    <3>2. events' = Append(events, "child") \/ events' = Append(events, "startError")
      OBVIOUS
    <3>3. events' \in Seq(Messages)
      BY <3>1, <3>2, AppendLemma DEF IInv, Typed, PipesOK
    <3> QED
      BY <3>3 DEF PipesOK
  <2>3. FlagsOK'
    BY DEF IInv, Typed, FlagsOK
  <2> QED
    BY <2>1, <2>2, <2>3 DEF Typed
<1>2. TrackInv'
  BY DEF IInv, Typed, PlacesOK, PipesOK, FlagsOK, TrackInv, Owning
<1>3. CloseInv'
  BY DEF IInv, Typed, PlacesOK, CloseInv
<1>4. ConfirmInv'
  BY DEF IInv, Typed, PlacesOK, TrackInv, CloseInv, ConfirmInv, FlagsOK, AfterPending
<1>5. ~troubled' => FaultFreeInv' /\ outcome' # "unconfirmed"
  <2> SUFFICES ASSUME ~troubled' PROVE FaultFreeInv' /\ outcome' # "unconfirmed"
    OBVIOUS
  <2>1. ~troubled /\ FaultFreeInv
    BY DEF IInv
  <2>2. "child" \in Messages /\ events' = Append(events, "child")
    BY DEF Messages
  <2>3. at = "childEvent" /\ events = <<>> /\ ~owner.term /\ ~owner.kill
    BY <2>1 DEF IInv, Typed, PlacesOK, Places, TrackInv, FaultFreeInv, PipesInv, Serving
  <2>4. /\ \A i \in DOMAIN events' : events'[i] = "child"
        /\ events' # <<>> /\ Head(events') = "child"
    BY <2>2, <2>3, AppendLemma DEF IInv, Typed, PipesOK
  <2>5. PipesInv'
    BY <2>1, <2>3, <2>4 DEF PipesInv, NotYetAnswered, Serving
  <2> QED
    BY <2>1, <2>3, <2>4, <2>5 DEF IInv, FaultFreeInv, Errors
<1> QED
  BY <1>1, <1>2, <1>3, <1>4, <1>5 DEF IInv

(* The launcher answers a request for SIGTERM. *)
LEMMA ReadTermLemma == IInv /\ ReadTerm => IInv'
<1> SUFFICES ASSUME IInv, ReadTerm PROVE IInv'
  OBVIOUS
<1> USE DEF ReadTerm, Fault
<1>1. Typed'
  <2>1. PlacesOK'
    BY DEF IInv, Typed, PlacesOK, Places, CloseInv
  <2>2. PipesOK'
    BY DEF IInv, Typed, PipesOK, Messages
  <2>3. FlagsOK'
    BY DEF IInv, Typed, FlagsOK
  <2> QED
    BY <2>1, <2>2, <2>3 DEF Typed
<1>2. TrackInv'
  BY DEF IInv, Typed, PlacesOK, PipesOK, FlagsOK, TrackInv, Owning
<1>3. CloseInv'
  BY DEF IInv, Typed, PlacesOK, CloseInv
<1>4. ConfirmInv'
  BY DEF IInv, Typed, PlacesOK, TrackInv, CloseInv, ConfirmInv, FlagsOK, AfterPending
<1>5. ~troubled' => FaultFreeInv' /\ outcome' # "unconfirmed"
  <2> SUFFICES ASSUME ~troubled' PROVE FaultFreeInv' /\ outcome' # "unconfirmed"
    OBVIOUS
  <2>1. ~troubled /\ FaultFreeInv
    BY DEF IInv
  <2>2. at = "waitTerm"
    BY <2>1 DEF IInv, Typed, PlacesOK, Places, TrackInv, FaultFreeInv, PipesInv, NotYetAnswered,
      Serving
  <2>3. events' = Append(events, "termOk")
    BY <2>1
  <2>4. \A i \in DOMAIN events' : events'[i] \notin Errors
    BY <2>1, <2>3 DEF IInv, Typed, PipesOK, FaultFreeInv, Errors
  <2>5. events'[Len(events) + 1] = "termOk" /\ Len(events) + 1 \in DOMAIN events'
    BY <2>3 DEF IInv, Typed, PipesOK
  <2> QED
    BY <2>1, <2>2, <2>4, <2>5 DEF IInv, FaultFreeInv, PipesInv, NotYetAnswered
<1> QED
  BY <1>1, <1>2, <1>3, <1>4, <1>5 DEF IInv

(* The launcher kills its group, or reports that it cannot. *)
LEMMA ReadKillLemma == IInv /\ ReadKill => IInv'
<1> SUFFICES ASSUME IInv, ReadKill PROVE IInv'
  OBVIOUS
<1> USE DEF ReadKill, Fault
<1>1. Typed'
  <2>1. PlacesOK'
    BY DEF IInv, Typed, PlacesOK, Places, CloseInv
  <2>2. PipesOK'
    BY DEF IInv, Typed, PipesOK, Messages
  <2>3. FlagsOK'
    BY DEF IInv, Typed, FlagsOK
  <2> QED
    BY <2>1, <2>2, <2>3 DEF Typed
<1>2. TrackInv'
  BY DEF IInv, Typed, PlacesOK, PipesOK, FlagsOK, TrackInv, Owning
<1>3. CloseInv'
  BY DEF IInv, Typed, PlacesOK, CloseInv
<1>4. ConfirmInv'
  BY DEF IInv, Typed, PlacesOK, TrackInv, CloseInv, ConfirmInv, FlagsOK, AfterPending
<1>5. ~troubled' => FaultFreeInv' /\ outcome' # "unconfirmed"
  BY DEF IInv, Typed, PlacesOK, TrackInv, PipesOK, FlagsOK, CloseInv, ConfirmInv, FaultFreeInv,
    PipesInv, NotYetAnswered, Serving, Owning, Errors
<1> QED
  BY <1>1, <1>2, <1>3, <1>4, <1>5 DEF IInv

(* The server ends by itself. *)
LEMMA ChildExitsLemma == IInv /\ ChildExits => IInv'
<1> SUFFICES ASSUME IInv, ChildExits PROVE IInv'
  OBVIOUS
<1> USE DEF ChildExits
<1>1. Typed'
  <2>1. PlacesOK'
    BY DEF IInv, Typed, PlacesOK, Places, CloseInv
  <2>2. PipesOK'
    BY DEF IInv, Typed, PipesOK, Messages
  <2>3. FlagsOK'
    BY DEF IInv, Typed, FlagsOK
  <2> QED
    BY <2>1, <2>2, <2>3 DEF Typed
<1>2. TrackInv'
  BY DEF IInv, Typed, PlacesOK, PipesOK, FlagsOK, TrackInv, Owning
<1>3. CloseInv'
  BY DEF IInv, Typed, PlacesOK, CloseInv
<1>4. ConfirmInv'
  BY DEF IInv, Typed, PlacesOK, TrackInv, CloseInv, ConfirmInv, FlagsOK, AfterPending
<1>5. ~troubled' => FaultFreeInv' /\ outcome' # "unconfirmed"
  BY DEF IInv, Typed, PlacesOK, TrackInv, PipesOK, FlagsOK, CloseInv, ConfirmInv, FaultFreeInv,
    PipesInv, NotYetAnswered, Serving, Owning, Errors
<1> QED
  BY <1>1, <1>2, <1>3, <1>4, <1>5 DEF IInv

(* The launcher reports the end of the server. *)
LEMMA ReportExitLemma == IInv /\ ReportExit => IInv'
<1> SUFFICES ASSUME IInv, ReportExit PROVE IInv'
  OBVIOUS
<1> USE DEF ReportExit
<1>1. Typed'
  <2>1. PlacesOK'
    BY DEF IInv, Typed, PlacesOK, Places, CloseInv
  <2>2. PipesOK'
    BY AppendLemma DEF IInv, Typed, PipesOK, Messages
  <2>3. FlagsOK'
    BY DEF IInv, Typed, FlagsOK
  <2> QED
    BY <2>1, <2>2, <2>3 DEF Typed
<1>2. TrackInv'
  BY DEF IInv, Typed, PlacesOK, PipesOK, FlagsOK, TrackInv, Owning
<1>3. CloseInv'
  BY DEF IInv, Typed, PlacesOK, CloseInv
<1>4. ConfirmInv'
  BY DEF IInv, Typed, PlacesOK, TrackInv, CloseInv, ConfirmInv, FlagsOK, AfterPending
<1>5. ~troubled' => FaultFreeInv' /\ outcome' # "unconfirmed"
  <2> SUFFICES ASSUME ~troubled' PROVE FaultFreeInv' /\ outcome' # "unconfirmed"
    OBVIOUS
  <2>1. ~troubled /\ FaultFreeInv
    BY DEF IInv
  <2>2. "exit" \in Messages /\ events' = Append(events, "exit")
    BY DEF Messages
  <2>3. /\ \A i \in DOMAIN events : i \in DOMAIN events' /\ events'[i] = events[i]
        /\ \A i \in DOMAIN events' :
             events'[i] = "exit" \/ \E k \in DOMAIN events : events'[i] = events[k]
        /\ events # <<>> => events' # <<>> /\ Head(events') = Head(events)
    BY <2>2, AppendLemma DEF IInv, Typed, PipesOK
  <2>4. \A i \in DOMAIN events' : events'[i] \notin Errors
    BY <2>1, <2>3 DEF FaultFreeInv, Errors
  <2>5. NotYetAnswered => NotYetAnswered'
    BY <2>3 DEF NotYetAnswered
  <2>6. PipesInv'
    BY <2>1, <2>3, <2>5 DEF FaultFreeInv, PipesInv, Serving
  <2> QED
    BY <2>1, <2>4, <2>6 DEF IInv, TrackInv, FaultFreeInv
<1> QED
  BY <1>1, <1>2, <1>3, <1>4, <1>5 DEF IInv

(* The launcher ends without its child. *)
LEMMA LauncherExitsLemma == IInv /\ LauncherExits => IInv'
<1> SUFFICES ASSUME IInv, LauncherExits PROVE IInv'
  OBVIOUS
<1> USE DEF LauncherExits, Fault
<1>1. Typed'
  <2>1. PlacesOK'
    BY DEF IInv, Typed, PlacesOK, Places, CloseInv
  <2>2. PipesOK'
    BY DEF IInv, Typed, PipesOK, Messages
  <2>3. FlagsOK'
    BY DEF IInv, Typed, FlagsOK
  <2> QED
    BY <2>1, <2>2, <2>3 DEF Typed
<1>2. TrackInv'
  BY DEF IInv, Typed, PlacesOK, PipesOK, FlagsOK, TrackInv, Owning
<1>3. CloseInv'
  BY DEF IInv, Typed, PlacesOK, CloseInv
<1>4. ConfirmInv'
  BY DEF IInv, Typed, PlacesOK, TrackInv, CloseInv, ConfirmInv, FlagsOK, AfterPending
<1>5. ~troubled' => FaultFreeInv' /\ outcome' # "unconfirmed"
  BY DEF IInv, Typed, PlacesOK, TrackInv, PipesOK, FlagsOK, CloseInv, ConfirmInv, FaultFreeInv,
    PipesInv, NotYetAnswered, Serving, Owning, Errors
<1> QED
  BY <1>1, <1>2, <1>3, <1>4, <1>5 DEF IInv

(* start() begins a lifetime, or fails to. *)
LEMMA LaunchLemma == IInv /\ Launch => IInv'
<1> SUFFICES ASSUME IInv, Launch PROVE IInv'
  OBVIOUS
<1> USE DEF Launch, Fault
<1>1. Typed'
  <2>1. PlacesOK'
    BY DEF IInv, Typed, PlacesOK, Places, CloseInv
  <2>2. PipesOK'
    BY DEF IInv, Typed, PipesOK, Messages
  <2>3. FlagsOK'
    BY DEF IInv, Typed, FlagsOK
  <2> QED
    BY <2>1, <2>2, <2>3 DEF Typed
<1>2. TrackInv'
  BY DEF IInv, Typed, PlacesOK, PipesOK, FlagsOK, TrackInv, Owning
<1>3. CloseInv'
  BY DEF IInv, Typed, PlacesOK, CloseInv
<1>4. ConfirmInv'
  BY DEF IInv, Typed, PlacesOK, TrackInv, CloseInv, ConfirmInv, FlagsOK, AfterPending
<1>5. ~troubled' => FaultFreeInv' /\ outcome' # "unconfirmed"
  BY DEF IInv, Typed, PlacesOK, TrackInv, PipesOK, FlagsOK, CloseInv, ConfirmInv, FaultFreeInv,
    PipesInv, NotYetAnswered, Serving, Owning, Errors
<1> QED
  BY <1>1, <1>2, <1>3, <1>4, <1>5 DEF IInv

(* start() becomes the owner of an identified launcher. *)
LEMMA IdentifyLemma == IInv /\ Identify => IInv'
<1> SUFFICES ASSUME IInv, Identify PROVE IInv'
  OBVIOUS
<1> USE DEF Identify, Send
<1>1. Typed'
  <2>1. PlacesOK'
    BY DEF IInv, Typed, PlacesOK, Places, CloseInv
  <2>2. PipesOK'
    BY DEF IInv, Typed, PipesOK, Messages
  <2>3. FlagsOK'
    BY DEF IInv, Typed, FlagsOK
  <2> QED
    BY <2>1, <2>2, <2>3 DEF Typed
<1>2. TrackInv'
  <2>1. [term |-> FALSE, kill |-> FALSE] \in [term : BOOLEAN, kill : BOOLEAN]
    OBVIOUS
  <2> QED
    BY <2>1 DEF IInv, Typed, PlacesOK, PipesOK, FlagsOK, TrackInv, Owning
<1>3. CloseInv'
  BY DEF IInv, Typed, PlacesOK, CloseInv
<1>4. ConfirmInv'
  BY DEF IInv, Typed, PlacesOK, TrackInv, CloseInv, ConfirmInv, FlagsOK, AfterPending
<1>5. ~troubled' => FaultFreeInv' /\ outcome' # "unconfirmed"
  BY DEF IInv, Typed, PlacesOK, TrackInv, PipesOK, FlagsOK, CloseInv, ConfirmInv, FaultFreeInv,
    PipesInv, NotYetAnswered, Serving, Owning, Errors
<1> QED
  BY <1>1, <1>2, <1>3, <1>4, <1>5 DEF IInv

(* start() hears of the server. *)
LEMMA ChildEventLemma == IInv /\ ChildEvent => IInv'
<1> SUFFICES ASSUME IInv, ChildEvent PROVE IInv'
  OBVIOUS
<1> USE DEF ChildEvent
<1>1. Typed'
  <2>1. PlacesOK'
    BY DEF IInv, Typed, PlacesOK, Places, CloseInv
  <2>2. PipesOK'
    BY DEF IInv, Typed, PipesOK, Messages
  <2>3. FlagsOK'
    BY DEF IInv, Typed, FlagsOK
  <2> QED
    BY <2>1, <2>2, <2>3 DEF Typed
<1>2. TrackInv'
  BY DEF IInv, Typed, PlacesOK, PipesOK, FlagsOK, TrackInv, Owning
<1>3. CloseInv'
  BY DEF IInv, Typed, PlacesOK, CloseInv
<1>4. ConfirmInv'
  BY DEF IInv, Typed, PlacesOK, TrackInv, CloseInv, ConfirmInv, FlagsOK, AfterPending
<1>5. ~troubled' => FaultFreeInv' /\ outcome' # "unconfirmed"
  BY DEF IInv, Typed, PlacesOK, TrackInv, PipesOK, FlagsOK, CloseInv, ConfirmInv, FaultFreeInv,
    PipesInv, NotYetAnswered, Serving, Owning, Errors
<1> QED
  BY <1>1, <1>2, <1>3, <1>4, <1>5 DEF IInv

(* start() returns, or finds that the server has ended. *)
LEMMA AwaitReadyLemma == IInv /\ AwaitReady => IInv'
<1> SUFFICES ASSUME IInv, AwaitReady PROVE IInv'
  OBVIOUS
<1> USE DEF AwaitReady
<1>1. Typed'
  <2>1. PlacesOK'
    BY DEF IInv, Typed, PlacesOK, Places, CloseInv
  <2>2. PipesOK'
    BY DEF IInv, Typed, PipesOK, Messages
  <2>3. FlagsOK'
    BY DEF IInv, Typed, FlagsOK
  <2> QED
    BY <2>1, <2>2, <2>3 DEF Typed
<1>2. TrackInv'
  BY DEF IInv, Typed, PlacesOK, PipesOK, FlagsOK, TrackInv, Owning
<1>3. CloseInv'
  BY DEF IInv, Typed, PlacesOK, CloseInv
<1>4. ConfirmInv'
  BY DEF IInv, Typed, PlacesOK, TrackInv, CloseInv, ConfirmInv, FlagsOK, AfterPending
<1>5. ~troubled' => FaultFreeInv' /\ outcome' # "unconfirmed"
  BY DEF IInv, Typed, PlacesOK, TrackInv, PipesOK, FlagsOK, CloseInv, ConfirmInv, FaultFreeInv,
    PipesInv, NotYetAnswered, Serving, Owning, Errors
<1> QED
  BY <1>1, <1>2, <1>3, <1>4, <1>5 DEF IInv

(* start() gives up. *)
LEMMA StartAbortsLemma == IInv /\ StartAborts => IInv'
<1> SUFFICES ASSUME IInv, StartAborts PROVE IInv'
  OBVIOUS
<1> USE DEF StartAborts, Fault
<1>1. Typed'
  <2>1. PlacesOK'
    BY DEF IInv, Typed, PlacesOK, Places, CloseInv
  <2>2. PipesOK'
    BY DEF IInv, Typed, PipesOK, Messages
  <2>3. FlagsOK'
    BY DEF IInv, Typed, FlagsOK
  <2> QED
    BY <2>1, <2>2, <2>3 DEF Typed
<1>2. TrackInv'
  BY DEF IInv, Typed, PlacesOK, PipesOK, FlagsOK, TrackInv, Owning
<1>3. CloseInv'
  BY DEF IInv, Typed, PlacesOK, CloseInv
<1>4. ConfirmInv'
  BY DEF IInv, Typed, PlacesOK, TrackInv, CloseInv, ConfirmInv, FlagsOK, AfterPending
<1>5. ~troubled' => FaultFreeInv' /\ outcome' # "unconfirmed"
  BY DEF IInv, Typed, PlacesOK, TrackInv, PipesOK, FlagsOK, CloseInv, ConfirmInv, FaultFreeInv,
    PipesInv, NotYetAnswered, Serving, Owning, Errors
<1> QED
  BY <1>1, <1>2, <1>3, <1>4, <1>5 DEF IInv

(* stop() begins. *)
LEMMA BeginStopLemma == IInv /\ BeginStop => IInv'
<1> SUFFICES ASSUME IInv, BeginStop PROVE IInv'
  OBVIOUS
<1> USE DEF BeginStop
<1>1. Typed'
  <2>1. PlacesOK'
    BY DEF IInv, Typed, PlacesOK, Places, CloseInv
  <2>2. PipesOK'
    BY DEF IInv, Typed, PipesOK, Messages
  <2>3. FlagsOK'
    BY DEF IInv, Typed, FlagsOK
  <2> QED
    BY <2>1, <2>2, <2>3 DEF Typed
<1>2. TrackInv'
  BY DEF IInv, Typed, PlacesOK, PipesOK, FlagsOK, TrackInv, Owning
<1>3. CloseInv'
  BY DEF IInv, Typed, PlacesOK, CloseInv
<1>4. ConfirmInv'
  BY DEF IInv, Typed, PlacesOK, TrackInv, CloseInv, ConfirmInv, FlagsOK, AfterPending
<1>5. ~troubled' => FaultFreeInv' /\ outcome' # "unconfirmed"
  BY DEF IInv, Typed, PlacesOK, TrackInv, PipesOK, FlagsOK, CloseInv, ConfirmInv, FaultFreeInv,
    PipesInv, NotYetAnswered, Serving, Owning, Errors
<1> QED
  BY <1>1, <1>2, <1>3, <1>4, <1>5 DEF IInv

(* stop() begins to close the client, or finds a close that runs. *)
LEMMA StartCloseLemma == IInv /\ StartClose => IInv'
<1> SUFFICES ASSUME IInv, StartClose PROVE IInv'
  OBVIOUS
<1> USE DEF StartClose, Fault
<1>1. Typed'
  <2>1. PlacesOK'
    BY DEF IInv, Typed, PlacesOK, Places, CloseInv
  <2>2. PipesOK'
    BY DEF IInv, Typed, PipesOK, Messages
  <2>3. FlagsOK'
    BY DEF IInv, Typed, FlagsOK
  <2> QED
    BY <2>1, <2>2, <2>3 DEF Typed
<1>2. TrackInv'
  BY DEF IInv, Typed, PlacesOK, PipesOK, FlagsOK, TrackInv, Owning
<1>3. CloseInv'
  BY DEF IInv, Typed, PlacesOK, CloseInv
<1>4. ConfirmInv'
  BY DEF IInv, Typed, PlacesOK, TrackInv, CloseInv, ConfirmInv, FlagsOK, AfterPending
<1>5. ~troubled' => FaultFreeInv' /\ outcome' # "unconfirmed"
  BY DEF IInv, Typed, PlacesOK, TrackInv, PipesOK, FlagsOK, CloseInv, ConfirmInv, FaultFreeInv,
    PipesInv, NotYetAnswered, Serving, Owning, Errors
<1> QED
  BY <1>1, <1>2, <1>3, <1>4, <1>5 DEF IInv

(* A close of the client ends. *)
LEMMA CloseEndsLemma == IInv /\ CloseEnds => IInv'
<1> SUFFICES ASSUME IInv, CloseEnds PROVE IInv'
  OBVIOUS
<1> USE DEF CloseEnds, Fault
<1>1. Typed'
  <2>1. PlacesOK'
    BY DEF IInv, Typed, PlacesOK, Places, CloseInv
  <2>2. PipesOK'
    BY DEF IInv, Typed, PipesOK, Messages
  <2>3. FlagsOK'
    BY DEF IInv, Typed, FlagsOK
  <2> QED
    BY <2>1, <2>2, <2>3 DEF Typed
<1>2. TrackInv'
  BY DEF IInv, Typed, PlacesOK, PipesOK, FlagsOK, TrackInv, Owning
<1>3. CloseInv'
  BY DEF IInv, Typed, PlacesOK, CloseInv
<1>4. ConfirmInv'
  BY DEF IInv, Typed, PlacesOK, TrackInv, CloseInv, ConfirmInv, FlagsOK, AfterPending
<1>5. ~troubled' => FaultFreeInv' /\ outcome' # "unconfirmed"
  BY DEF IInv, Typed, PlacesOK, TrackInv, PipesOK, FlagsOK, CloseInv, ConfirmInv, FaultFreeInv,
    PipesInv, NotYetAnswered, Serving, Owning, Errors
<1> QED
  BY <1>1, <1>2, <1>3, <1>4, <1>5 DEF IInv

(* stop() has waited for the close of the client. *)
LEMMA WaitCloseLemma == IInv /\ WaitClose => IInv'
<1> SUFFICES ASSUME IInv, WaitClose PROVE IInv'
  OBVIOUS
<1> USE DEF WaitClose, Fault
<1>1. Typed'
  <2>1. PlacesOK'
    BY DEF IInv, Typed, PlacesOK, Places, CloseSettled, CloseInv
  <2>2. PipesOK'
    BY DEF IInv, Typed, PipesOK, Messages
  <2>3. FlagsOK'
    BY DEF IInv, Typed, FlagsOK, CloseSettled
  <2> QED
    BY <2>1, <2>2, <2>3 DEF Typed
<1>2. TrackInv'
  BY DEF IInv, Typed, PlacesOK, PipesOK, FlagsOK, TrackInv, Owning
<1>3. CloseInv'
  BY DEF IInv, Typed, PlacesOK, CloseInv, CloseSettled
<1>4. ConfirmInv'
  BY DEF IInv, Typed, PlacesOK, TrackInv, CloseInv, ConfirmInv, FlagsOK, AfterPending,
    CloseSettled
<1>5. ~troubled' => FaultFreeInv' /\ outcome' # "unconfirmed"
  BY DEF IInv, Typed, PlacesOK, TrackInv, PipesOK, FlagsOK, CloseInv, ConfirmInv, FaultFreeInv,
    PipesInv, NotYetAnswered, Serving, Owning, Errors, CloseSettled
<1> QED
  BY <1>1, <1>2, <1>3, <1>4, <1>5 DEF IInv

(* stop() kills a launcher that was not identified. *)
LEMMA StopPendingLemma == IInv /\ StopPending => IInv'
<1> SUFFICES ASSUME IInv, StopPending PROVE IInv'
  OBVIOUS
<1> USE DEF StopPending, Fault
<1>1. Typed'
  <2>1. PlacesOK'
    BY DEF IInv, Typed, PlacesOK, Places, CloseInv
  <2>2. PipesOK'
    BY DEF IInv, Typed, PipesOK, Messages
  <2>3. FlagsOK'
    BY DEF IInv, Typed, FlagsOK
  <2> QED
    BY <2>1, <2>2, <2>3 DEF Typed
<1>2. TrackInv'
  BY DEF IInv, Typed, PlacesOK, PipesOK, FlagsOK, TrackInv, Owning
<1>3. CloseInv'
  BY DEF IInv, Typed, PlacesOK, CloseInv
<1>4. ConfirmInv'
  BY DEF IInv, Typed, PlacesOK, TrackInv, CloseInv, ConfirmInv, FlagsOK, AfterPending
<1>5. ~troubled' => FaultFreeInv' /\ outcome' # "unconfirmed"
  BY DEF IInv, Typed, PlacesOK, TrackInv, PipesOK, FlagsOK, CloseInv, ConfirmInv, FaultFreeInv,
    PipesInv, NotYetAnswered, Serving, Owning, Errors
<1> QED
  BY <1>1, <1>2, <1>3, <1>4, <1>5 DEF IInv

(* stop() asks for SIGTERM. *)
LEMMA StopTermLemma == IInv /\ StopTerm => IInv'
<1> SUFFICES ASSUME IInv, StopTerm PROVE IInv'
  OBVIOUS
<1> USE DEF StopTerm, Send
<1>1. Typed'
  <2>1. PlacesOK'
    BY DEF IInv, Typed, PlacesOK, Places, CloseInv
  <2>2. PipesOK'
    BY DEF IInv, Typed, PipesOK, Messages
  <2>3. FlagsOK'
    BY DEF IInv, Typed, FlagsOK
  <2> QED
    BY <2>1, <2>2, <2>3 DEF Typed
<1>2. TrackInv'
  BY DEF IInv, Typed, PlacesOK, PipesOK, FlagsOK, TrackInv, Owning
<1>3. CloseInv'
  BY DEF IInv, Typed, PlacesOK, CloseInv
<1>4. ConfirmInv'
  BY DEF IInv, Typed, PlacesOK, TrackInv, CloseInv, ConfirmInv, FlagsOK, AfterPending
<1>5. ~troubled' => FaultFreeInv' /\ outcome' # "unconfirmed"
  <2> SUFFICES ASSUME ~troubled' PROVE FaultFreeInv' /\ outcome' # "unconfirmed"
    OBVIOUS
  <2>1. ~troubled /\ FaultFreeInv
    BY DEF IInv
  <2>2. Append(<<>>, "term") = <<"term">>
    OBVIOUS
  <2> QED
    BY <2>1, <2>2 DEF IInv, Typed, PlacesOK, TrackInv, FaultFreeInv, PipesInv, NotYetAnswered,
      Serving
<1> QED
  BY <1>1, <1>2, <1>3, <1>4, <1>5 DEF IInv

(* stop() has waited for the answer. *)
LEMMA WaitTermLemma == IInv /\ WaitTerm => IInv'
<1> SUFFICES ASSUME IInv, WaitTerm PROVE IInv'
  OBVIOUS
<1> USE DEF WaitTerm, Fault
<1>0. /\ events' \in Seq(Messages)
      /\ \A j \in DOMAIN events' : \E k \in DOMAIN events : events'[j] = events[k]
  <2>1. CASE \E i \in DOMAIN events : events' = After(i)
    BY <2>1, AfterLemma DEF IInv, Typed, PipesOK
  <2>2. CASE events' = <<>>
    BY <2>2
  <2> QED
    BY <2>1, <2>2 DEF First, Answers, Unanswered
<1>1. Typed'
  <2>1. PlacesOK'
    <3>1. owner \in [term : BOOLEAN, kill : BOOLEAN]
      BY DEF IInv, Typed, PlacesOK, TrackInv, Owning
    <3>2. [owner EXCEPT !.term = TRUE] \in [term : BOOLEAN, kill : BOOLEAN]
      BY <3>1
    <3> QED
      BY <3>2 DEF IInv, Typed, PlacesOK, Places
  <2>2. PipesOK'
    BY <1>0 DEF IInv, Typed, PipesOK, Unanswered
  <2>3. FlagsOK'
    BY DEF IInv, Typed, FlagsOK, Unanswered
  <2> QED
    BY <2>1, <2>2, <2>3 DEF Typed
<1>2. TrackInv'
  BY DEF IInv, Typed, PlacesOK, PipesOK, FlagsOK, TrackInv, Owning
<1>3. CloseInv'
  BY DEF IInv, Typed, PlacesOK, CloseInv
<1>4. ConfirmInv'
  BY DEF IInv, Typed, PlacesOK, TrackInv, CloseInv, ConfirmInv, FlagsOK, AfterPending
<1>5. ~troubled' => FaultFreeInv' /\ outcome' # "unconfirmed"
  <2> SUFFICES ASSUME ~troubled' PROVE FaultFreeInv' /\ outcome' # "unconfirmed"
    OBVIOUS
  <2>1. ~troubled /\ FaultFreeInv
    BY DEF IInv, Unanswered
  <2>2. \A i \in DOMAIN events' : events'[i] \notin Errors
    BY <1>0, <2>1 DEF FaultFreeInv
  <2>3. ~Unanswered(TermKinds)
    <3>1. CASE commands = <<"term">>
      BY <2>1, <3>1 DEF Unanswered, FaultFreeInv, PipesInv
    <3>2. CASE \E i \in DOMAIN events : events[i] = "termOk"
      BY <3>2 DEF Unanswered, Answers, TermKinds
    <3> QED
      BY <2>1, <3>1, <3>2 DEF FaultFreeInv, PipesInv
  <2>4. \A i \in First(TermKinds) : events[i] = "termOk"
    BY <2>1 DEF FaultFreeInv, Errors, First, Answers, TermKinds
  <2>5. /\ owner' = [owner EXCEPT !.term = TRUE] /\ at' = "child" /\ UNCHANGED failed
    BY <2>3, <2>4
  <2>6. commands = <<>>
    <3>1. TermKinds = {"termOk", "termError"}
      BY DEF TermKinds
    <3> QED
      BY <3>1, <2>1, <2>3, <2>4 DEF FaultFreeInv, PipesInv, NotYetAnswered, First, Answers
  <2> QED
    BY <2>1, <2>2, <2>5, <2>6 DEF IInv, Typed, PlacesOK, TrackInv, Owning, FaultFreeInv, PipesInv,
      NotYetAnswered, Serving
<1> QED
  BY <1>1, <1>2, <1>3, <1>4, <1>5 DEF IInv

(* stop() has waited for the server to end. *)
LEMMA WaitChildLemma == IInv /\ WaitChild => IInv'
<1> SUFFICES ASSUME IInv, WaitChild PROVE IInv'
  OBVIOUS
<1> USE DEF WaitChild
<1>0. /\ events' \in Seq(Messages)
      /\ \A j \in DOMAIN events' : \E k \in DOMAIN events : events'[j] = events[k]
  <2>1. CASE \E i \in DOMAIN events : events' = After(i)
    BY <2>1, AfterLemma DEF IInv, Typed, PipesOK
  <2>2. CASE events' = <<>>
    BY <2>2
  <2> QED
    BY <2>1, <2>2 DEF First, Answers
<1>1. Typed'
  <2>1. PlacesOK'
    BY DEF IInv, Typed, PlacesOK, Places, CloseInv
  <2>2. PipesOK'
    BY <1>0 DEF IInv, Typed, PipesOK
  <2>3. FlagsOK'
    BY DEF IInv, Typed, FlagsOK
  <2> QED
    BY <2>1, <2>2, <2>3 DEF Typed
<1>2. TrackInv'
  BY DEF IInv, Typed, PlacesOK, PipesOK, FlagsOK, TrackInv, Owning
<1>3. CloseInv'
  BY DEF IInv, Typed, PlacesOK, CloseInv
<1>4. ConfirmInv'
  BY DEF IInv, Typed, PlacesOK, TrackInv, CloseInv, ConfirmInv, FlagsOK, AfterPending
<1>5. ~troubled' => FaultFreeInv' /\ outcome' # "unconfirmed"
  <2> SUFFICES ASSUME ~troubled' PROVE FaultFreeInv' /\ outcome' # "unconfirmed"
    OBVIOUS
  <2>1. ~troubled /\ FaultFreeInv
    BY DEF IInv
  <2>2. \A i \in DOMAIN events' : events'[i] \notin Errors
    BY <1>0, <2>1 DEF FaultFreeInv
  <2>3. ~failed' /\ PipesInv'
    BY <2>1 DEF IInv, Typed, PlacesOK, PipesOK, TrackInv, Owning, FaultFreeInv, PipesInv,
      NotYetAnswered, Serving, Errors, Answers, First
  <2> QED
    BY <2>1, <2>2, <2>3 DEF IInv, FaultFreeInv
<1> QED
  BY <1>1, <1>2, <1>3, <1>4, <1>5 DEF IInv

(* stop() asks for SIGKILL. *)
LEMMA SendKillLemma == IInv /\ SendKill => IInv'
<1> SUFFICES ASSUME IInv, SendKill PROVE IInv'
  OBVIOUS
<1> USE DEF SendKill, Send
<1>1. Typed'
  <2>1. PlacesOK'
    BY DEF IInv, Typed, PlacesOK, Places, CloseInv
  <2>2. PipesOK'
    BY DEF IInv, Typed, PipesOK, Messages
  <2>3. FlagsOK'
    BY DEF IInv, Typed, FlagsOK
  <2> QED
    BY <2>1, <2>2, <2>3 DEF Typed
<1>2. TrackInv'
  BY DEF IInv, Typed, PlacesOK, PipesOK, FlagsOK, TrackInv, Owning
<1>3. CloseInv'
  BY DEF IInv, Typed, PlacesOK, CloseInv
<1>4. ConfirmInv'
  BY DEF IInv, Typed, PlacesOK, TrackInv, CloseInv, ConfirmInv, FlagsOK, AfterPending
<1>5. ~troubled' => FaultFreeInv' /\ outcome' # "unconfirmed"
  BY DEF IInv, Typed, PlacesOK, TrackInv, PipesOK, FlagsOK, CloseInv, ConfirmInv, FaultFreeInv,
    PipesInv, NotYetAnswered, Serving, Owning, Errors
<1> QED
  BY <1>1, <1>2, <1>3, <1>4, <1>5 DEF IInv

(* stop() has waited for the refusal that should not come. *)
LEMMA WaitKillLemma == IInv /\ WaitKill => IInv'
<1> SUFFICES ASSUME IInv, WaitKill PROVE IInv'
  OBVIOUS
<1> USE DEF WaitKill, Fault
<1>0. /\ events' \in Seq(Messages)
      /\ \A j \in DOMAIN events' : \E k \in DOMAIN events : events'[j] = events[k]
  <2>1. CASE \E i \in DOMAIN events : events' = After(i)
    BY <2>1, AfterLemma DEF IInv, Typed, PipesOK
  <2>2. CASE events' = <<>>
    BY <2>2
  <2> QED
    BY <2>1, <2>2 DEF First, Answers, Unanswered
<1>1. Typed'
  <2>1. PlacesOK'
    <3>1. owner \in [term : BOOLEAN, kill : BOOLEAN]
      BY DEF IInv, Typed, PlacesOK, TrackInv, Owning
    <3>2. [owner EXCEPT !.kill = TRUE] \in [term : BOOLEAN, kill : BOOLEAN]
      BY <3>1
    <3> QED
      BY <3>2 DEF IInv, Typed, PlacesOK, Places
  <2>2. PipesOK'
    BY <1>0 DEF IInv, Typed, PipesOK, Unanswered
  <2>3. FlagsOK'
    BY DEF IInv, Typed, FlagsOK, Unanswered
  <2> QED
    BY <2>1, <2>2, <2>3 DEF Typed
<1>2. TrackInv'
  BY DEF IInv, Typed, PlacesOK, PipesOK, FlagsOK, TrackInv, Owning
<1>3. CloseInv'
  BY DEF IInv, Typed, PlacesOK, CloseInv
<1>4. ConfirmInv'
  BY DEF IInv, Typed, PlacesOK, TrackInv, CloseInv, ConfirmInv, FlagsOK, AfterPending
<1>5. ~troubled' => FaultFreeInv' /\ outcome' # "unconfirmed"
  <2> SUFFICES ASSUME ~troubled' PROVE FaultFreeInv' /\ outcome' # "unconfirmed"
    OBVIOUS
  <2>1. ~troubled /\ FaultFreeInv
    BY DEF IInv, Unanswered
  <2>2. \A i \in DOMAIN events' : events'[i] \notin Errors
    BY <1>0, <2>1 DEF FaultFreeInv
  <2>3. First({"killError"}) = {}
    BY <2>1 DEF FaultFreeInv, Errors, First, Answers
  <2>4. owner' = [owner EXCEPT !.kill = TRUE] /\ UNCHANGED failed /\ Unanswered({"killError"})
    BY <2>3
  <2>5. launcher = "killed"
    BY <2>1, <2>4 DEF Unanswered, FaultFreeInv, PipesInv
  <2>6. owner'.kill
    BY <2>4 DEF IInv, Typed, PlacesOK, TrackInv, Owning
  <2> QED
    BY <2>1, <2>2, <2>4, <2>5, <2>6 DEF IInv, FaultFreeInv, PipesInv, NotYetAnswered
<1> QED
  BY <1>1, <1>2, <1>3, <1>4, <1>5 DEF IInv

(* stop() has waited for the launcher. *)
LEMMA ReapLemma == IInv /\ Reap => IInv'
<1> SUFFICES ASSUME IInv, Reap PROVE IInv'
  OBVIOUS
<1> USE DEF Reap, Fault
<1>1. Typed'
  <2>1. PlacesOK'
    BY DEF IInv, Typed, PlacesOK, Places, CloseInv
  <2>2. PipesOK'
    BY DEF IInv, Typed, PipesOK, Messages
  <2>3. FlagsOK'
    BY DEF IInv, Typed, FlagsOK
  <2> QED
    BY <2>1, <2>2, <2>3 DEF Typed
<1>2. TrackInv'
  BY DEF IInv, Typed, PlacesOK, PipesOK, FlagsOK, TrackInv, Owning
<1>3. CloseInv'
  BY DEF IInv, Typed, PlacesOK, CloseInv
<1>4. ConfirmInv'
  BY DEF IInv, Typed, PlacesOK, TrackInv, CloseInv, ConfirmInv, FlagsOK, AfterPending
<1>5. ~troubled' => FaultFreeInv' /\ outcome' # "unconfirmed"
  BY DEF IInv, Typed, PlacesOK, TrackInv, PipesOK, FlagsOK, CloseInv, ConfirmInv, FaultFreeInv,
    PipesInv, NotYetAnswered, Serving, Owning, Errors
<1> QED
  BY <1>1, <1>2, <1>3, <1>4, <1>5 DEF IInv

(* stop() gives up its ownership of what is gone. *)
LEMMA ConfirmLemma == IInv /\ Confirm => IInv'
<1> SUFFICES ASSUME IInv, Confirm PROVE IInv'
  OBVIOUS
<1> USE DEF Confirm
<1>1. Typed'
  <2>1. PlacesOK'
    BY DEF IInv, Typed, PlacesOK, Places, CloseInv
  <2>2. PipesOK'
    BY DEF IInv, Typed, PipesOK, Messages
  <2>3. FlagsOK'
    BY DEF IInv, Typed, FlagsOK
  <2> QED
    BY <2>1, <2>2, <2>3 DEF Typed
<1>2. TrackInv'
  BY DEF IInv, Typed, PlacesOK, PipesOK, FlagsOK, TrackInv, Owning, ShutdownConfirmed
<1>3. CloseInv'
  BY DEF IInv, Typed, PlacesOK, CloseInv
<1>4. ConfirmInv'
  BY DEF IInv, Typed, PlacesOK, TrackInv, CloseInv, ConfirmInv, FlagsOK, AfterPending,
    ShutdownConfirmed
<1>5. ~troubled' => FaultFreeInv' /\ outcome' # "unconfirmed"
  BY DEF IInv, Typed, PlacesOK, TrackInv, PipesOK, FlagsOK, CloseInv, ConfirmInv, FaultFreeInv,
    PipesInv, NotYetAnswered, Serving, Owning, Errors, ShutdownConfirmed
<1> QED
  BY <1>1, <1>2, <1>3, <1>4, <1>5 DEF IInv

(* stop() returns. *)
LEMMA StopPumpLemma == IInv /\ StopPump => IInv'
<1> SUFFICES ASSUME IInv, StopPump PROVE IInv'
  OBVIOUS
<1> USE DEF StopPump, Fault
<1>1. Typed'
  <2>1. PlacesOK'
    BY DEF IInv, Typed, PlacesOK, Places, CloseInv
  <2>2. PipesOK'
    BY DEF IInv, Typed, PipesOK, Messages
  <2>3. FlagsOK'
    BY DEF IInv, Typed, FlagsOK
  <2> QED
    BY <2>1, <2>2, <2>3 DEF Typed
<1>2. TrackInv'
  BY DEF IInv, Typed, PlacesOK, PipesOK, FlagsOK, TrackInv, Owning
<1>3. CloseInv'
  BY DEF IInv, Typed, PlacesOK, CloseInv
<1>4. ConfirmInv'
  BY DEF IInv, Typed, PlacesOK, TrackInv, CloseInv, ConfirmInv, FlagsOK, AfterPending
<1>5. ~troubled' => FaultFreeInv' /\ outcome' # "unconfirmed"
  BY DEF IInv, Typed, PlacesOK, TrackInv, PipesOK, FlagsOK, CloseInv, ConfirmInv, FaultFreeInv,
    PipesInv, NotYetAnswered, Serving, Owning, Errors
<1> QED
  BY <1>1, <1>2, <1>3, <1>4, <1>5 DEF IInv

-----------------------------------------------------------------------------
(* Nothing is running or open before the first start. *)
LEMMA InitLemma == Init => IInv
<1> SUFFICES ASSUME Init PROVE IInv
  OBVIOUS
<1>1. Typed
  <2>1. PlacesOK
    BY DEF Init, PlacesOK, Places
  <2>2. PipesOK
    BY DEF Init, PipesOK
  <2>3. FlagsOK
    BY DEF Init, FlagsOK
  <2> QED
    BY <2>1, <2>2, <2>3 DEF Typed
<1>2. TrackInv /\ CloseInv /\ ConfirmInv
  BY DEF Init, TrackInv, CloseInv, ConfirmInv, Owning, AfterPending
<1>3. FaultFreeInv /\ outcome # "unconfirmed"
  BY DEF Init, FaultFreeInv, PipesInv
<1> QED
  BY <1>1, <1>2, <1>3 DEF IInv

(* A stuttering step preserves the invariant. *)
LEMMA StutterLemma == IInv /\ UNCHANGED vars => IInv'
BY DEF IInv, Typed, PlacesOK, PipesOK, FlagsOK, TrackInv, CloseInv, ConfirmInv, FaultFreeInv,
  PipesInv, NotYetAnswered, Serving

(* Every step, of either process or of the close, preserves the invariant. *)
LEMMA StepLemma == IInv /\ [Next]_vars => IInv'
<1> SUFFICES ASSUME IInv, [Next]_vars PROVE IInv'
  OBVIOUS
<1>1. CASE Processes
  BY <1>1, AnchorLemma, ReadStartLemma, ReadTermLemma, ReadKillLemma, ChildExitsLemma,
    ReportExitLemma, LauncherExitsLemma DEF Processes
<1>2. CASE Launch \/ StartStep
  BY <1>2, LaunchLemma, IdentifyLemma, ChildEventLemma, AwaitReadyLemma, StartAbortsLemma
    DEF StartStep
<1>3. CASE BeginStop \/ CloseEnds
  BY <1>3, BeginStopLemma, CloseEndsLemma
<1>4. CASE StopStep
  BY <1>4, StartCloseLemma, WaitCloseLemma, StopPendingLemma, StopTermLemma, WaitTermLemma,
    WaitChildLemma, SendKillLemma, WaitKillLemma, ReapLemma, ConfirmLemma, StopPumpLemma
    DEF StopStep
<1>5. CASE UNCHANGED vars
  BY <1>5, StutterLemma
<1> QED
  BY <1>1, <1>2, <1>3, <1>4, <1>5 DEF Next

(* The invariant holds in every state of every behaviour of the server. *)
THEOREM ServerInvariance == Spec => []IInv
<1> QED
  BY InitLemma, StepLemma, PTL DEF Spec

(* A stop() that returns has left no process, client, close or pump thread. *)
THEOREM ConfirmedLeavesNothing == Spec => []ConfirmedMeansGone
<1>1. IInv => ConfirmedMeansGone
  BY DEF IInv, Typed, PlacesOK, TrackInv, CloseInv, ConfirmInv, ConfirmedMeansGone, Alive
<1> QED
  BY <1>1, ServerInvariance, PTL

(* However often stop() is retried, client.close() never runs twice at once. *)
THEOREM ClosesOnce == Spec => []OneCloseAtATime
<1>1. IInv => OneCloseAtATime
  BY DEF IInv, CloseInv, OneCloseAtATime
<1> QED
  BY <1>1, ServerInvariance, PTL

(* Without a fault every stop() confirms: no command and no answer it needs *)
(* is lost in the pipes, whenever the child exits.                          *)
THEOREM FaultsExplainUnconfirmed == Spec => []OnlyFaultsUnconfirm
<1>1. IInv => OnlyFaultsUnconfirm
  BY DEF IInv, OnlyFaultsUnconfirm
<1> QED
  BY <1>1, ServerInvariance, PTL

Owned == owner # None \/ pending

(* Only start() makes a process or an owner. *)
LEMMA OnlyLaunchAcquires ==
  IInv /\ [Next]_vars /\ ~Launch => (Alive' => Alive) /\ (Owned' => Owned)
<1> SUFFICES ASSUME IInv, [Next]_vars, ~Launch PROVE (Alive' => Alive) /\ (Owned' => Owned)
  OBVIOUS
<1> USE DEF Alive, Owned
<1>1. CASE Processes
  BY <1>1 DEF Processes, Anchor, ReadStart, ReadTerm, ReadKill, ChildExits, ReportExit,
    LauncherExits, IInv, TrackInv
<1>2. CASE StartStep
  BY <1>2 DEF StartStep, Identify, ChildEvent, AwaitReady, StartAborts, IInv, TrackInv
<1>3. CASE BeginStop \/ CloseEnds \/ UNCHANGED vars
  BY <1>3 DEF BeginStop, CloseEnds
<1>4. CASE StopStep
  <2>1. UNCHANGED child /\ (launcher' \in Running => launcher \in Running)
    BY <1>4 DEF StopStep, StartClose, WaitClose, StopPending, StopTerm, WaitTerm, WaitChild,
      SendKill, WaitKill, Reap, Confirm, StopPump
  <2>2. (pending' => pending) /\ (owner' # None => owner # None)
    BY <1>4 DEF StopStep, StartClose, WaitClose, StopPending, StopTerm, WaitTerm, WaitChild,
      SendKill, WaitKill, Reap, Confirm, StopPump, IInv, TrackInv, Owning
  <2> QED
    BY <2>1, <2>2
<1> QED
  BY <1>1, <1>2, <1>3, <1>4 DEF Next

(* The server implements what a session needs of it: it owns whatever may  *)
(* run, and starts another process only when none can.                     *)
THEOREM KeepsTrack == Spec => ImplementsManagedServer
<1> USE DEF Alive, Owned
<1>1. Init => Managed!Init
  BY DEF Init, Managed!Init
<1>2. ASSUME IInv, IInv', [Next]_vars PROVE [Managed!Next]_<<Alive, Owned>>
  <2>1. (Alive => Owned) /\ (Alive' => Owned')
    BY <1>2 DEF IInv, TrackInv
  <2>2. CASE Launch
    BY <2>1, <2>2 DEF Launch, Managed!Next, Managed!Start
  <2>3. CASE ~Launch
    BY <1>2, <2>1, <2>3, OnlyLaunchAcquires DEF Managed!Next, Managed!Dies, Managed!Confirm
  <2> QED
    BY <2>2, <2>3
<1> QED
  BY <1>1, <1>2, ServerInvariance, PTL DEF Spec, ImplementsManagedServer, Managed!Spec

-----------------------------------------------------------------------------
(* Invocations and the session monitor, beside the server *)

CallsTyped ==
  /\ call \in {"none", "creating", "prompting", "aborting"}
  /\ session \in {"none", "created", "working", "asking", "finished"}
  /\ prompts \subseteq {"own", "late"}
  /\ left \in BOOLEAN

(* A session is at work, and its prompt on the way, only under its call.   *)
SessionInv ==
  /\ call \in {"none", "creating"} => session = "none"
  /\ "own" \in prompts => session = "created" /\ call \in {"prompting", "aborting"}

Unaborted == "abort" \in lost \/ "overtaken" \in lost \/ "error" \in lost

(* A late prompt has its cause before its session is at work.              *)
LeftInv == left \/ "late" \in prompts => Unaborted

InvocationInv == CallsTyped /\ SessionInv /\ LeftInv

MonitorTyped ==
  /\ worker \in {"none", "check", "create", "created", "connect", "connected", "published",
                 "reading", "reply", "cleanup", "exited"}
  /\ sseClient \in {"none", "open", "closed"} /\ response \in {"none", "open", "closed"}
  /\ stopper \in {"none", "set", "response", "client", "join", "done"}

(* While the worker reads, stop() has yet to look, has the response in     *)
(* hand, or has closed it.                                                 *)
ReaderInv ==
  worker \in {"published", "reading", "reply"} =>
    /\ response # "none"
    /\ worker # "published" /\ stopper = "response" => "response" \in seen
    /\ worker # "published" /\ stopper \in {"client", "join", "done"} => response = "closed"

MonitorInv == MonitorTyped /\ ReaderInv

CallsInv == InvocationInv /\ MonitorInv

USE CallConstants DEF invocation, monitor

(* The invocations and the monitor never touch what start() and stop() do. *)
LEMMA CallsLeaveServer == [CallsNext]_allvars => [Next]_vars
<1> SUFFICES ASSUME CallsNext, ~ServerStep PROVE UNCHANGED vars
  BY DEF ServerStep, allvars
<1>1. CASE BeginCall \/ CallBreaks \/ AbortActive \/ StartMonitor \/ StreamBreaks \/ StopMonitor
  BY <1>1 DEF BeginCall, CallBreaks, Returns, AbortActive, StartMonitor, StreamBreaks,
    EndReading, StopMonitor
<1>2. CASE PromptArrives \/ PromptDropped \/ SessionWorks \/ LeftSessionEnds
  BY <1>2 DEF PromptArrives, PromptDropped, SessionWorks, LeftSessionEnds
<1>3. CASE CallStep
  BY <1>3 DEF CallStep, SessionCreated, CreateFails, CallAnswered, CallTimesOut, AbortSession,
    Returns
<1>4. CASE WorkerStep
  BY <1>4 DEF WorkerStep, WorkerChecks, WorkerCreates, WorkerRechecks, WorkerConnects,
    WorkerPublishes, WorkerStreams, WorkerReads, StreamEnds, EndReading, WorkerReplies, WorkerCleans
<1>5. CASE StopperStep
  BY <1>5 DEF StopperStep, SeePublished, CloseResponse, CloseClient, Join
<1> QED
  BY <1>1, <1>2, <1>3, <1>4, <1>5 DEF CallsNext

(* Every behaviour with invocations and a monitor is one of the server, so *)
(* what is proved of the server holds beside them.                         *)
THEOREM CallsImplementServer == CallsSpec => FairSpec
<1>1. CallsInit => Init
  BY DEF CallsInit
<1> QED
  BY <1>1, CallsLeaveServer, PTL DEF CallsSpec, CallsFairness, FairSpec, Spec

LEMMA CallsInitInv == CallsInit => CallsInv
  BY DEF CallsInit, CallsInv, InvocationInv, CallsTyped, SessionInv, LeftInv, MonitorInv,
    MonitorTyped, ReaderInv

LEMMA InvocationStays == InvocationInv /\ UNCHANGED invocation => InvocationInv'
  BY DEF InvocationInv, CallsTyped, SessionInv, LeftInv, Unaborted

LEMMA MonitorStays == MonitorInv /\ UNCHANGED monitor => MonitorInv'
  BY DEF MonitorInv, MonitorTyped, ReaderInv

(* run_agent() leaves a session at work only with a cause.                 *)
LEMMA ReturnsInv ==
  ASSUME InvocationInv, call # "none",
         NEW why \in {"answered", "abort", "error"}, Returns(why),
         why = "answered" => session = "finished"
  PROVE  InvocationInv'
<1> USE DEF InvocationInv, CallsTyped, SessionInv, Returns
<1>1. CallsTyped' /\ SessionInv'
  BY DEF AtWork
<1>2. LeftInv'
  <2>1. CASE session \in AtWork \/ "own" \in prompts
    <3>1. why # "answered"
      BY <2>1 DEF AtWork
    <3> QED
      BY <2>1, <3>1 DEF LeftInv, Unaborted
  <2>2. CASE ~(session \in AtWork \/ "own" \in prompts)
    BY <2>2 DEF LeftInv, Unaborted
  <2> QED
    BY <2>1, <2>2
<1> QED
  BY <1>1, <1>2

LEMMA CallStepInv == InvocationInv /\ CallStep => InvocationInv'
<1> SUFFICES ASSUME InvocationInv, CallStep PROVE InvocationInv'
  OBVIOUS
<1> USE DEF InvocationInv, CallsTyped, SessionInv
<1>1. CASE SessionCreated
  <2>1. UNCHANGED <<left, lost>> /\ ("late" \in prompts' => "late" \in prompts)
    BY <1>1 DEF SessionCreated
  <2>2. LeftInv'
    BY <2>1 DEF LeftInv, Unaborted
  <2> QED
    BY <1>1, <2>2 DEF SessionCreated
<1>2. CASE CreateFails
  BY <1>2 DEF CreateFails, LeftInv, Unaborted
<1>3. CASE CallAnswered
  BY <1>3, ReturnsInv DEF CallAnswered
<1>4. CASE CallTimesOut
  BY <1>4 DEF CallTimesOut, LeftInv, Unaborted
<1>5. CASE AbortSession
  <2>1. CASE Returns("abort")
    BY <1>5, <2>1, ReturnsInv DEF AbortSession
  <2>2. CASE ~Returns("abort")
    <3>1. LeftInv'
      BY <1>5, <2>2 DEF AbortSession, LeftInv, Unaborted
    <3> QED
      BY <1>5, <2>2, <3>1 DEF AbortSession
  <2> QED
    BY <2>1, <2>2
<1> QED
  BY <1>1, <1>2, <1>3, <1>4, <1>5 DEF CallStep

LEMMA SessionStepInv ==
  ASSUME InvocationInv,
         BeginCall \/ CallBreaks \/ AbortActive \/ PromptArrives \/ PromptDropped
           \/ SessionWorks \/ LeftSessionEnds
  PROVE  InvocationInv'
<1> USE DEF InvocationInv, CallsTyped, SessionInv
<1>1. CASE BeginCall
  BY <1>1 DEF BeginCall, LeftInv, Unaborted
<1>2. CASE CallBreaks
  BY <1>2, ReturnsInv DEF CallBreaks
<1>3. CASE AbortActive
  BY <1>3 DEF AbortActive, AtWork, LeftInv, Unaborted
<1>4. CASE PromptArrives
  <2>1. PICK p \in prompts :
          /\ prompts' = prompts \ {p}
          /\ IF p = "own" THEN session' = "working" /\ UNCHANGED left
                          ELSE left' = TRUE /\ UNCHANGED session
    BY <1>4 DEF PromptArrives
  <2>2. UNCHANGED <<call, lost>>
    BY <1>4 DEF PromptArrives
  <2>3. CASE p = "own"
    BY <2>1, <2>2, <2>3 DEF LeftInv, Unaborted
  <2>4. CASE p = "late"
    BY <2>1, <2>2, <2>4 DEF LeftInv, Unaborted
  <2> QED
    BY <2>3, <2>4
<1>5. CASE PromptDropped
  BY <1>5 DEF PromptDropped, LeftInv, Unaborted
<1>6. CASE SessionWorks
  BY <1>6 DEF SessionWorks, LeftInv, Unaborted
<1>7. CASE LeftSessionEnds
  <2>1. LeftInv'
    BY <1>7 DEF LeftSessionEnds, LeftInv, Unaborted
  <2> QED
    BY <1>7, <2>1 DEF LeftSessionEnds
<1> QED
  BY <1>1, <1>2, <1>3, <1>4, <1>5, <1>6, <1>7

LEMMA ServerStepInv == InvocationInv /\ ServerStep => InvocationInv'
<1> SUFFICES ASSUME InvocationInv, ServerStep PROVE InvocationInv'
  OBVIOUS
<1>1. UNCHANGED call
  BY DEF ServerStep, invocation
<1>2. CASE child' = "alive"
  <2>1. UNCHANGED <<session, prompts, left, lost>>
    BY <1>2 DEF ServerStep, InvocationInv, CallsTyped
  <2> QED
    BY <1>1, <2>1, InvocationStays DEF ServerStep
<1>3. CASE child' # "alive"
  <2>1. session' = "none" /\ prompts' = {} /\ left' = FALSE
    BY <1>3 DEF ServerStep
  <2> QED
    BY <1>1, <2>1 DEF InvocationInv, CallsTyped, SessionInv, LeftInv
<1> QED
  BY <1>2, <1>3

(* A reply lets a waiting session work; nothing else of the monitor is     *)
(* seen by an invocation.                                                  *)
LEMMA ReplyInv ==
  ASSUME InvocationInv, WorkerStep \/ StopperStep \/ StartMonitor \/ StreamBreaks \/ StopMonitor
  PROVE  InvocationInv'
<1>1. CASE WorkerReplies
  BY <1>1 DEF WorkerReplies, InvocationInv, CallsTyped, SessionInv, LeftInv, Unaborted
<1>2. CASE WorkerStep /\ ~WorkerReplies
  <2>1. UNCHANGED invocation
    BY <1>2 DEF WorkerStep, WorkerChecks, WorkerCreates, WorkerRechecks, WorkerConnects,
      WorkerPublishes, WorkerStreams, WorkerReads, StreamEnds, EndReading, WorkerCleans
  <2> QED
    BY <2>1, InvocationStays
<1>3. CASE StopperStep \/ StartMonitor \/ StreamBreaks \/ StopMonitor
  <2>1. UNCHANGED invocation
    BY <1>3 DEF StopperStep, SeePublished, CloseResponse, CloseClient, Join, StartMonitor,
      StreamBreaks, EndReading, StopMonitor
  <2> QED
    BY <2>1, InvocationStays
<1> QED
  BY <1>1, <1>2, <1>3

(* The worker publishes before it looks again, and stop() sets its event   *)
(* before it looks: one of them sees the other.                            *)
LEMMA MonitorStep ==
  ASSUME MonitorInv, WorkerStep \/ StopperStep \/ StartMonitor \/ StreamBreaks \/ StopMonitor
  PROVE  MonitorInv'
<1> USE DEF MonitorInv, MonitorTyped, ReaderInv, Worker, Stopper
<1>1. CASE WorkerStep
  <2>1. CASE WorkerChecks \/ WorkerCreates \/ WorkerRechecks \/ WorkerConnects
    BY <2>1 DEF WorkerChecks, WorkerCreates, WorkerRechecks, WorkerConnects
  <2>2. CASE WorkerPublishes
    BY <2>2 DEF WorkerPublishes
  <2>3. CASE WorkerStreams
    BY <2>3 DEF WorkerStreams, Stopping
  <2>4. CASE WorkerReads \/ StreamEnds
    BY <2>4 DEF WorkerReads, StreamEnds, EndReading
  <2>5. CASE WorkerReplies
    BY <2>5 DEF WorkerReplies
  <2>6. CASE WorkerCleans
    BY <2>6 DEF WorkerCleans
  <2> QED
    BY <1>1, <2>1, <2>2, <2>3, <2>4, <2>5, <2>6 DEF WorkerStep
<1>2. CASE SeePublished
  BY <1>2 DEF SeePublished
<1>3. CASE CloseResponse
  BY <1>3 DEF CloseResponse
<1>4. CASE CloseClient \/ Join
  BY <1>4 DEF CloseClient, Join
<1>5. CASE StartMonitor \/ StreamBreaks \/ StopMonitor
  BY <1>5 DEF StartMonitor, StreamBreaks, EndReading, StopMonitor
<1> QED
  BY <1>1, <1>2, <1>3, <1>4, <1>5 DEF StopperStep

LEMMA CallsStepInv == CallsInv /\ [CallsNext]_allvars => CallsInv'
<1> SUFFICES ASSUME CallsInv, [CallsNext]_allvars PROVE CallsInv'
  OBVIOUS
<1> USE DEF CallsInv
<1>1. CASE UNCHANGED allvars
  BY <1>1, InvocationStays, MonitorStays DEF allvars
<1>2. CASE ServerStep
  BY <1>2, ServerStepInv, MonitorStays DEF ServerStep
<1>3. CASE CallStep
  <2>1. UNCHANGED monitor
    BY <1>3 DEF CallStep, SessionCreated, CreateFails, CallAnswered, CallTimesOut, AbortSession,
      Returns
  <2> QED
    BY <1>3, <2>1, CallStepInv, MonitorStays
<1>4. CASE BeginCall \/ CallBreaks \/ AbortActive \/ PromptArrives \/ PromptDropped
            \/ SessionWorks \/ LeftSessionEnds
  <2>1. MonitorInv'
    BY <1>4 DEF MonitorInv, MonitorTyped, ReaderInv, BeginCall, CallBreaks, Returns, AbortActive,
      PromptArrives, PromptDropped, SessionWorks, LeftSessionEnds
  <2> QED
    BY <1>4, <2>1, SessionStepInv
<1>5. CASE WorkerStep \/ StopperStep \/ StartMonitor \/ StreamBreaks \/ StopMonitor
  BY <1>5, ReplyInv, MonitorStep
<1> QED
  BY <1>1, <1>2, <1>3, <1>4, <1>5 DEF CallsNext

(* What invocations leave behind, and where stop() meets the worker, is as *)
(* the invariant says in every reachable state.                            *)
THEOREM CallsInvariance == CallsSpec => []CallsInv
  BY CallsInitInv, CallsStepInv, PTL DEF CallsSpec

(* A timeout alone never leaves a session at work.                         *)
THEOREM LeftSessionsExplained == CallsSpec => []AbandonedExplained
<1>1. CallsInv => AbandonedExplained
  BY DEF CallsInv, InvocationInv, LeftInv, Unaborted, AbandonedExplained
<1> QED
  BY <1>1, CallsInvariance, PTL

(* stop() closes the stream that its worker reads.                         *)
THEOREM ReaderReached == CallsSpec => []StopReachesReader
<1>1. CallsInv => StopReachesReader
  BY DEF CallsInv, MonitorInv, MonitorTyped, ReaderInv, StopReachesReader
<1> QED
  BY <1>1, CallsInvariance, PTL
=============================================================================
