-------------------------------- MODULE Isle --------------------------------
(***************************************************************************)
(* Isle, its VM thread and its Tasks (handle.rs, thread.rs, task.rs): the  *)
(* handle sends requests through an unbounded channel to one thread, which *)
(* runs them in turn; each request answers through a channel of its own.   *)
(* Shutdown is a message behind the requests.                              *)
(*                                                                         *)
(* A request of Loops runs until its token is cancelled, the others end by *)
(* themselves; one that runs host code may panic, which ends the thread.   *)
(***************************************************************************)
EXTENDS Naturals, Sequences, SequencesExt

CONSTANTS Requests,  \* the requests that may be submitted
          Loops,     \* those that end only when they are cancelled
          Shutdown,  \* the message Request::Shutdown
          None

ASSUME LoopsAssumption == Loops \subseteq Requests
ASSUME ShutdownAssumption == Shutdown \notin Requests
ASSUME NoneAssumption == None \notin Requests \cup {"ok", "error", "cancelled", "shutdown", "recvFailed"}

VARIABLES
  thread,     \* the VM thread
  report,     \* the init channel: what the thread reported
  handle,     \* the Isle, from spawn to shutdown or drop
  inbox,      \* the request channel
  current,    \* the request that runs
  task,       \* [Requests -> its Task]
  released,   \* Task::released
  cancelled,  \* the tokens
  asked,      \* those cancelled on purpose
  reply,      \* [Requests -> the answer in its channel]
  got         \* [Requests -> what the Task returned first]

threadVars == <<thread, report, inbox, current>>
taskVars == <<task, released, cancelled, asked, got>>
isleVars == <<threadVars, handle, taskVars, reply>>

Results == {"ok", "error", "cancelled", "shutdown"}

IsleTypeOK ==
  /\ thread \in {"init", "running", "closing", "unwinding", "done", "panicked"}
  /\ report \in {"ok", "error", None}
  /\ handle \in {"spawning", "failed", "owned", "joining", "joined", "threadPanic", "dropped"}
  /\ inbox \in Seq(Requests \cup {Shutdown}) /\ current \in Requests \cup {None}
  /\ task \in [Requests -> {"none", "held", "waiting", "gone", "dropped"}]
  /\ released \subseteq Requests /\ asked \subseteq cancelled /\ cancelled \subseteq Requests
  /\ reply \in [Requests -> Results \cup {None}]
  /\ got \in [Requests -> Results \cup {"recvFailed", None}]
  /\ current # None => thread = "running"
  /\ thread \in {"done", "panicked"} => inbox = <<>>

IsleInit ==
  /\ thread = "init" /\ report = None /\ handle = "spawning" /\ inbox = <<>> /\ current = None
  /\ task = [r \in Requests |-> "none"] /\ released = {} /\ cancelled = {} /\ asked = {}
  /\ reply = [r \in Requests |-> None] /\ got = [r \in Requests |-> None]

(***************************************************************************)
(* The VM thread.                                                          *)
(***************************************************************************)
\* The setup of the VM succeeds, fails, or panics.
InitVm ==
  /\ thread = "init"
  /\ \/ thread' = "running" /\ report' = "ok"
     \/ thread' = "done" /\ report' = "error"
     \/ thread' = "panicked" /\ UNCHANGED report
  /\ UNCHANGED <<handle, inbox, current, taskVars, reply>>

\* run_loop takes the next message.
Take ==
  /\ thread = "running" /\ current = None /\ inbox # <<>> /\ inbox' = Tail(inbox)
  /\ IF Head(inbox) = Shutdown THEN thread' = "closing" /\ UNCHANGED current
     ELSE current' = Head(inbox) /\ UNCHANGED thread
  /\ UNCHANGED <<report, handle, taskVars, reply>>

\* The request ends; an error of a cancelled one is Cancelled, unless host code returned it or
\* a conversion failed.
Finish ==
  /\ current # None /\ (current \in Loops => current \in cancelled)
  /\ \E out \in {"ok", "error"} \cup (IF current \in cancelled THEN {"cancelled"} ELSE {}) :
       reply' = [reply EXCEPT ![current] = out]
  /\ current' = None
  /\ UNCHANGED <<thread, report, inbox, handle, taskVars>>

\* Its answer channel is dropped, and the thread unwinds.
Panic ==
  /\ current # None /\ current' = None /\ thread' = "unwinding"
  /\ UNCHANGED <<report, inbox, handle, taskVars, reply>>

\* The request channel is dropped, and the requests in it with their answer channels.
EndThread ==
  /\ thread \in {"closing", "unwinding"} /\ inbox' = <<>>
  /\ thread' = IF thread = "closing" THEN "done" ELSE "panicked"
  /\ UNCHANGED <<report, current, handle, taskVars, reply>>

(***************************************************************************)
(* The handle.                                                             *)
(***************************************************************************)
\* spawn waits for the report; without one the thread panicked.
SpawnReturns ==
  /\ handle = "spawning"
  /\ \/ report = "ok" /\ handle' = "owned"
     \/ report = "error" /\ handle' = "failed"
     \/ report = None /\ thread = "panicked" /\ handle' = "failed"
  /\ UNCHANGED <<threadVars, taskVars, reply>>

ChannelOpen == thread \notin {"done", "panicked"}

\* mutant: the message goes ahead of the requests
PostAhead(message) == inbox' = <<message>> \o inbox
Post(message) == inbox' = IF ChannelOpen THEN Append(inbox, message) ELSE inbox

\* A request for which the channel is closed is answered at once.
Submit(r) ==
  /\ handle = "owned" /\ task[r] = "none" /\ task' = [task EXCEPT ![r] = "held"]
  /\ Post(r) /\ reply' = [reply EXCEPT ![r] = IF ChannelOpen THEN None ELSE "shutdown"]
  /\ UNCHANGED <<thread, report, handle, current, released, cancelled, asked, got>>

\* mutant: the message is not sent
PostNothing == inbox' = inbox
PostShutdown == Post(Shutdown)

ShutdownIsle ==
  /\ handle = "owned" /\ handle' = "joining" /\ PostShutdown
  /\ UNCHANGED <<thread, report, current, taskVars, reply>>

Join ==
  /\ handle = "joining"
  /\ \/ thread = "done" /\ handle' = "joined"
     \/ thread = "panicked" /\ handle' = "threadPanic"
  /\ UNCHANGED <<threadVars, taskVars, reply>>

DropIsle ==
  /\ handle = "owned" /\ handle' = "dropped" /\ PostShutdown
  /\ UNCHANGED <<thread, report, current, taskVars, reply>>

(***************************************************************************)
(* The Tasks.                                                              *)
(***************************************************************************)
TaskStep == UNCHANGED <<threadVars, handle>>

Cancel(r) ==
  /\ task[r] # "none" /\ r \notin asked
  /\ cancelled' = cancelled \cup {r} /\ asked' = asked \cup {r}
  /\ UNCHANGED <<task, released, got, reply>> /\ TaskStep

TriedReleases(r) == released \cup {r}

\* try_recv takes the result if there is one, and leaves the Task.
TryRecv(r) ==
  /\ task[r] = "held" /\ reply[r] # None
  /\ got' = [got EXCEPT ![r] = reply[r]] /\ reply' = [reply EXCEPT ![r] = None]
  /\ released' = TriedReleases(r)
  /\ UNCHANGED <<task, cancelled, asked>> /\ TaskStep

Wait(r) ==
  /\ task[r] = "held" /\ task' = [task EXCEPT ![r] = "waiting"]
  /\ UNCHANGED <<released, cancelled, asked, got, reply>> /\ TaskStep

SenderLives(r) == current = r \/ r \in Range(inbox)

\* wait returns the answer, or RecvFailed once its sender is gone, and releases the Task.
WaitReturns(r) ==
  /\ task[r] = "waiting" /\ (reply[r] # None \/ ~SenderLives(r))
  /\ got' = [got EXCEPT ![r] = IF @ # None THEN @ ELSE IF reply[r] # None THEN reply[r] ELSE "recvFailed"]
  /\ task' = [task EXCEPT ![r] = "gone"] /\ released' = released \cup {r}
  /\ reply' = [reply EXCEPT ![r] = None]
  /\ UNCHANGED <<cancelled, asked>> /\ TaskStep

Detach(r) ==
  /\ task[r] = "held" /\ task' = [task EXCEPT ![r] = "gone"] /\ released' = released \cup {r}
  /\ UNCHANGED <<cancelled, asked, got, reply>> /\ TaskStep

DropCancels(r) == IF r \in released THEN cancelled ELSE cancelled \cup {r}

DropTask(r) ==
  /\ task[r] = "held" /\ task' = [task EXCEPT ![r] = "dropped"] /\ cancelled' = DropCancels(r)
  /\ UNCHANGED <<released, asked, got, reply>> /\ TaskStep

IsleNext ==
  \/ InitVm \/ Take \/ Finish \/ Panic \/ EndThread
  \/ SpawnReturns \/ ShutdownIsle \/ Join \/ DropIsle
  \/ \E r \in Requests : Submit(r) \/ Cancel(r) \/ TryRecv(r) \/ Wait(r) \/ WaitReturns(r)
                         \/ Detach(r) \/ DropTask(r)

IsleSpec == IsleInit /\ [][IsleNext]_isleVars

\* The thread runs, a request ends when it can, and the calls that wait return when they can.
IsleFairSpec ==
  /\ IsleSpec /\ WF_isleVars(InitVm) /\ WF_isleVars(Take) /\ WF_isleVars(Finish) /\ WF_isleVars(EndThread)
  /\ WF_isleVars(SpawnReturns) /\ WF_isleVars(Join) /\ \A r \in Requests : WF_isleVars(WaitReturns(r))

(***************************************************************************)
(* Properties.                                                             *)
(***************************************************************************)
\* shutdown and drop run everything submitted before them: an answer is lost only when the
\* thread panicked (handle.rs shutdown, thread.rs run_loop).
LostOnlyByPanic ==
  \A r \in Requests :
    /\ got[r] = "recvFailed" => thread \in {"unwinding", "panicked"}
    /\ handle = "joined" /\ task[r] # "none" => reply[r] # None \/ got[r] # None

\* A Task dropped without its result cancelled its request, and nothing else did but a call of
\* cancel: one detached, or whose result was taken before, is left alone (task.rs Drop).
OnlyDropCancels ==
  \A r \in Requests \ asked : r \in cancelled <=> task[r] = "dropped" /\ got[r] = None

\* The requests that run before r ends.
UpTo(r) ==
  {current} \cup {inbox[i] : i \in {j \in DOMAIN inbox : \A k \in 1..(j - 1) : inbox[k] # r}}

\* A wait, a shutdown and a spawn return, once the endless requests ahead of them, and no
\* other, were cancelled.
CallsReturn ==
  /\ \A r \in Requests :
       (task[r] = "waiting" /\ UpTo(r) \cap Loops \subseteq cancelled) ~> (task[r] = "gone")
  /\ (handle = "joining" /\ UpTo(Shutdown) \cap Loops \subseteq cancelled) ~> (handle \in {"joined", "threadPanic"})
  /\ (handle = "spawning") ~> (handle \in {"owned", "failed"})
\* The isle's state as Service sees it: its phase, what was answered to r, and so r's fate.
Ended == IF handle \in {"joined", "threadPanic"} THEN "ended" ELSE "over"
Phase == CASE thread \in {"done", "panicked"} -> Ended
           [] thread \in {"closing", "unwinding"} -> "stopping"
           [] OTHER -> "serving"
Answer(r) == IF got[r] # None THEN got[r] ELSE reply[r]
Told(out) == CASE out = "shutdown" -> "refused"
               [] out \in {None, "recvFailed"} -> "lost"
               [] OTHER -> "served"
Fate(r) == IF task[r] = "none" THEN "new" ELSE IF SenderLives(r) THEN "open" ELSE Told(Answer(r))

\* The isle is a Service: requests are begun one by one in the order they were sent, none is lost
\* but to a panic or the stop, and shutdown returns when all is over (thread.rs run_loop, handle.rs
\* shutdown, task.rs).
Promised == INSTANCE Service
              WITH Serial <- Requests, Stop <- Shutdown, line <- inbox,
                   running <- {current} \ {None}, fate <- [r \in Requests |-> Fate(r)], phase <- Phase
ImplementsService == Promised!Spec
=============================================================================
