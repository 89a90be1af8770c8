------------------------------ MODULE AsyncIsle ------------------------------
(***************************************************************************)
(* The request lifecycle of async_isle.rs: a VM's thread started by spawn, *)
(* fed through one bounded tokio channel by any number of handles, and     *)
(* ended by AsyncIsleDriver::shutdown or by the last sender's drop.        *)
(*                                                                         *)
(* The channel is the log of what it accepted and how much of it the       *)
(* receive loop has taken.  A sync request occupies the thread until it    *)
(* returns; a coroutine request becomes a task of the thread's LocalSet,   *)
(* which is polled, may await something once and is polled again.  Handles *)
(* and tasks live on the host's threads and interleave with it freely.     *)
(***************************************************************************)
EXTENDS Naturals, FiniteSets, Sequences, SequencesExt

CONSTANTS
  Requests,    \* the requests submitted
  Coroutines,  \* those submitted by coroutine_eval, _call or _call_fn
  Endless,     \* those whose Lua code loops until cancelled, or panics
  Capacity,    \* AsyncIsleBuilder::channel_capacity
  MaxHandles,  \* bound on the clones of the AsyncIsle alive at a time
  Shutdown,    \* Request::Shutdown
  None         \* no request

ASSUME KindsAssumption == Coroutines \subseteq Requests /\ Endless \subseteq Requests
ASSUME BoundsAssumption == Capacity \in Nat \ {0} /\ MaxHandles \in Nat \ {0}
ASSUME MessagesAssumption == Shutdown \notin Requests /\ None \notin Requests

VARIABLES
  sent,     \* what the channel accepted, oldest first
  taken,    \* how much of it the receiver has taken or dropped
  loop,     \* the receive loop of run_async_loop
  busy,     \* the request whose code occupies the thread
  stage,    \* request -> how far the Lua thread is with it
  answer,   \* request -> what became of its oneshot sender
  task,     \* request -> what its caller did with the AsyncTask
  token,    \* the requests whose CancelToken is cancelled
  handles,  \* AsyncIsle clones alive
  driver,   \* spawn's caller, then the AsyncIsleDriver
  thread    \* the Lua thread

channelVars == <<sent, taken>>
threadVars  == <<loop, busy, stage, thread>>
taskVars    == <<task, token>>
vars == <<channelVars, threadVars, answer, taskVars, handles, driver>>

Loops   == {"recv", "running", "leaving", "ended"}
Stages  == {"new", "running", "ready", "parked", "woken", "over"}
Tasks   == {"none", "pending", "resolved", "detached", "dropped"}
Threads == {"starting", "serving", "done", "exited", "failed", "unwinding", "panicked"}
Drivers == {"spawning", "reaping", "failed", "held", "gone",
            "waiting", "signalled", "joining", "joined", "abandoned"}

(* What the oneshot carries.  "panicked" and "dropped" are a sender that    *)
(* went away unused, by its own request's panic or with the channel: the   *)
(* caller sees RecvFailed for both.                                        *)
Refusals == {"Shutdown", "ChannelFull", "WrongIsle"}
Answers  == {"none", "ok", "err", "Cancelled", "panicked", "dropped"} \cup Refusals

TypeOK ==
  /\ sent \in Seq(Requests \cup {Shutdown})
  /\ taken \in 0 .. Len(sent)
  /\ loop \in Loops
  /\ busy \in Requests \cup {None}
  /\ stage \in [Requests -> Stages]
  /\ answer \in [Requests -> Answers]
  /\ task \in [Requests -> Tasks]
  /\ token \subseteq Requests
  /\ handles \in 0 .. MaxHandles
  /\ driver \in Drivers
  /\ thread \in Threads

Init ==
  /\ sent = <<>>
  /\ taken = 0
  /\ loop = "recv"
  /\ busy = None
  /\ stage = [r \in Requests |-> "new"]
  /\ answer = [r \in Requests |-> "none"]
  /\ task = [r \in Requests |-> "none"]
  /\ token = {}
  /\ handles = 0
  /\ driver = "spawning"
  /\ thread = "starting"

-----------------------------------------------------------------------------
(* The channel.                                                            *)

queue == SubSeq(sent, taken + 1, Len(sent))
Queued(r) == r \in ToSet(queue)

Closed == loop = "ended"

(* The driver's send().await holds a place in the semaphore's queue: a     *)
(* permit freed while it waits is its own, and try_send finds none.        *)
Reserved == IF driver = "waiting" THEN 1 ELSE 0
Room == Len(queue) + Reserved < Capacity

ShuttingDown == {"waiting", "signalled", "joining"}
NoSenders == handles = 0 /\ driver \notin ShuttingDown \cup {"spawning", "held"}

(* The tasks of the LocalSet other than the receive loop. *)
Spawned(r) == stage[r] \in {"ready", "parked", "woken"}

-----------------------------------------------------------------------------
(* spawn_inner: the thread reports its init through one oneshot and its    *)
(* end through another.                                                    *)

(* Runtime, VM and init closure succeed: init_tx.send(Ok). *)
InitSucceeds ==
  /\ thread = "starting"
  /\ thread' = "serving"
  /\ UNCHANGED <<channelVars, loop, busy, stage, answer, taskVars, handles, driver>>

(* The runtime cannot be built or init returns an error: both oneshots are *)
(* sent.                                                                   *)
InitFails ==
  /\ thread = "starting"
  /\ thread' = "failed"
  /\ UNCHANGED <<channelVars, loop, busy, stage, answer, taskVars, handles, driver>>

(* The init closure or the Lua factory panics: both oneshots are dropped   *)
(* while the thread unwinds.                                               *)
InitPanics ==
  /\ thread = "starting"
  /\ thread' = "unwinding"
  /\ UNCHANGED <<channelVars, loop, busy, stage, answer, taskVars, handles, driver>>

Unwinds ==
  /\ thread = "unwinding"
  /\ thread' = "panicked"
  /\ UNCHANGED <<channelVars, loop, busy, stage, answer, taskVars, handles, driver>>

InitResult ==
  CASE thread = "serving" -> "held"
    [] thread = "failed"  -> "failed"
    [] OTHER              -> "reaping"

(* init_rx.await resolves; only a success hands out a handle. *)
SpawnReturns ==
  /\ driver = "spawning"
  /\ thread # "starting"
  /\ driver' = InitResult
  /\ handles' = IF driver' = "held" THEN 1 ELSE 0
  /\ UNCHANGED <<channelVars, threadVars, answer, taskVars>>

(* After a panic spawn joins the thread for its payload. *)
SpawnReaps ==
  /\ driver = "reaping"
  /\ thread = "panicked"
  /\ driver' = "failed"
  /\ UNCHANGED <<channelVars, threadVars, answer, taskVars, handles>>

(* The spawn future is dropped while it waits. *)
SpawnDropped ==
  /\ driver \in {"spawning", "reaping"}
  /\ driver' = "gone"
  /\ UNCHANGED <<channelVars, threadVars, answer, taskVars, handles>>

-----------------------------------------------------------------------------
(* The handles: submit and the AsyncTask it returns.                       *)

Resolve(r, outcome) == answer' = [answer EXCEPT ![r] = outcome]
Accept(m) == sent' = Append(sent, m)

(* Altered Submit: a request refused for want of room is queued as well. *)

(* submit: try_send, whose error resolves the task at once. *)
Submit(r) ==
  /\ handles > 0
  /\ task[r] = "none"
  /\ task' = [task EXCEPT ![r] = "pending"]
  /\ \/ ~Closed /\ Room /\ Accept(r) /\ UNCHANGED answer
     \/ ~Closed /\ ~Room /\ Resolve(r, "ChannelFull") /\ UNCHANGED sent
     \/ Closed /\ Resolve(r, "Shutdown") /\ UNCHANGED sent
  /\ UNCHANGED <<taken, threadVars, token, handles, driver>>

(* refuse_foreign: the request names another isle's function. *)
SubmitForeign(r) ==
  /\ handles > 0
  /\ task[r] = "none"
  /\ task' = [task EXCEPT ![r] = "pending"]
  /\ Resolve(r, "WrongIsle")
  /\ UNCHANGED <<channelVars, threadVars, token, handles, driver>>

(* The caller's poll of the task is ready: whatever it reads, it releases. *)
PollTask(r) ==
  /\ task[r] = "pending"
  /\ answer[r] # "none"
  /\ task' = [task EXCEPT ![r] = "resolved"]
  /\ UNCHANGED <<channelVars, threadVars, answer, token, handles, driver>>

Detach(r) ==
  /\ task[r] = "pending"
  /\ task' = [task EXCEPT ![r] = "detached"]
  /\ UNCHANGED <<channelVars, threadVars, answer, token, handles, driver>>

(* AsyncTask::cancel, or a clone of its token, which outlives a detach. *)
Cancel(r) ==
  /\ task[r] \in {"pending", "detached"}
  /\ token' = token \cup {r}
  /\ UNCHANGED <<channelVars, threadVars, answer, task, handles, driver>>

(* Drop of an unreleased task cancels. *)
LeftRunning(r) == token      \* mutant: the drop leaves the request running
OnDrop(r) == token \cup {r}

DropTask(r) ==
  /\ task[r] = "pending"
  /\ task' = [task EXCEPT ![r] = "dropped"]
  /\ token' = OnDrop(r)
  /\ UNCHANGED <<channelVars, threadVars, answer, handles, driver>>

CloneHandle ==
  /\ handles \in 1 .. MaxHandles - 1
  /\ handles' = handles + 1
  /\ UNCHANGED <<channelVars, threadVars, answer, taskVars, driver>>

DropHandle ==
  /\ handles > 0
  /\ handles' = handles - 1
  /\ UNCHANGED <<channelVars, threadVars, answer, taskVars, driver>>

-----------------------------------------------------------------------------
(* AsyncIsleDriver.  It has no Drop: its sender goes and nothing is sent.  *)

(* Altered DropDriver: a Drop that sends Shutdown. *)
DropDriverSends ==
  /\ driver = "held"
  /\ driver' = "gone"
  /\ IF ~Closed /\ Room THEN Accept(Shutdown) ELSE UNCHANGED sent
  /\ UNCHANGED <<taken, threadVars, answer, taskVars, handles>>

DropDriver ==
  /\ driver = "held"
  /\ driver' = "gone"
  /\ UNCHANGED <<channelVars, threadVars, answer, taskVars, handles>>

(* shutdown: send(Shutdown).await goes through, fails or waits for room. *)
CallShutdown ==
  /\ driver = "held"
  /\ \/ Closed /\ driver' = "signalled" /\ UNCHANGED sent
     \/ ~Closed /\ Room /\ Accept(Shutdown) /\ driver' = "signalled"
     \/ ~Closed /\ ~Room /\ driver' = "waiting" /\ UNCHANGED sent
  /\ UNCHANGED <<taken, threadVars, answer, taskVars, handles>>

(* Altered SendShutdown: the receiver's end does not wake the waiting send. *)

(* The waiting send gets a permit, or learns that the receiver is gone. *)
SendShutdown ==
  /\ driver = "waiting"
  /\ \/ Closed /\ UNCHANGED sent
     \/ ~Closed /\ Len(queue) < Capacity /\ Accept(Shutdown)
  /\ driver' = "signalled"
  /\ UNCHANGED <<taken, threadVars, answer, taskVars, handles>>

(* done_rx.await resolves. *)
AwaitDone ==
  /\ driver = "signalled"
  /\ thread \in {"done", "exited"}
  /\ driver' = "joining"
  /\ UNCHANGED <<channelVars, threadVars, answer, taskVars, handles>>

(* JoinHandle::join, which blocks while the thread is not quite over. *)
JoinThread ==
  /\ driver = "joining"
  /\ thread = "exited"
  /\ driver' = "joined"
  /\ UNCHANGED <<channelVars, threadVars, answer, taskVars, handles>>

(* The shutdown future is dropped at one of its awaits. *)
ShutdownDropped ==
  /\ driver \in {"waiting", "signalled"}
  /\ driver' = "abandoned"
  /\ UNCHANGED <<channelVars, threadVars, answer, taskVars, handles>>

-----------------------------------------------------------------------------
(* run_async_loop: the receive loop and the coroutines share the thread,   *)
(* one of them at a time.                                                  *)

Idle == thread = "serving" /\ busy = None
Reach(r, s) == stage' = [stage EXCEPT ![r] = s]

(* recv() returns a request.  A sync job runs inline; a coroutine job      *)
(* spawns its task and returns.                                            *)
Receive ==
  /\ Idle /\ loop = "recv"
  /\ queue # <<>> /\ Head(queue) # Shutdown
  /\ LET r == Head(queue) IN
       IF r \in Coroutines
       THEN Reach(r, "ready") /\ UNCHANGED <<loop, busy>>
       ELSE Reach(r, "running") /\ loop' = "running" /\ busy' = r
  /\ taken' = taken + 1
  /\ UNCHANGED <<sent, thread, answer, taskVars, handles, driver>>

(* recv() returns None. *)
NeverDisconnected == FALSE      \* mutant: a sender is kept on the thread
Disconnected == queue = <<>> /\ NoSenders

(* Altered StopReceiving: None is counted as a message. *)

(* recv() returns Shutdown, or None: no sender is left and nothing queued. *)
StopReceiving ==
  /\ Idle /\ loop = "recv"
  /\ \/ queue # <<>> /\ Head(queue) = Shutdown /\ taken' = taken + 1
     \/ Disconnected /\ UNCHANGED taken
  /\ loop' = "leaving"
  /\ UNCHANGED <<sent, busy, stage, thread, answer, taskVars, handles, driver>>

(* The receive task completes or unwinds: its receiver is dropped, which   *)
(* closes the channel and drops the requests still in it with their        *)
(* response senders.                                                       *)
DropReceiver ==
  /\ loop = "leaving"
  /\ loop' = "ended"
  /\ taken' = Len(sent)
  /\ answer' = [r \in Requests |-> IF Queued(r) THEN "dropped" ELSE answer[r]]
  /\ UNCHANGED <<sent, busy, stage, thread, taskVars, handles, driver>>

(* The LocalSet polls a coroutine. *)
PollCoroutine(r) ==
  /\ Idle /\ loop \in {"recv", "ended"}
  /\ stage[r] \in {"ready", "woken"}
  /\ busy' = r
  /\ UNCHANGED <<channelVars, loop, stage, thread, answer, taskVars, handles, driver>>

(* Its Lua code calls an async function that is not ready. *)
Await(r) ==
  /\ busy = r
  /\ stage[r] = "ready"
  /\ Reach(r, "parked")
  /\ busy' = None
  /\ UNCHANGED <<channelVars, loop, thread, answer, taskVars, handles, driver>>

(* What it awaits is ready, or its run sees the cancel. *)
Wake(r) ==
  /\ stage[r] = "parked"
  /\ r \in Endless => r \in token
  /\ Reach(r, "woken")
  /\ UNCHANGED <<channelVars, loop, busy, thread, answer, taskVars, handles, driver>>

(* What a request's code can come to.  Vm::run discards the values of a    *)
(* cancelled coroutine; a cancel makes any error of a sync call Cancelled. *)
(* An error of loading the chunk or of converting the values is not seen   *)
(* by either.                                                              *)
Outcomes(r) ==
  (IF r \in Endless THEN {} ELSE {"err"})
    \cup (IF r \in Endless \/ r \in Coroutines \cap token THEN {} ELSE {"ok"})
    \cup (IF r \in token THEN {"Cancelled"} ELSE {})

(* The job's code returns and its result is sent; a sync job gives the     *)
(* thread back to the receive loop.                                        *)
Finish(r) ==
  /\ busy = r
  /\ \E outcome \in Outcomes(r) : Resolve(r, outcome)
  /\ Reach(r, "over")
  /\ busy' = None
  /\ loop' = IF r \in Coroutines THEN loop ELSE "recv"
  /\ UNCHANGED <<channelVars, thread, taskVars, handles, driver>>

(* The task a panic unwinds: the coroutine's own, or the receive loop.     *)
LoopAfterPanic(r) == IF r \in Coroutines THEN loop ELSE "leaving"

(* The job's code panics: LocalSet catches it.  A coroutine was a task of  *)
(* its own; a sync job takes the receive loop with it.                     *)
Panic(r) ==
  /\ busy = r
  /\ Resolve(r, "panicked")
  /\ Reach(r, "over")
  /\ busy' = None
  /\ loop' = LoopAfterPanic(r)
  /\ UNCHANGED <<channelVars, thread, taskVars, handles, driver>>

(* block_on(local) returns once every task of the LocalSet has completed,  *)
(* and done_tx is sent.                                                    *)
LoopDone == loop = "ended"  \* mutant: only the receive loop is awaited
LocalSetDone == loop = "ended" /\ \A r \in Requests : ~Spawned(r)

SendDone ==
  /\ Idle
  /\ LocalSetDone
  /\ thread' = "done"
  /\ UNCHANGED <<channelVars, loop, busy, stage, answer, taskVars, handles, driver>>

Exit ==
  /\ thread = "done"
  /\ thread' = "exited"
  /\ UNCHANGED <<channelVars, loop, busy, stage, answer, taskVars, handles, driver>>

-----------------------------------------------------------------------------
Starting == InitSucceeds \/ InitFails \/ InitPanics \/ Unwinds
Spawning == SpawnReturns \/ SpawnReaps \/ SpawnDropped
Caller(r) == Submit(r) \/ SubmitForeign(r) \/ PollTask(r) \/ Detach(r) \/ Cancel(r) \/ DropTask(r)
Handles == CloneHandle \/ DropHandle
Driver == DropDriver \/ CallShutdown \/ SendShutdown \/ AwaitDone \/ JoinThread \/ ShutdownDropped
Receiver == Receive \/ StopReceiving \/ DropReceiver
Job(r) == PollCoroutine(r) \/ Await(r) \/ Wake(r) \/ Finish(r) \/ Panic(r)
Ending == SendDone \/ Exit

Next ==
  \/ Starting \/ Spawning \/ Handles \/ Driver \/ Receiver \/ Ending
  \/ \E r \in Requests : Caller(r) \/ Job(r)

Spec == Init /\ [][Next]_vars

(* The thread runs what it can run; a runtime polls the futures it holds,  *)
(* and what a request awaits is ready some time.                           *)
ThreadFairness ==
  /\ WF_vars(Starting)
  /\ WF_vars(Receiver)
  /\ WF_vars(Ending)
  /\ \A r \in Requests :
       /\ WF_vars(PollCoroutine(r))
       /\ WF_vars(Wake(r))
       /\ WF_vars(Await(r) \/ Finish(r))

CallFairness ==
  /\ WF_vars(SpawnReturns \/ SpawnReaps)
  /\ WF_vars(SendShutdown \/ AwaitDone \/ JoinThread)

(* Code that never ends by itself is cancelled by its caller, unless the   *)
(* caller dropped the task, which has to do as well.                       *)
CallersGiveUp == \A r \in Endless : WF_vars(Cancel(r))

FairSpec == Spec /\ ThreadFairness /\ CallFairness /\ CallersGiveUp

-----------------------------------------------------------------------------
(* Properties.                                                             *)

Accepted(r) == r \in ToSet(sent)
Working(r) == Spawned(r) \/ busy = r

(* Every accepted request is in exactly one place until its sender goes:   *)
(* in the channel, on the thread as the running sync job, or in the        *)
(* LocalSet as a coroutine; an answered or refused one is in none, so no   *)
(* oneshot is used twice and none is forgotten (submit, run_async_loop).   *)
OnePlaceEach ==
  \A r \in Requests :
    LET waits == Queued(r)
        works == Working(r)
    IN /\ waits => ~works
       /\ (waits \/ works) <=> (Accepted(r) /\ answer[r] = "none")

(* A request whose sender was dropped unused by the closing channel was    *)
(* accepted behind the Shutdown message, or a sync request's panic ended   *)
(* the receive loop: a graceful shutdown, or the end of the last handle,   *)
(* serves everything accepted before it.                                   *)
BehindShutdown(r) ==
  \E i, j \in DOMAIN sent : i < j /\ sent[i] = Shutdown /\ sent[j] = r
LoopPanicked == \E r \in Requests \ Coroutines : answer[r] = "panicked"

EarlierAreServed ==
  \A r \in Requests : answer[r] = "dropped" => BehindShutdown(r) \/ LoopPanicked

(* While a handle is alive the isle stops serving only because shutdown    *)
(* was called or a sync request panicked: dropping the driver, another     *)
(* handle or a task does not stop it ("No Drop impl").                     *)
HandlesAreServed ==
  loop \in {"leaving", "ended"} /\ handles > 0 =>
    driver \in {"signalled", "joining", "joined", "abandoned"} \/ LoopPanicked

(* When shutdown() returns, and already when the done signal is sent, every *)
(* accepted request has been answered or its sender dropped: coroutines    *)
(* still pending at Shutdown are drained, never abandoned.                 *)
ShutdownSettlesAll ==
  thread \in {"done", "exited"} \/ driver = "joined" =>
    \A r \in Requests : Accepted(r) => answer[r] # "none"

(* Every wait ends.  A submitted request's task resolves, with an answer or *)
(* RecvFailed, whatever the other callers, the driver and panics do,       *)
(* provided endless code is cancelled or dropped.  spawn and shutdown      *)
(* return: the waits for a place in a full channel, for the done signal    *)
(* and for the thread all end, the receive loop gone or not.               *)
WaitsEnd ==
  /\ \A r \in Requests : (task[r] # "none") ~> (answer[r] # "none")
  /\ (driver \in {"spawning", "reaping"} \cup ShuttingDown)
       ~> (driver \in {"failed", "held", "gone", "joined", "abandoned"})

(* Once every handle is dropped and the driver is dropped or shut down, the *)
(* Lua thread ends: the last sender's drop closes the channel.             *)
ThreadEnds == NoSenders ~> (thread \in {"exited", "failed", "panicked"})

(* The isle's state as Service sees it: its phase and a request's fate.    *)
StopTaken == \E i \in 1 .. taken : sent[i] = Shutdown
Phase ==
  CASE loop = "ended" -> IF driver = "joined" THEN "ended" ELSE "over"
    [] loop = "leaving" /\ (StopTaken \/ LoopPanicked) -> "stopping"
    [] OTHER -> "serving"
Told(out) ==
  CASE out = "none" -> "open"
    [] out \in Refusals -> "refused"
    [] out \in {"panicked", "dropped"} -> "lost"
    [] OTHER -> "served"
Fate(r) == IF task[r] = "none" THEN "new" ELSE Told(answer[r])

(* An async isle is a Service: requests are begun in the order they were   *)
(* accepted, a sync one while no other occupies the thread, none is lost   *)
(* but to a panic or behind the stop, and shutdown returns when no         *)
(* coroutine is left (run_async_loop, AsyncIsleDriver::shutdown).          *)
Promised == INSTANCE Service
              WITH Serial <- Requests \ Coroutines, Stop <- Shutdown, line <- queue,
                   running <- {r \in Requests : Working(r)},
                   fate <- [r \in Requests |-> Fate(r)], phase <- Phase
ImplementsService == Promised!Spec

=============================================================================
