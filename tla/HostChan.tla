------------------------------ MODULE HostChan ------------------------------
(***************************************************************************)
(* A host channel and its requests (host_chan.rs; HostRx and FanOut of     *)
(* chan.rs): host threads send requests through a bounded tokio channel,   *)
(* Lua receives them on the VM thread, and answers each at most once.      *)
(* A receive is a case of a select, of which a plain recv is one whose     *)
(* value is never put back.                                                *)
(*                                                                         *)
(* The host threads and the VM thread interleave between the shared steps: *)
(* a push and the wake-up behind it are separate, so are the two looks of  *)
(* a poll at the queue, and so are the room tokio gives a waiting send and *)
(* the poll that finds it.  On the VM thread one call runs at a time, but  *)
(* a conversion may run Lua code (a __gc), which may answer or close a     *)
(* request meanwhile.                                                      *)
(***************************************************************************)
EXTENDS Naturals, FiniteSets, Sequences, SequencesExt

CONSTANTS Senders,    \* the host's clones of the Sender
          Receivers,  \* the coroutines that receive
          Values,     \* what is sent
          Requests,   \* the values that are requests
          Cap,        \* the capacity of the tokio channel
          MaxNested,  \* bound: conversions nested in one another
          None

ASSUME CapAssumption == Cap \in Nat \ {0}
ASSUME RequestsAssumption == Requests \subseteq Values
ASSUME SendersAssumption == IsFiniteSet(Senders)
ASSUME NestedAssumption == MaxNested \in Nat
\* None stands for a missing value, poll, answer or outcome.
ASSUME NoneAssumption ==
  /\ None \notin Values /\ None \notin Receivers \X {"pop", "again"}
  /\ None \notin {"reply", "reject", "sent", "noreply", "closed"}

VARIABLES
  queue,       \* the tokio channel
  handles,     \* the Senders not dropped
  rxWaker,     \* tokio's AtomicWaker holds the FanOut waker
  fan,         \* FanOut::wakers
  pc, val,     \* each host thread: where it is in its call, and its request
  waiters,     \* the waiting sends in the queue of tokio's semaphore, in any order
  assigned,    \* the waiting sends that were given room and not polled since
  untold,      \* history: the receivers in a call when room came back to a closed channel,
               \* until their next look
  buf,         \* ChanCore::buf: values put back
  coreWakers,  \* ChanCore::recv_wakers
  closed,      \* closed by Lua
  collected,   \* the Lua side is gone, with the tokio Receiver
  waiting,     \* the receivers in a call
  step,        \* the poll of a receiver in progress, <<r, stage>>, or None
  woken,       \* the receivers the executor will poll
  reply,       \* [Values -> where it is; of a request taken: the state of its answer channel]
  slot,        \* [Requests -> the answer in the channel]
  converting,  \* the reply and reject calls that are converting, innermost last
  outcome,     \* [Values -> what its sender got]
  told,        \* [Requests -> Seq of what its reply and reject calls returned]
  sent, taken  \* the values pushed, and those taken, in order

roomVars == <<waiters, assigned, untold>>
hostVars == <<queue, handles, rxWaker, pc, val, roomVars>>
coreVars == <<buf, coreWakers, closed, collected>>
pollVars == <<waiting, step, woken>>
replyVars == <<reply, slot, converting, told>>
vars == <<hostVars, fan, coreVars, pollVars, replyVars, outcome, sent, taken>>

Answers == {"reply", "reject"}

Waiting == {s \in Senders : pc[s] = "waiting"}
Reserved == {s \in Senders : pc[s] = "reserved"}
\* The sends that have room.
Held == Reserved \cup assigned

TypeOK ==
  /\ queue \in Seq(Values) /\ buf \in Seq(Values) /\ handles \subseteq Senders
  /\ rxWaker \in BOOLEAN /\ closed \in BOOLEAN /\ collected \in BOOLEAN
  /\ fan \subseteq Receivers /\ coreWakers \subseteq Receivers /\ woken \subseteq waiting
  /\ pc \in [Senders -> {"idle", "waiting", "reserved", "pushed", "waking", "answer"}]
  /\ val \in [Senders -> Values \cup {None}]
  /\ waiters \subseteq Waiting \ assigned /\ assigned \subseteq Waiting /\ untold \subseteq Receivers
  /\ waiting \subseteq Receivers
  /\ step \in (waiting \X {"pop", "again"}) \cup {None}
  /\ reply \in [Values -> {"unsent", "queued", "open", "answered", "closed"}]
  /\ slot \in [Requests -> Answers \cup {None}]
  /\ outcome \in [Values -> Answers \cup {"sent", "noreply", "closed", None}]
  /\ converting \in Seq(Requests \X Answers) /\ Len(converting) <= MaxNested
  /\ told \in [Requests -> Seq(BOOLEAN)] /\ sent \in Seq(Values) /\ taken \in Seq(Values)
  /\ Len(queue) + Cardinality(Held) <= Cap

Init ==
  /\ queue = <<>> /\ handles = Senders /\ rxWaker = FALSE /\ fan = {}
  /\ pc = [s \in Senders |-> "idle"] /\ val = [s \in Senders |-> None]
  /\ waiters = {} /\ assigned = {} /\ untold = {}
  /\ buf = <<>> /\ coreWakers = {} /\ closed = FALSE /\ collected = FALSE
  /\ waiting = {} /\ step = None /\ woken = {}
  /\ reply = [v \in Values |-> "unsent"] /\ slot = [v \in Requests |-> None]
  /\ converting = <<>> /\ outcome = [v \in Values |-> None]
  /\ told = [v \in Requests |-> <<>>] /\ sent = <<>> /\ taken = <<>>

(***************************************************************************)
(* The host.                                                               *)
(***************************************************************************)
Goto(s, where) == pc' = [pc EXCEPT ![s] = where]
HostStep(s) == UNCHANGED <<coreVars, waiting, step, slot, converting, told, taken>>

\* Sender::send, or request.
Send(s, v) ==
  /\ pc[s] = "idle" /\ s \in handles /\ reply[v] = "unsent" /\ \A q \in Senders : val[q] # v
  /\ Goto(s, "waiting") /\ val' = [val EXCEPT ![s] = v]
  /\ UNCHANGED <<queue, handles, rxWaker, roomVars, fan, woken, reply, outcome, sent>> /\ HostStep(s)

\* tokio gives room that came free to a send in its queue, else the next to poll finds it.
GiveRoom(left, held) ==
  IF left = {} THEN waiters' = left /\ assigned' = held
  ELSE \E s \in left : waiters' = left \ {s} /\ assigned' = held \cup {s}

\* The send gives back what it has: room, without waking the receiver, or its place.
DropReserve(s) ==
  IF s \in assigned
  THEN GiveRoom(waiters, assigned \ {s}) /\ untold' = IF closed THEN waiting ELSE untold
  ELSE waiters' = waiters \ {s} /\ UNCHANGED <<assigned, untold>>

\* mutant: one room too many
RoomOver == Len(queue) + Cardinality(Held) <= Cap
Room == Len(queue) + Cardinality(Held) < Cap

\* A poll of the send: room, a place in the queue, or the error once the channel is closed,
\* also for a send that was given room before.
Reserve(s) ==
  /\ pc[s] = "waiting"
  /\ \/ /\ ~closed /\ (s \in assigned \/ (s \notin waiters /\ Room))
        /\ Goto(s, "reserved") /\ assigned' = assigned \ {s}
        /\ UNCHANGED <<val, outcome, waiters, untold>>
     \/ /\ ~closed /\ s \notin assigned \cup waiters /\ ~Room
        /\ waiters' = waiters \cup {s} /\ UNCHANGED <<pc, val, outcome, assigned, untold>>
     \/ /\ closed /\ DropReserve(s) /\ Goto(s, "idle") /\ val' = [val EXCEPT ![s] = None]
        /\ outcome' = [outcome EXCEPT ![val[s]] = "closed"]
  /\ UNCHANGED <<queue, handles, rxWaker, fan, woken, reply, sent>> /\ HostStep(s)

Push(s) ==
  /\ pc[s] = "reserved" /\ Goto(s, "pushed")
  /\ queue' = Append(queue, val[s]) /\ sent' = Append(sent, val[s])
  /\ reply' = [reply EXCEPT ![val[s]] = "queued"]
  /\ UNCHANGED <<val, handles, rxWaker, roomVars, fan, woken, outcome>> /\ HostStep(s)

\* A send is over, a request waits for its answer.
Sent(s) ==
  IF val[s] \in Requests THEN Goto(s, "answer") /\ UNCHANGED <<val, outcome>>
  ELSE /\ Goto(s, "idle") /\ val' = [val EXCEPT ![s] = None]
       /\ outcome' = [v \in Values |-> IF v = val[s] THEN "sent" ELSE outcome[v]]

\* AtomicWaker::wake takes the waker; the thread that finds none has nobody to wake.
WakeRx(s) ==
  /\ pc[s] = "pushed" /\ rxWaker' = FALSE
  /\ IF rxWaker THEN Goto(s, "waking") /\ UNCHANGED <<val, outcome>> ELSE Sent(s)
  /\ UNCHANGED <<queue, handles, roomVars, fan, woken, reply, sent>> /\ HostStep(s)

\* wake_by_ref: every task registered since the last wake-up.
WokenByFan == fan

FanWake(s) ==
  /\ pc[s] = "waking" /\ Sent(s)
  /\ woken' = woken \cup (WokenByFan \cap waiting) /\ fan' = {}
  /\ UNCHANGED <<queue, handles, rxWaker, roomVars, reply, sent>> /\ HostStep(s)

\* The requester stops waiting: a timeout drops the future.  It sent nothing, or a later
\* answer finds nobody.
Abandon(s) ==
  /\ pc[s] \in {"waiting", "answer"} /\ DropReserve(s)
  /\ Goto(s, "idle") /\ val' = [val EXCEPT ![s] = None]
  /\ UNCHANGED <<queue, handles, rxWaker, fan, woken, reply, outcome, sent>> /\ HostStep(s)

\* The last Sender closes the channel, and wakes the receiver.
DropSender(s) ==
  /\ pc[s] = "idle" /\ s \in handles /\ handles' = handles \ {s}
  /\ Goto(s, IF handles = {s} THEN "pushed" ELSE "idle")
  /\ UNCHANGED <<queue, val, rxWaker, roomVars, fan, woken, reply, outcome, sent>> /\ HostStep(s)

\* The answer arrives, or the answer channel was dropped.
GetAnswer(s) ==
  LET v == val[s] IN
  /\ pc[s] = "answer" /\ reply[v] \in {"answered", "closed"}
  /\ outcome' = [outcome EXCEPT ![v] = IF slot[v] # None THEN slot[v] ELSE "noreply"]
  /\ Goto(s, "idle") /\ val' = [val EXCEPT ![s] = None]
  /\ UNCHANGED <<queue, handles, rxWaker, roomVars, fan, woken, reply, sent>> /\ HostStep(s)

(***************************************************************************)
(* Receives.                                                               *)
(***************************************************************************)
\* The VM thread is between two calls.
VmIdle == step = None /\ converting = <<>>
LuaStep == UNCHANGED <<handles, pc, val, closed, collected, slot, converting, outcome, told, sent>>

EndCall(r) == waiting' = waiting \ {r} /\ step' = None

\* unrecv wakes the receivers registered with the core.
WakeForFront == coreWakers

\* Receiver r gets v, or puts it back: the handler of its select was not entered after all.
Deliver(r, v, front) ==
  /\ EndCall(r)
  /\ \/ /\ taken' = Append(taken, v) /\ buf' = front
        /\ woken' = woken \ {r} /\ UNCHANGED coreWakers
     \/ /\ buf' = <<v>> \o front /\ UNCHANGED taken
        /\ woken' = (woken \cup (WakeForFront \cap waiting)) \ {r} /\ coreWakers' = {}

\* mutant: each poll replaces the waker of the one before, as tokio does
RegisteredLast(r) == {r}
\* FanOut::register
Registered(r) == fan \cup {r}

\* mutant: the source is looked at first
BufferLast == buf # <<>> /\ queue = <<>>
BufferFirst == buf # <<>>

\* A poll starts: the front buffer, else the task is registered before tokio is polled.
BeginPoll(r) ==
  \/ /\ BufferFirst /\ Deliver(r, Head(buf), Tail(buf))
     /\ UNCHANGED <<fan, queue, rxWaker, roomVars, reply>>
  \/ /\ ~BufferFirst /\ waiting' = waiting \cup {r} /\ step' = <<r, "pop">>
     /\ coreWakers' = coreWakers \cup {r} /\ fan' = Registered(r)
     /\ woken' = woken \ {r}
     /\ UNCHANGED <<queue, rxWaker, roomVars, buf, reply, taken>>

Receive(r) ==
  /\ VmIdle /\ ~collected /\ r \notin waiting /\ BeginPoll(r) /\ LuaStep

Poll(r) == VmIdle /\ r \in woken /\ BeginPoll(r) /\ LuaStep

\* A value taken from the queue that fails to convert is dropped, with its answer channel,
\* and the receiver raises.
TakeFromQueue(r) ==
  LET v == Head(queue) IN
  /\ queue' = Tail(queue) /\ GiveRoom(waiters, assigned) /\ UNCHANGED untold
  /\ \/ Deliver(r, v, buf) /\ reply' = [reply EXCEPT ![v] = "open"]
     \/ /\ EndCall(r) /\ taken' = Append(taken, v) /\ woken' = woken \ {r}
        /\ reply' = [reply EXCEPT ![v] = "closed"] /\ UNCHANGED <<buf, coreWakers>>

\* nil, false: the channel is closed and drained.
ReturnClosed(r) ==
  /\ EndCall(r) /\ woken' = woken \ {r}
  /\ UNCHANGED <<queue, roomVars, buf, coreWakers, reply, taken>>

\* Receiver::poll_recv: a look at the queue, the registration of the waker, another look.
Pop(r) ==
  /\ step = <<r, "pop">>
  /\ \/ queue # <<>> /\ TakeFromQueue(r) /\ UNCHANGED rxWaker
     \/ queue = <<>> /\ handles = {} /\ ReturnClosed(r) /\ UNCHANGED rxWaker
     \/ /\ queue = <<>> /\ handles # {} /\ rxWaker' = TRUE /\ step' = <<r, "again">>
        /\ UNCHANGED <<waiting, woken, queue, roomVars, buf, coreWakers, reply, taken>>
  /\ UNCHANGED fan /\ LuaStep

\* tokio tells of the close by Lua when nothing is queued and no send has room.
Drained == closed /\ Held = {}

PopAgain(r) ==
  /\ step = <<r, "again">>
  /\ \/ queue # <<>> /\ TakeFromQueue(r)
     \/ queue = <<>> /\ (handles = {} \/ Drained) /\ ReturnClosed(r)
     \/ /\ queue = <<>> /\ handles # {} /\ ~Drained /\ step' = None /\ untold' = untold \ {r}
        /\ UNCHANGED <<waiting, woken, queue, waiters, assigned, buf, coreWakers, reply, taken>>
  /\ UNCHANGED <<fan, rxWaker>> /\ LuaStep

\* The receiver is cancelled or dropped, or its select takes another case: its wakers stay.
LeaveCall(r) ==
  /\ VmIdle /\ r \in waiting
  /\ EndCall(r) /\ woken' = woken \ {r}
  /\ UNCHANGED <<queue, rxWaker, roomVars, fan, buf, coreWakers, reply, taken>> /\ LuaStep

TryReceive ==
  /\ VmIdle /\ ~collected
  /\ \/ /\ buf # <<>> /\ buf' = Tail(buf) /\ taken' = Append(taken, Head(buf))
        /\ UNCHANGED <<queue, reply, roomVars>>
     \/ /\ buf = <<>> /\ queue # <<>> /\ queue' = Tail(queue) /\ taken' = Append(taken, Head(queue))
        /\ \E state \in {"open", "closed"} : reply' = [reply EXCEPT ![Head(queue)] = state]
        /\ GiveRoom(waiters, assigned) /\ UNCHANGED <<buf, untold>>
  /\ UNCHANGED <<rxWaker, fan, coreWakers, pollVars>> /\ LuaStep

CloseWakes == coreWakers' = {} /\ woken' = woken \cup (coreWakers \cap waiting)

\* The close empties the semaphore's queue; a send that was given room keeps it till its poll.
CloseChannel ==
  /\ VmIdle /\ ~closed /\ closed' = TRUE /\ CloseWakes /\ waiters' = {}
  /\ UNCHANGED <<queue, handles, rxWaker, pc, val, assigned, untold, fan, buf, collected>>
  /\ UNCHANGED <<waiting, step, replyVars, outcome, sent, taken>>

\* The Lua side is collected, with what is queued or was put back.
Collect ==
  /\ VmIdle /\ ~collected /\ waiting = {}
  /\ collected' = TRUE /\ closed' = TRUE /\ queue' = <<>> /\ buf' = <<>> /\ waiters' = {}
  /\ reply' = [v \in Values |-> IF v \in Range(queue \o buf) THEN "closed" ELSE reply[v]]
  /\ taken' = taken \o buf \o queue
  /\ UNCHANGED <<handles, rxWaker, pc, val, assigned, untold, fan, coreWakers, pollVars>>
  /\ UNCHANGED <<slot, converting, outcome, told, sent>>

(***************************************************************************)
(* Answers.                                                                *)
(***************************************************************************)
Received(v) == v \in Requests /\ v \in Range(taken)
RequestStep == UNCHANGED <<hostVars, fan, coreVars, pollVars, outcome, sent, taken>>

\* req:reply or req:reject: an answered or closed request raises at once; the conversion runs
\* without a borrow of the state.
BeginAnswer(v, a) ==
  /\ step = None /\ Received(v) /\ reply[v] = "open" /\ Len(converting) < MaxNested
  /\ converting' = Append(converting, <<v, a>>)
  /\ UNCHANGED <<reply, slot, told>> /\ RequestStep

Awaited(v) == \E s \in Senders : val[s] = v /\ pc[s] # "idle"

\* mutant: the state is not looked at again after the conversion
AnswerableStill(v) == TRUE
Answerable(v) == reply[v] = "open"

\* The conversion fails, and the request stays as it is; or the answer is sent, unless the
\* request was answered or closed meanwhile.
EndAnswer ==
  /\ converting # <<>> /\ converting' = Front(converting)
  /\ LET v == Last(converting)[1]
         a == Last(converting)[2] IN
       \/ UNCHANGED <<reply, slot, told>>
       \/ /\ Answerable(v) /\ reply' = [reply EXCEPT ![v] = "answered"]
          /\ told' = [told EXCEPT ![v] = Append(@, Awaited(v))]
          /\ slot' = [slot EXCEPT ![v] = IF Awaited(v) THEN a ELSE @]
  /\ RequestStep

\* __close, or the collection of the request: an open answer channel is dropped.
DropRequest(v) ==
  /\ step = None /\ Received(v) /\ reply[v] = "open" /\ reply' = [reply EXCEPT ![v] = "closed"]
  /\ UNCHANGED <<slot, converting, told>> /\ RequestStep

Next ==
  \/ \E s \in Senders : \/ \E v \in Values : Send(s, v)
                        \/ Reserve(s) \/ Push(s) \/ WakeRx(s) \/ FanWake(s)
                        \/ Abandon(s) \/ DropSender(s) \/ GetAnswer(s)
  \/ \E r \in Receivers : Receive(r) \/ Poll(r) \/ Pop(r) \/ PopAgain(r) \/ LeaveCall(r)
  \/ \E v \in Requests : DropRequest(v) \/ \E a \in Answers : BeginAnswer(v, a)
  \/ TryReceive \/ CloseChannel \/ Collect \/ EndAnswer

Spec == Init /\ [][Next]_vars

(***************************************************************************)
(* Properties.                                                             *)
(***************************************************************************)
\* A host thread is on its way to wake r.
OnItsWay(r) ==
  \E s \in Senders : r \in fan /\ (pc[s] = "waking" \/ (pc[s] = "pushed" /\ rxWaker))

\* What r must not sleep beside: a value, the end with the last Sender, or the end by Lua's
\* close; the latter not if a send has given back its room since r's last look.
ToTell(r) == queue # <<>> \/ handles = {} \/ (Drained /\ r \notin untold)

\* No receiver sleeps beside a value, a value put back or the end of the channel, whoever took
\* the wake-up, but for an end that room given back after Lua's close brings (chan.rs FanOut,
\* HostRx::poll_take, unrecv, close).
NoReceiverAsleep ==
  step = None => \A r \in waiting \ woken : buf = <<>> /\ (ToTell(r) => OnItsWay(r))

\* Requests are taken in the order in which their sends completed, each once, also those put
\* back to the front (chan.rs poll_recv, unrecv).
InOrder == taken \o buf \o queue = sent

\* A request is answered at most once, and both sides agree: a requester gets an answer only
\* if that call returned true, one whose call returned true does not get NoReply, and Lua was
\* told false only when nobody waited any more (host_chan.rs answer).
BothSidesAgree ==
  /\ \A v \in Requests : /\ Len(told[v]) <= 1
                         /\ outcome[v] \in Answers => told[v] = <<TRUE>> /\ outcome[v] = slot[v]
                         /\ outcome[v] = "noreply" => told[v] = <<>>
                         /\ told[v] = <<FALSE>> => outcome[v] = None
  /\ \A v \in Values : outcome[v] = "closed" => v \notin Range(sent)
=============================================================================
