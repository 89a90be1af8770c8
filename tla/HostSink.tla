------------------------------ MODULE HostSink ------------------------------
(***************************************************************************)
(* A channel to the host (chan.rs HostTx and Sending::poll_sink,           *)
(* host_chan.rs Receiver): Lua's sends reserve room in a bounded tokio     *)
(* channel, convert the value and push it through the permit; the host     *)
(* receives on another thread.                                             *)
(*                                                                         *)
(* Each send is made once, by a send, a select case or a try_send.  The    *)
(* channel lives while a clone of its tokio Sender does: HostTx has one    *)
(* until Lua closes it, every reservation and every permit has one.  A     *)
(* conversion may run Lua code, which may try_send or close meanwhile.     *)
(***************************************************************************)
EXTENDS Naturals, FiniteSets, Sequences, SequencesExt

CONSTANTS Sends,  \* the sends, each of a value of its own
          Cap     \* the capacity of the tokio channel

ASSUME CapAssumption == Cap \in Nat \ {0}

VARIABLES
  queue,       \* the values in the tokio channel
  free,        \* the permits of its semaphore that nobody has
  waiters,     \* the semaphore's queue
  assigned,    \* the waiting sends that were given room
  freed,       \* the host took a value and has yet to give the room back
  hostClosed,  \* the host closed or dropped its Receiver
  hostGone,    \* it dropped it
  ended,       \* recv returned None
  closed,      \* closed by Lua
  collected,   \* the Lua side is gone
  state,       \* [Sends -> where the send is, then what it returned]
  sinkWaiters, \* ChanCore::sink_waiters
  woken,       \* the waiting sends whose task the executor will poll
  converting,  \* the sends with a permit that are converting, innermost last
  pushed,      \* the values sent, in order
  received     \* the values the host got, in order

tokioVars == <<queue, free, waiters, assigned>>
hostVars == <<freed, hostClosed, hostGone, ended, received>>
luaVars == <<closed, collected, state, sinkWaiters, converting, pushed>>
vars == <<tokioVars, hostVars, luaVars, woken>>

Waiting == {s \in Sends : state[s] = "waiting"}

TypeOK ==
  /\ queue \in Seq(Sends) /\ pushed \in Seq(Sends) /\ received \in Seq(Sends)
  /\ waiters \in Seq(Waiting) /\ converting \in Seq(Sends)
  /\ free \in 0..Cap /\ freed \in 0..1
  /\ assigned \subseteq Waiting /\ woken \subseteq Waiting /\ sinkWaiters = Waiting
  /\ \A b \in {hostClosed, hostGone, ended, closed, collected} : b \in BOOLEAN
  /\ state \in [Sends -> {"new", "waiting", "converting", "sent", "closed", "failed", "full", "left"}]

Init ==
  /\ queue = <<>> /\ free = Cap /\ waiters = <<>> /\ assigned = {}
  /\ freed = 0 /\ hostClosed = FALSE /\ hostGone = FALSE /\ ended = FALSE /\ received = <<>>
  /\ closed = FALSE /\ collected = FALSE /\ state = [s \in Sends |-> "new"]
  /\ sinkWaiters = {} /\ woken = {} /\ converting = <<>> /\ pushed = <<>>

Become(s, where) == state' = [state EXCEPT ![s] = where]

\* One room is given back: to the first waiter, which is woken, else to the semaphore.
\* The sends that are gone with it are woken no more.
GiveRoom(gone, queued) ==
  IF queued # <<>>
  THEN /\ assigned' = (assigned \cup {Head(queued)}) \ gone /\ waiters' = Tail(queued)
       /\ woken' = (woken \cup {Head(queued)}) \ gone /\ UNCHANGED free
  ELSE free' = free + 1 /\ assigned' = assigned \ gone /\ waiters' = queued /\ woken' = woken \ gone

(***************************************************************************)
(* Lua's side: one call at a time on the VM thread.                        *)
(***************************************************************************)
VmIdle == converting = <<>>

\* A permit in hand, the send converts its value.
Convert(s) ==
  /\ Become(s, "converting") /\ converting' = Append(converting, s)
  /\ sinkWaiters' = sinkWaiters \ {s} /\ woken' = woken \ {s} /\ assigned' = assigned \ {s}

\* The reservation is dropped: the room it was assigned, or its place in the queue.
DropReserve(s) ==
  \/ s \in assigned /\ GiveRoom({s}, waiters)
  \/ /\ s \notin assigned /\ woken' = woken \ {s} /\ UNCHANGED <<free, assigned>>
     /\ IF s \in Range(waiters) THEN \E i \in DOMAIN waiters : waiters[i] = s /\ waiters' = RemoveAt(waiters, i)
        ELSE UNCHANGED waiters

Withdraw(s) == DropReserve(s) /\ sinkWaiters' = sinkWaiters \ {s}

NoSender == closed \/ hostClosed
NewSend(s) ==
  /\ ~collected /\ state[s] = "new"
  /\ UNCHANGED <<queue, hostVars, closed, collected, pushed>>

\* The first poll of a send: at once if there is room, else it waits in tokio's queue.
Send(s) ==
  /\ VmIdle /\ NewSend(s)
  /\ \/ /\ NoSender /\ Become(s, "closed")
        /\ UNCHANGED <<free, waiters, assigned, sinkWaiters, woken, converting>>
     \/ /\ ~NoSender /\ free > 0 /\ free' = free - 1 /\ Convert(s) /\ UNCHANGED waiters
     \/ /\ ~NoSender /\ free = 0 /\ Become(s, "waiting") /\ waiters' = Append(waiters, s)
        /\ sinkWaiters' = sinkWaiters \cup {s}
        /\ UNCHANGED <<free, assigned, woken, converting>>

\* try_send, or the case of a select with a default, also from a conversion.
TrySend(s) ==
  /\ NewSend(s) /\ UNCHANGED waiters
  /\ \/ ~NoSender /\ free > 0 /\ free' = free - 1 /\ Convert(s)
     \/ /\ NoSender \/ free = 0
        /\ Become(s, IF NoSender THEN "closed" ELSE "full")
        /\ UNCHANGED <<free, assigned, sinkWaiters, woken, converting>>

\* The executor polls a waiting send again.
Poll(s) ==
  /\ VmIdle /\ s \in woken
  /\ \/ NoSender /\ Become(s, "closed") /\ Withdraw(s) /\ UNCHANGED converting
     \/ ~NoSender /\ s \in assigned /\ Convert(s) /\ UNCHANGED <<free, waiters>>
     \/ /\ ~NoSender /\ s \notin assigned /\ woken' = woken \ {s}
        /\ UNCHANGED <<free, waiters, assigned, state, sinkWaiters, converting>>
  /\ UNCHANGED <<queue, hostVars, closed, collected, pushed>>

\* It is cancelled or dropped, or its select takes another case.
Leave(s) ==
  /\ VmIdle /\ s \in Waiting /\ Become(s, "left") /\ Withdraw(s)
  /\ UNCHANGED <<queue, hostVars, closed, collected, converting, pushed>>

\* mutant: a failed conversion keeps the room
RoomKept == UNCHANGED <<free, waiters, assigned, woken>>
RoomBack == GiveRoom({}, waiters)

\* The conversion is over: the value is pushed, or it failed and the permit is dropped.
EndConvert ==
  /\ converting # <<>> /\ converting' = Front(converting)
  /\ LET s == Last(converting) IN
       \/ /\ Become(s, "sent") /\ pushed' = Append(pushed, s)
          /\ queue' = IF hostGone THEN queue ELSE Append(queue, s)
          /\ UNCHANGED <<free, waiters, assigned, woken>>
       \/ Become(s, "failed") /\ RoomBack /\ UNCHANGED <<queue, pushed>>
  /\ UNCHANGED <<hostVars, closed, collected, sinkWaiters>>

\* mutant: the close wakes no sink waiter
CloseWakesNone == {}
CloseWakes == sinkWaiters

\* ch:close(), also from a conversion.
Close ==
  /\ ~closed /\ ~collected /\ closed' = TRUE /\ woken' = woken \cup CloseWakes
  /\ UNCHANGED <<tokioVars, hostVars, collected, state, sinkWaiters, converting, pushed>>

\* The Lua side is collected, or the VM dropped: a send that waits holds the channel.
Collect ==
  /\ VmIdle /\ ~collected /\ Waiting = {} /\ collected' = TRUE
  /\ UNCHANGED <<tokioVars, hostVars, closed, state, sinkWaiters, woken, converting, pushed>>

(***************************************************************************)
(* The host's side.                                                        *)
(***************************************************************************)
HostStep == UNCHANGED luaVars

\* Receiver::recv or try_recv takes a value, and then gives its room back.
Recv ==
  /\ ~hostGone /\ freed = 0 /\ queue # <<>>
  /\ received' = Append(received, Head(queue)) /\ queue' = Tail(queue) /\ freed' = 1
  /\ UNCHANGED <<free, waiters, assigned, woken, hostClosed, hostGone, ended>> /\ HostStep

RecvGives ==
  /\ freed = 1 /\ freed' = 0 /\ GiveRoom({}, waiters)
  /\ UNCHANGED <<queue, hostClosed, hostGone, ended, received>> /\ HostStep

\* mutant: the permit does not hold a Sender
ClonesWaiting == Waiting
\* The sends that hold a clone of the tokio Sender.
Clones == Waiting \cup Range(converting)

NoClones == (closed \/ collected) /\ Clones = {}
Unused == queue = <<>> /\ freed = 0
\* recv returns None: no Sender is left, or the host closed and no room is in use.
RecvEnd ==
  /\ ~hostGone /\ Unused /\ (NoClones \/ (hostClosed /\ free = Cap)) /\ ~ended /\ ended' = TRUE
  /\ UNCHANGED <<tokioVars, woken, freed, hostClosed, hostGone, received>> /\ HostStep

\* Receiver::close closes the semaphore: every waiter is woken.
HostClose ==
  /\ ~hostClosed /\ hostClosed' = TRUE /\ woken' = woken \cup Range(waiters) /\ waiters' = <<>>
  /\ UNCHANGED <<queue, free, assigned, freed, hostGone, ended, received>> /\ HostStep

\* The Receiver is dropped, with what is queued.
HostDrop ==
  /\ ~hostGone /\ freed = 0 /\ hostGone' = TRUE /\ hostClosed' = TRUE
  /\ woken' = woken \cup Range(waiters) /\ waiters' = <<>>
  /\ queue' = <<>> /\ free' = free + Len(queue)
  /\ UNCHANGED <<assigned, freed, ended, received>> /\ HostStep

Next ==
  \/ \E s \in Sends : Send(s) \/ TrySend(s) \/ Poll(s) \/ Leave(s)
  \/ EndConvert \/ Close \/ Collect
  \/ Recv \/ RecvGives \/ RecvEnd \/ HostClose \/ HostDrop

Spec == Init /\ [][Next]_vars

\* The executor polls every woken send, and a conversion ends; the host may stop receiving.
FairSpec == Spec /\ WF_vars(EndConvert) /\ \A s \in Sends : WF_vars(Poll(s))

(***************************************************************************)
(* Properties.                                                             *)
(***************************************************************************)
\* Room is neither lost nor made: each permit is free, assigned, held by a conversion, or taken
\* by a value, whichever of a failed conversion, a cancelled send and the host gave it back
\* (chan.rs SinkPermit::send, Sending::withdraw).
RoomConserved ==
  ~hostGone => free + freed + Cardinality(assigned) + Len(converting) + Len(queue) = Cap

\* The host gets the values sent in the order in which they were sent, and None only behind
\* the last of them: no send returns true for a value that comes after it (chan.rs 367-369).
NothingBehindEnd ==
  /\ ~hostGone => received \o queue = pushed
  /\ ended => received = pushed /\ converting = <<>>

\* A send that waits returns once it has room, and raises once either side closed, whether or
\* not the host receives: so the last Sender is let go of (chan.rs HostSink::close).
WaitsEnd ==
  \A s \in Sends : (s \in Waiting /\ (s \in assigned \/ closed \/ hostClosed)) ~> (s \notin Waiting)
=============================================================================
