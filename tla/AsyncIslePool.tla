---------------------------- MODULE AsyncIslePool ----------------------------
(***************************************************************************)
(* The async pool of async_pool.rs: callers check VMs out of a bounded     *)
(* pool guarded by a mutex that is never held across an await, and wait    *)
(* for a free slot on one tokio Notify.                                    *)
(*                                                                         *)
(* Callers run on any number of runtime threads: a step is a critical      *)
(* section of the mutex or one operation on the Notify.  A caller's future *)
(* may be dropped at any of its await points.                              *)
(***************************************************************************)
EXTENDS Naturals, FiniteSets, Sequences, SequencesExt

CONSTANTS
  Callers,   \* tasks using the pool
  Isles,     \* names for the VM threads that exist at a time
  MaxSize,   \* PoolConfig::max_size
  None       \* no VM

ASSUME MaxSizeAssumption == MaxSize \in Nat \ {0}
ASSUME FiniteAssumption == IsFiniteSet(Callers) /\ IsFiniteSet(Isles)
ASSUME NoneAssumption == None \notin Isles

VARIABLES
  strategy,  \* PoolConfig::strategy
  idle,      \* PoolInner.idle (the order of the stack is abstracted)
  active,    \* PoolInner.active
  closed,    \* PoolInner.closed
  permit,    \* the Notify's stored permit
  queue,     \* the callers registered with the Notify, oldest first
  stale,     \* callers whose unpolled Notified predates the last notify_waiters
  signal,    \* caller -> what notified its registered Notified
  pc,        \* caller -> where it is in its call
  kind,      \* caller -> which checkout it called
  slot,      \* caller -> the VM it holds, is spawning or is shutting down
  drained,   \* caller -> slots its shutdown() has still to shut down
  vm         \* VM -> its thread

poolVars   == <<idle, active, closed>>
notifyVars == <<permit, queue, stale, signal>>
callVars   == <<pc, kind, slot, drained>>
vars == <<strategy, poolVars, notifyVars, callVars, vm>>

Strategies == {"Cold", "Warm"}
Kinds      == {"checkout", "try_checkout", "checkout_timeout"}
Pcs        == {"out", "acquire", "poll", "wait", "spawn", "dec_active", "holding",
               "closing", "notify_waiters", "drain", "join"}
Signals    == {"none", "one", "all"}

(* A VM's thread: there is none, it runs the init closure, it serves, its  *)
(* receive loop ended with a panic, it has been told to end.               *)
VmStates   == {"none", "init", "open", "dead", "ending"}

TypeOK ==
  /\ strategy \in Strategies
  /\ idle \subseteq Isles
  /\ active \in Nat
  /\ closed \in BOOLEAN
  /\ permit \in BOOLEAN
  /\ queue \in Seq(Callers)
  /\ stale \subseteq Callers
  /\ signal \in [Callers -> Signals]
  /\ pc \in [Callers -> Pcs]
  /\ kind \in [Callers -> Kinds]
  /\ slot \in [Callers -> Isles \cup {None}]
  /\ drained \in [Callers -> SUBSET Isles]
  /\ vm \in [Isles -> VmStates]

Init ==
  /\ strategy \in Strategies
  /\ idle = {}
  /\ active = 0
  /\ closed = FALSE
  /\ permit = FALSE
  /\ queue = <<>>
  /\ stale = {}
  /\ signal = [c \in Callers |-> "none"]
  /\ pc = [c \in Callers |-> "out"]
  /\ kind = [c \in Callers |-> "checkout"]
  /\ slot = [c \in Callers |-> None]
  /\ drained = [c \in Callers |-> {}]
  /\ vm = [i \in Isles |-> "none"]

At(p) == {c \in Callers : pc[c] = p}
Goto(c, p) == pc' = [pc EXCEPT ![c] = p]
IsAlive(i) == vm[i] = "open"

------------------------------------------------------------------------------
(* tokio::sync::Notify.  It stores at most one permit.                     *)

NotifyRegistered ==
  /\ queue # <<>>
  /\ signal' = [signal EXCEPT ![Head(queue)] = "one"]
  /\ queue' = Tail(queue)
  /\ UNCHANGED permit

(* mutant: no permit is stored when nobody is registered *)
NotifyNoPermit == NotifyRegistered \/ (queue = <<>> /\ UNCHANGED <<permit, queue, signal>>)

NotifyOne ==
  \/ /\ queue = <<>>
     /\ permit' = TRUE
     /\ UNCHANGED <<queue, signal>>
  \/ NotifyRegistered

NotifyWaiters ==
  /\ signal' = [c \in Callers |-> IF c \in ToSet(queue) THEN "all" ELSE signal[c]]
  /\ queue' = <<>>
  /\ stale' = stale \cup At("acquire") \cup At("poll")
  /\ UNCHANGED permit

(* The first poll of a Notified takes the permit, or is done if            *)
(* notify_waiters ran since the Notified was created, or registers.        *)
PollNotified(c) ==
  /\ pc[c] = "poll"
  /\ \/ /\ permit
        /\ permit' = FALSE
        /\ Goto(c, "acquire")
        /\ stale' = stale \ {c}
        /\ UNCHANGED queue
     \/ /\ ~permit /\ c \in stale
        /\ Goto(c, "acquire")
        /\ stale' = stale \ {c}
        /\ UNCHANGED <<permit, queue>>
     \/ /\ ~permit /\ c \notin stale
        /\ queue' = Append(queue, c)
        /\ Goto(c, "wait")
        /\ UNCHANGED <<permit, stale>>
  /\ UNCHANGED <<strategy, poolVars, signal, kind, slot, drained, vm>>

(* Notified resolves; the loop of checkout creates the next one.           *)
Wake(c) ==
  /\ pc[c] = "wait"
  /\ signal[c] # "none"
  /\ signal' = [signal EXCEPT ![c] = "none"]
  /\ Goto(c, "acquire")
  /\ UNCHANGED <<strategy, poolVars, permit, queue, stale, kind, slot, drained, vm>>

(* The timeout of checkout_timeout elapses, or the caller drops the future:*)
(* the Notified is dropped, and forwards a notify_one it had received.     *)
LeaveQueue(c) ==
  /\ pc[c] = "wait"
  /\ \/ /\ signal[c] = "one"
        /\ \/ /\ queue = <<>>
              /\ permit' = TRUE
              /\ signal' = [signal EXCEPT ![c] = "none"]
              /\ UNCHANGED queue
           \/ /\ queue # <<>>
              /\ signal' = [signal EXCEPT ![c] = "none", ![Head(queue)] = "one"]
              /\ queue' = Tail(queue)
              /\ UNCHANGED permit
     \/ /\ signal[c] # "one"
        /\ \/ \E k \in 1..Len(queue) : queue[k] = c /\ queue' = RemoveAt(queue, k)
           \/ c \notin ToSet(queue) /\ UNCHANGED queue
        /\ signal' = [signal EXCEPT ![c] = "none"]
        /\ UNCHANGED permit
  /\ Goto(c, "out")
  /\ UNCHANGED <<strategy, poolVars, stale, kind, slot, drained, vm>>

------------------------------------------------------------------------------
(* checkout, try_checkout, checkout_timeout *)

Checkout(c, k) ==
  /\ pc[c] = "out"
  /\ Goto(c, "acquire")
  /\ kind' = [kind EXCEPT ![c] = k]
  /\ stale' = stale \ {c}
  /\ UNCHANGED <<strategy, poolVars, permit, queue, signal, slot, drained, vm>>

FindClosed(c) ==
  /\ closed
  /\ Goto(c, "out")
  /\ UNCHANGED <<poolVars, slot, vm>>

(* take_alive_slot pops slots until one is alive; those popped before it   *)
(* were dead and are dropped.                                              *)
TakeIdle(c) ==
  /\ ~closed
  /\ \E i \in idle : \E skipped \in SUBSET {d \in idle : ~IsAlive(d)} :
       /\ IsAlive(i)
       /\ idle' = idle \ (skipped \cup {i})
       /\ vm' = [d \in Isles |-> IF d \in skipped THEN "none" ELSE vm[d]]
       /\ slot' = [slot EXCEPT ![c] = i]
  /\ active' = active + 1
  /\ Goto(c, "holding")
  /\ UNCHANGED closed

CanGrow(idleNow) == active + Cardinality(idleNow) < MaxSize

(* Nothing alive is idle: all of idle was popped. *)
AllIdleDead == ~closed /\ \A i \in idle : ~IsAlive(i)

(* SpawnNeeded: active is incremented, and the same poll of the future     *)
(* starts the VM's thread.                                                 *)

Grow(c) ==
  /\ AllIdleDead
  /\ CanGrow({})
  /\ idle' = {}
  /\ active' = active + 1
  /\ \E i \in Isles :
       /\ vm[i] = "none"
       /\ slot' = [slot EXCEPT ![c] = i]
       /\ vm' = [d \in Isles |-> IF d = i THEN "init" ELSE IF d \in idle THEN "none" ELSE vm[d]]
  /\ Goto(c, "spawn")
  /\ UNCHANGED closed

NeedWait(c) ==
  /\ AllIdleDead
  /\ ~CanGrow({})
  /\ idle' = {}
  /\ vm' = [d \in Isles |-> IF d \in idle THEN "none" ELSE vm[d]]
  /\ \/ kind[c] # "try_checkout" /\ Goto(c, "poll")
     \/ kind[c] # "checkout" /\ Goto(c, "out")
  /\ UNCHANGED <<active, closed, slot>>

TryAcquire(c) ==
  /\ pc[c] = "acquire"
  /\ FindClosed(c) \/ TakeIdle(c) \/ Grow(c) \/ NeedWait(c)
  /\ UNCHANGED <<strategy, notifyVars, kind, drained>>

SpawnSlot(c) ==
  /\ pc[c] = "spawn"
  /\ \/ /\ vm' = [vm EXCEPT ![slot[c]] = "open"]
        /\ Goto(c, "holding")
        /\ UNCHANGED slot
     \/ /\ vm' = [vm EXCEPT ![slot[c]] = "none"]
        /\ slot' = [slot EXCEPT ![c] = None]
        /\ Goto(c, "dec_active")
  /\ UNCHANGED <<strategy, poolVars, notifyVars, kind, drained>>

DecActive(c) ==
  /\ pc[c] = "dec_active"
  /\ active' = active - 1
  /\ Goto(c, "out")
  /\ NotifyOne
  /\ UNCHANGED <<strategy, idle, closed, stale, kind, slot, drained, vm>>

(* The caller drops the future while spawn_slot awaits the VM: nothing     *)
(* gives the slot back, and the VM's thread ends, its senders gone.        *)
DropSpawn(c) ==
  /\ pc[c] = "spawn"
  /\ vm' = [vm EXCEPT ![slot[c]] = "ending"]
  /\ slot' = [slot EXCEPT ![c] = None]
  /\ Goto(c, "out")
  /\ UNCHANGED <<strategy, poolVars, notifyVars, kind, drained>>

------------------------------------------------------------------------------
(* AsyncPooledIsle::drop: return_slot_warm, or discard_slot for a cold     *)
(* pool and after kill()                                                   *)

ReusableIfAlive(c) == IsAlive(slot[c])  \* mutant: closed is not looked at
Reusable(c) == ~closed /\ IsAlive(slot[c])

ReturnSlotWarm(c) ==
  /\ pc[c] = "holding"
  /\ strategy = "Warm"
  /\ active' = active - 1
  /\ \/ /\ Reusable(c)
        /\ idle' = idle \cup {slot[c]}
        /\ slot' = [slot EXCEPT ![c] = None]
        /\ Goto(c, "out")
        /\ NotifyOne
     \/ /\ ~Reusable(c)
        /\ Goto(c, "closing")
        /\ UNCHANGED <<idle, permit, queue, signal, slot>>
  /\ UNCHANGED <<strategy, closed, stale, kind, drained, vm>>

DiscardSlot(c) ==
  /\ pc[c] = "holding"
  /\ active' = active - 1
  /\ Goto(c, "closing")
  /\ UNCHANGED <<strategy, idle, closed, notifyVars, kind, slot, drained, vm>>

(* spawn_driver_shutdown hands the VM to a background task (or, with no    *)
(* runtime, drops it); then notify_one.                                    *)
SpawnDriverShutdown(c) ==
  /\ pc[c] = "closing"
  /\ vm' = [vm EXCEPT ![slot[c]] = "ending"]
  /\ slot' = [slot EXCEPT ![c] = None]
  /\ Goto(c, "out")
  /\ NotifyOne
  /\ UNCHANGED <<strategy, poolVars, stale, kind, drained>>

------------------------------------------------------------------------------
(* shutdown *)

Shutdown(c) ==
  /\ pc[c] = "out"
  /\ closed' = TRUE
  /\ drained' = [drained EXCEPT ![c] = idle]
  /\ idle' = {}
  /\ Goto(c, "notify_waiters")
  /\ UNCHANGED <<strategy, active, notifyVars, kind, slot, vm>>

WakeAll(c) ==
  /\ pc[c] = "notify_waiters"
  /\ NotifyWaiters
  /\ Goto(c, "drain")
  /\ UNCHANGED <<strategy, poolVars, kind, slot, drained, vm>>

DrainOne(c) ==
  /\ pc[c] = "drain"
  /\ \E i \in drained[c] :
       /\ drained' = [drained EXCEPT ![c] = @ \ {i}]
       /\ slot' = [slot EXCEPT ![c] = i]
       /\ vm' = [vm EXCEPT ![i] = "ending"]
  /\ Goto(c, "join")
  /\ UNCHANGED <<strategy, poolVars, notifyVars, kind>>

DrainJoin(c) ==
  /\ pc[c] = "join"
  /\ vm[slot[c]] = "none"
  /\ slot' = [slot EXCEPT ![c] = None]
  /\ Goto(c, "drain")
  /\ UNCHANGED <<strategy, poolVars, notifyVars, kind, drained, vm>>

ShutdownDone(c) ==
  /\ pc[c] = "drain"
  /\ drained[c] = {}
  /\ Goto(c, "out")
  /\ UNCHANGED <<strategy, poolVars, notifyVars, kind, slot, drained, vm>>

(* The future of shutdown() is dropped while it awaits a driver: the slots *)
(* it still had go with it.                                                *)
DropShutdown(c) ==
  /\ pc[c] = "join"
  /\ vm' = [i \in Isles |-> IF i \in drained[c] THEN "ending" ELSE vm[i]]
  /\ drained' = [drained EXCEPT ![c] = {}]
  /\ slot' = [slot EXCEPT ![c] = None]
  /\ Goto(c, "out")
  /\ UNCHANGED <<strategy, poolVars, notifyVars, kind>>

------------------------------------------------------------------------------
(* The VM's thread: a panic in a request ends its receive loop; told to    *)
(* end, or with its senders gone, it finishes what it runs and exits.      *)

Panic(i) ==
  /\ vm[i] = "open"
  /\ vm' = [vm EXCEPT ![i] = "dead"]
  /\ UNCHANGED <<strategy, poolVars, notifyVars, callVars>>

ThreadEnds(i) ==
  /\ vm[i] = "ending"
  /\ vm' = [vm EXCEPT ![i] = "none"]
  /\ UNCHANGED <<strategy, poolVars, notifyVars, callVars>>

------------------------------------------------------------------------------
Step(c) ==
  \/ TryAcquire(c) \/ PollNotified(c) \/ Wake(c) \/ SpawnSlot(c) \/ DecActive(c)
  \/ SpawnDriverShutdown(c) \/ WakeAll(c) \/ DrainOne(c) \/ DrainJoin(c) \/ ShutdownDone(c)

DropGuard(c) == ReturnSlotWarm(c) \/ DiscardSlot(c)

Next ==
  \/ \E c \in Callers :
       \/ Step(c)
       \/ \E k \in Kinds : Checkout(c, k)
       \/ LeaveQueue(c) \/ DropSpawn(c) \/ DropGuard(c)
       \/ Shutdown(c) \/ DropShutdown(c)
  \/ \E i \in Isles : Panic(i) \/ ThreadEnds(i)

Spec == Init /\ [][Next]_vars

(* A future that is not dropped is polled on, and a VM told to end ends.   *)
Fairness ==
  /\ \A c \in Callers : WF_vars(Step(c))
  /\ \A i \in Isles : WF_vars(ThreadEnds(i))

FairSpec == Spec /\ Fairness

(* Programs that also drop every guard they hold. *)
FairUseSpec == FairSpec /\ \A c \in Callers : WF_vars(DropGuard(c))

------------------------------------------------------------------------------
(* active never falls below the guards out and the calls on their way to   *)
(* one, so its saturating_sub never saturates and a slot is never lent     *)
(* twice (async_pool.rs:276-281, 316, 343, 380).                           *)
Counted == At("spawn") \cup At("dec_active") \cup At("holding")

ActiveCovers == active >= Cardinality(Counted)

(* A VM has one owner: a guard, the idle list or the shutdown that drains  *)
(* it (async_pool.rs:16-17).                                               *)
ExclusiveOwner ==
  /\ \A c \in Callers : slot[c] \notin idle /\ slot[c] \notin drained[c]
  /\ \A c \in Callers : drained[c] \cap idle = {}
  /\ \A c, d \in Callers : c # d =>
       /\ slot[c] = slot[d] => slot[c] = None
       /\ slot[c] \notin drained[d]
       /\ drained[c] \cap drained[d] = {}

(* After shutdown's notify_waiters no caller is, or gets, stuck in the     *)
(* queue: whoever was between its try_acquire and its first poll when it   *)
(* ran has a Notified that is done already (async_pool.rs:149-160,         *)
(* 242-251).                                                               *)
NobodyAsleepAfterShutdown ==
  closed /\ At("notify_waiters") = {} =>
    /\ queue = <<>>
    /\ At("poll") \subseteq stale

(* The pool is a SlotPool. *)
Slots == INSTANCE SlotPool WITH Vms <- Isles, open <- ~closed, claimed <- active
ImplementsSlotPool == Slots!Spec

(* After shutdown the only VMs left are those of guards not dropped yet,   *)
(* even if shutdown() itself was dropped half way (async_pool.rs:233-241). *)
ShutdownEndsVms ==
  closed ~> \A i \in Isles : vm[i] = "none" \/ \E c \in At("holding") : slot[c] = i

(* If programs drop their guards, and no spawn was abandoned, a caller     *)
(* waiting in checkout is woken sooner or later; collapsed permits delay   *)
(* it until the next return, no longer (async_pool.rs:139-141).            *)
NoSlotLost == active = Cardinality(Counted)

SleeperWakes ==
  \A c \in Callers :
    [](NoSlotLost) => ((pc[c] = "wait") ~> (pc[c] # "wait"))

(* Contradicted by the code: no caller stays registered while a VM sits    *)
(* idle, unless somebody is on the way to the VM ("If the pool has idle    *)
(* VMs, one is returned immediately", async_pool.rs:139).                  *)
IdleVmIsTaken ==
  idle # {} /\ queue # <<>> =>
    closed \/ At("acquire") # {} \/ \E c \in At("wait") : signal[c] # "none"

===============================================================================
