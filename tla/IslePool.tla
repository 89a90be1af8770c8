------------------------------- MODULE IslePool -------------------------------
(***************************************************************************)
(* The blocking pool of pool.rs: threads check VMs out of a bounded pool   *)
(* guarded by one mutex and one condition variable.                        *)
(*                                                                         *)
(* A critical section that only touches the counters is one step.  The     *)
(* sections that join a VM's thread while holding the mutex (shutdown, a   *)
(* return to a cold or a closed pool) keep `lock` and wait for that VM,    *)
(* which may still be running a request a Task of the last user started.   *)
(***************************************************************************)
EXTENDS Naturals, FiniteSets

CONSTANTS
  Threads,   \* threads using the pool
  Isles,     \* names for the VMs alive at a time
  MaxSize,   \* PoolConfig::max_size
  None       \* no thread, no VM

ASSUME MaxSizeAssumption == MaxSize \in Nat \ {0}
ASSUME FiniteAssumption == IsFiniteSet(Threads) /\ IsFiniteSet(Isles)
ASSUME NoneAssumption == None \notin Threads /\ None \notin Isles

VARIABLES
  strategy,  \* PoolConfig::strategy
  idle,      \* PoolInner.idle (the order of the stack is abstracted)
  active,    \* PoolInner.active
  closed,    \* PoolInner.closed
  lock,      \* the thread holding the mutex across a join
  pc,        \* thread -> where it is in its call
  kind,      \* thread -> which checkout it called
  expired,   \* threads whose checkout_timeout deadline has passed
  held,      \* thread -> the VM of its PooledIsle
  result,    \* thread -> how its last checkout ended
  vm         \* VM -> its thread: not there, ready, running a request, ended

poolVars == <<idle, active, closed, lock>>
callVars == <<pc, kind, expired, held, result>>
vars == <<strategy, poolVars, callVars, vm>>

Strategies == {"Cold", "Warm"}
Kinds      == {"checkout", "try_checkout", "checkout_timeout"}
Pcs        == {"out", "acquire", "wait", "spawn", "dec_active", "holding", "return",
               "return_join", "discard", "discarded", "shutdown", "drain"}
Results    == {"none", "isle", "Shutdown", "Init", "PoolExhausted", "unavailable"}
VmStates   == {"none", "ready", "busy", "dead"}

TypeOK ==
  /\ strategy \in Strategies
  /\ idle \subseteq Isles
  /\ active \in Nat
  /\ closed \in BOOLEAN
  /\ lock \in Threads \cup {None}
  /\ pc \in [Threads -> Pcs]
  /\ kind \in [Threads -> Kinds]
  /\ expired \subseteq Threads
  /\ held \in [Threads -> Isles \cup {None}]
  /\ result \in [Threads -> Results]
  /\ vm \in [Isles -> VmStates]

Init ==
  /\ strategy \in Strategies
  /\ idle = {}
  /\ active = 0
  /\ closed = FALSE
  /\ lock = None
  /\ pc = [t \in Threads |-> "out"]
  /\ kind = [t \in Threads |-> "checkout"]
  /\ expired = {}
  /\ held = [t \in Threads |-> None]
  /\ result = [t \in Threads |-> "none"]
  /\ vm = [i \in Isles |-> "none"]

At(p) == {t \in Threads : pc[t] = p}
Goto(t, p) == pc' = [pc EXCEPT ![t] = p]
IsAlive(i) == vm[i] \in {"ready", "busy"}

(* Condvar::notify_one after the threads `pc` names have moved: one waiter, *)
(* whichever, goes back for the lock.                                       *)
NotifyNobody(moved) == pc' = moved  \* mutant: a forgotten notify_one
NotifyOne(moved) ==
  LET waiting == {t \in Threads : moved[t] = "wait"} IN
  \/ waiting = {} /\ pc' = moved
  \/ \E t \in waiting : pc' = [moved EXCEPT ![t] = "acquire"]

------------------------------------------------------------------------------
(* checkout, try_checkout, checkout_timeout *)

Checkout(t, k) ==
  /\ pc[t] = "out"
  /\ Goto(t, "acquire")
  /\ kind' = [kind EXCEPT ![t] = k]
  /\ result' = [result EXCEPT ![t] = "none"]
  /\ UNCHANGED <<strategy, poolVars, expired, held, vm>>

(* The deadline of checkout_timeout passes; a thread asleep in             *)
(* wait_timeout goes back for the lock.                                    *)
Expire(t) ==
  /\ kind[t] = "checkout_timeout"
  /\ pc[t] \in {"acquire", "wait"}
  /\ t \notin expired
  /\ expired' = expired \cup {t}
  /\ Goto(t, "acquire")
  /\ UNCHANGED <<strategy, poolVars, kind, held, result, vm>>

SpuriousWakeup(t) ==
  /\ pc[t] = "wait"
  /\ Goto(t, "acquire")
  /\ UNCHANGED <<strategy, poolVars, kind, expired, held, result, vm>>

EndCall(t, r, p) ==
  /\ Goto(t, p)
  /\ result' = [result EXCEPT ![t] = r]
  /\ expired' = expired \ {t}

FindClosed(t) ==
  /\ closed
  /\ EndCall(t, "Shutdown", "out")
  /\ UNCHANGED <<poolVars, held, vm>>

(* take_alive_isle pops VMs until one is alive; those popped before it     *)
(* were dead and are dropped.                                              *)

TakeIdle(t) ==
  /\ ~closed
  /\ \E i \in idle : \E skipped \in SUBSET {d \in idle : ~IsAlive(d)} :
       /\ IsAlive(i)
       /\ idle' = idle \ (skipped \cup {i})
       /\ vm' = [d \in Isles |-> IF d \in skipped THEN "none" ELSE vm[d]]
       /\ held' = [held EXCEPT ![t] = i]
  /\ active' = active + 1
  /\ EndCall(t, "isle", "holding")
  /\ UNCHANGED <<closed, lock>>

CanGrow(idleNow) == active + Cardinality(idleNow) < MaxSize

(* Nothing alive is idle: all of idle was popped. *)
DropIdle ==
  /\ ~closed
  /\ \A i \in idle : ~IsAlive(i)
  /\ idle' = {}
  /\ vm' = [d \in Isles |-> IF d \in idle THEN "none" ELSE vm[d]]

(* mutant: active is not incremented before the spawn *)
GrowUncounted(t) ==
  /\ DropIdle
  /\ CanGrow({})
  /\ Goto(t, "spawn")
  /\ UNCHANGED <<active, closed, lock, expired, held, result>>

Grow(t) ==
  /\ DropIdle
  /\ CanGrow({})
  /\ active' = active + 1
  /\ Goto(t, "spawn")
  /\ UNCHANGED <<closed, lock, expired, held, result>>

NeedWait(t) ==
  /\ DropIdle
  /\ ~CanGrow({})
  /\ \/ /\ kind[t] = "try_checkout"
        /\ EndCall(t, "unavailable", "out")
     \/ /\ kind[t] = "checkout_timeout" /\ t \in expired
        /\ EndCall(t, "PoolExhausted", "out")
     \/ /\ kind[t] = "checkout" \/ (kind[t] = "checkout_timeout" /\ t \notin expired)
        /\ Goto(t, "wait")
        /\ UNCHANGED <<expired, result>>
  /\ UNCHANGED <<active, closed, lock, held>>

TryAcquire(t) ==
  /\ pc[t] = "acquire"
  /\ lock = None
  /\ FindClosed(t) \/ TakeIdle(t) \/ Grow(t) \/ NeedWait(t)
  /\ UNCHANGED <<strategy, kind>>

(* spawn_isle, outside the lock *)
SpawnIsle(t) ==
  /\ pc[t] = "spawn"
  /\ \/ \E i \in Isles :
          /\ vm[i] = "none"
          /\ vm' = [vm EXCEPT ![i] = "ready"]
          /\ held' = [held EXCEPT ![t] = i]
          /\ EndCall(t, "isle", "holding")
     \/ /\ Goto(t, "dec_active")
        /\ UNCHANGED <<vm, held, expired, result>>
  /\ UNCHANGED <<strategy, poolVars, kind>>

DecActive(t) ==
  /\ pc[t] = "dec_active"
  /\ lock = None
  /\ active' = active - 1
  /\ NotifyOne([pc EXCEPT ![t] = "out"])
  /\ result' = [result EXCEPT ![t] = "Init"]
  /\ expired' = expired \ {t}
  /\ UNCHANGED <<strategy, idle, closed, lock, kind, held, vm>>

------------------------------------------------------------------------------
(* PooledIsle::drop: return_isle, or discard_isle after kill() *)

DropGuard(t) ==
  /\ pc[t] = "holding"
  /\ Goto(t, "return") \/ Goto(t, "discard")
  /\ UNCHANGED <<strategy, poolVars, kind, expired, held, result, vm>>

(* A VM that comes back to a closed or a cold pool is shut down.           *)
EndOnReturnIfCold == strategy = "Cold"  \* mutant: closed is not looked at
EndOnReturn == closed \/ strategy = "Cold"

ReturnIsle(t) ==
  /\ pc[t] = "return"
  /\ lock = None
  /\ active' = active - 1
  /\ \/ /\ EndOnReturn
        /\ lock' = t
        /\ Goto(t, "return_join")
        /\ UNCHANGED <<idle, held, vm>>
     \/ /\ ~EndOnReturn
        /\ \/ /\ IsAlive(held[t])
              /\ idle' = idle \cup {held[t]}
              /\ UNCHANGED vm
           \/ /\ ~IsAlive(held[t])
              /\ vm' = [vm EXCEPT ![held[t]] = "none"]
              /\ UNCHANGED idle
        /\ held' = [held EXCEPT ![t] = None]
        /\ NotifyOne([pc EXCEPT ![t] = "out"])
        /\ UNCHANGED lock
  /\ UNCHANGED <<strategy, closed, kind, expired, result>>

(* Isle::shutdown: the thread runs what it was asked before, then ends. *)
Join(i) ==
  /\ vm[i] # "busy"
  /\ vm' = [vm EXCEPT ![i] = "none"]

ReturnJoin(t) ==
  /\ pc[t] = "return_join"
  /\ Join(held[t])
  /\ held' = [held EXCEPT ![t] = None]
  /\ lock' = None
  /\ NotifyOne([pc EXCEPT ![t] = "out"])
  /\ UNCHANGED <<strategy, idle, active, closed, kind, expired, result>>

DiscardJoin(t) ==
  /\ pc[t] = "discard"
  /\ Join(held[t])
  /\ held' = [held EXCEPT ![t] = None]
  /\ Goto(t, "discarded")
  /\ UNCHANGED <<strategy, poolVars, kind, expired, result>>

DiscardIsle(t) ==
  /\ pc[t] = "discarded"
  /\ lock = None
  /\ active' = active - 1
  /\ NotifyOne([pc EXCEPT ![t] = "out"])
  /\ UNCHANGED <<strategy, idle, closed, lock, kind, expired, held, result, vm>>

------------------------------------------------------------------------------
(* shutdown, by a thread that may hold a guard *)

ShutdownCall(t) ==
  /\ pc[t] \in {"out", "holding"}
  /\ Goto(t, "shutdown")
  /\ UNCHANGED <<strategy, poolVars, kind, expired, held, result, vm>>

Shutdown(t) ==
  /\ pc[t] = "shutdown"
  /\ lock = None
  /\ lock' = t
  /\ closed' = TRUE
  /\ Goto(t, "drain")
  /\ UNCHANGED <<strategy, idle, active, kind, expired, held, result, vm>>

DrainOne(t) ==
  /\ pc[t] = "drain"
  /\ \E i \in idle : Join(i) /\ idle' = idle \ {i}
  /\ UNCHANGED <<strategy, active, closed, lock, callVars>>

AfterShutdown(t) == IF held[t] = None THEN "out" ELSE "holding"

(* mutant: shutdown wakes nobody *)
NotifyAllNobody(t) ==
  /\ pc[t] = "drain"
  /\ idle = {}
  /\ lock' = None
  /\ Goto(t, AfterShutdown(t))
  /\ UNCHANGED <<strategy, idle, active, closed, kind, expired, held, result, vm>>

NotifyAll(t) ==
  /\ pc[t] = "drain"
  /\ idle = {}
  /\ lock' = None
  /\ pc' = [u \in Threads |-> IF u = t THEN AfterShutdown(t)
                              ELSE IF pc[u] = "wait" THEN "acquire" ELSE pc[u]]
  /\ UNCHANGED <<strategy, idle, active, closed, kind, expired, held, result, vm>>

------------------------------------------------------------------------------
(* The VM's thread, as far as the pool can tell: a holder starts a request *)
(* and need not wait for it; the request ends, or its panic ends the       *)
(* thread.                                                                 *)

StartRequest(t) ==
  /\ pc[t] = "holding"
  /\ vm[held[t]] = "ready"
  /\ vm' = [vm EXCEPT ![held[t]] = "busy"]
  /\ UNCHANGED <<strategy, poolVars, callVars>>

EndRequest(i) ==
  /\ vm[i] = "busy"
  /\ \E s \in {"ready", "dead"} : vm' = [vm EXCEPT ![i] = s]
  /\ UNCHANGED <<strategy, poolVars, callVars>>

------------------------------------------------------------------------------
Step(t) ==
  \/ TryAcquire(t) \/ SpawnIsle(t) \/ DecActive(t)
  \/ ReturnIsle(t) \/ ReturnJoin(t) \/ DiscardJoin(t) \/ DiscardIsle(t)
  \/ Shutdown(t) \/ DrainOne(t) \/ NotifyAll(t)

Next ==
  \/ \E t \in Threads :
       \/ Step(t)
       \/ \E k \in Kinds : Checkout(t, k)
       \/ Expire(t) \/ SpuriousWakeup(t)
       \/ DropGuard(t) \/ ShutdownCall(t) \/ StartRequest(t)
  \/ \E i \in Isles : EndRequest(i)

Spec == Init /\ [][Next]_vars

(* The mutex is taken eventually (strong fairness: it is free again and    *)
(* again), joins and spawns go on, and requests end.  Nothing obliges a    *)
(* thread to drop its guard or to call the pool.                           *)
Fairness ==
  /\ \A t \in Threads : SF_vars(Step(t))
  /\ \A i \in Isles : WF_vars(EndRequest(i))

FairSpec == Spec /\ Fairness

------------------------------------------------------------------------------
(* active counts the guards out and the calls on their way to one, and     *)
(* nothing else (pool.rs:71-72, 245-256, 271, 300, 338).                   *)
InShutdown(t) == pc[t] \in {"shutdown", "drain"}
CountedPcs == {"spawn", "dec_active", "holding", "return", "discard", "discarded"}
Counted == {t \in Threads : pc[t] \in CountedPcs \/ (InShutdown(t) /\ held[t] # None)}

ActiveCounts == active = Cardinality(Counted)

(* No more than max_size VMs exist at a time (pool.rs:61). *)
VmsBounded == Cardinality({i \in Isles : IsAlive(i)}) <= MaxSize

(* A VM has one owner: one guard, or the idle list (checkout grants        *)
(* exclusive access).                                                      *)
ExclusiveOwner ==
  /\ \A t \in Threads : held[t] \notin idle
  /\ \A t, u \in Threads : held[t] = held[u] /\ held[t] # None => t = u

(* While a caller sleeps on the condition variable, every free slot has a  *)
(* thread on its way to try for it: no notify_one is lost or spent on a    *)
(* thread that will not look (pool.rs:290, 301, 339, 355-357).             *)
FreeSlotsClaimed ==
  At("wait") # {} /\ ~closed =>
    MaxSize - active <= Cardinality(At("acquire") \cup At("return_join"))

(* A closed pool keeps no idle VM once shutdown has let go of the lock     *)
(* (pool.rs:222-231, 273-277).                                             *)
ClosedPoolEmpty == closed /\ lock = None => idle = {}

(* A caller is told that nothing is available only while every slot is     *)
(* taken, even if its deadline passed while a VM was on its way back       *)
(* (pool.rs:155-156, 178-179, 189-196).                                    *)
RefusedOnlyWhenFull ==
  [][\A t \in Threads :
       result'[t] \in {"PoolExhausted", "unavailable"} /\ result[t] # result'[t]
         => active = MaxSize]_vars

(* The pool is a SlotPool. *)
Slots == INSTANCE SlotPool WITH Vms <- Isles, open <- ~closed, claimed <- active
ImplementsSlotPool == Slots!Spec

(* A free slot does not stay free while callers wait for one. *)
FreeSlotIsTaken ==
  (At("wait") # {} /\ active < MaxSize) ~> (At("wait") = {} \/ active = MaxSize)

(* Shutdown wakes every waiting caller, and ends every VM but those of     *)
(* guards not dropped yet (pool.rs:217-230).                               *)
ShutdownEndsAll ==
  /\ closed ~> (At("wait") = {})
  /\ closed ~> \A i \in Isles : IsAlive(i) =>
                \E t \in Threads : held[t] = i /\ (pc[t] = "holding" \/ InShutdown(t))

===============================================================================
