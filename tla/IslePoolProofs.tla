---------------------------- MODULE IslePoolProofs ----------------------------
(***************************************************************************)
(* Proofs about IslePool: the invariants TLC checks on small pools hold    *)
(* for every set of threads, every set of VMs and every max_size, and the  *)
(* pool implements SlotPool.                                               *)
(***************************************************************************)
EXTENDS IslePool, TLAPS, FiniteSetTheorems

------------------------------------------------------------------------------
(* The inductive strengthening. *)

(* Who has a VM in its hands. *)
HeldInv ==
  \A t \in Threads :
    /\ pc[t] \in {"holding", "return", "return_join", "discard"} => held[t] # None
    /\ pc[t] \in {"out", "acquire", "wait", "spawn", "dec_active", "discarded"} => held[t] = None

(* The mutex is kept over a join, and only there. *)
LockInv == \A t \in Threads : lock = t <=> pc[t] \in {"return_join", "drain"}

(* A VM's thread exists as long as the VM has an owner. *)
Owned(i) == i \in idle \/ \E t \in Threads : held[t] = i
OwnedInv == \A i \in Isles : vm[i] # "none" <=> Owned(i)

(* The guard whose VM is being joined gave its slot back already.          *)
Joining == IF \E t \in Threads : pc[t] = "return_join" THEN 1 ELSE 0

SlotsInv == active + Cardinality(idle) + Joining <= MaxSize

(* Only the shutdown that drains it sees an idle VM in a closed pool. *)
DrainInv == closed /\ idle # {} => \E t \in Threads : pc[t] = "drain"

IInv ==
  /\ TypeOK /\ HeldInv /\ LockInv /\ ExclusiveOwner /\ OwnedInv
  /\ ActiveCounts /\ SlotsInv /\ DrainInv

------------------------------------------------------------------------------
(* A call that ends and notifies: its thread is out, and at most one       *)
(* thread asleep on the condition variable goes back for the lock.         *)
LEMMA NotifyMoves ==
  ASSUME TypeOK, NEW t \in Threads, NotifyOne([pc EXCEPT ![t] = "out"])
  PROVE  /\ pc' \in [Threads -> Pcs]
         /\ pc'[t] = "out"
         /\ \A u \in Threads :
              u # t => pc'[u] = pc[u] \/ (pc[u] = "wait" /\ pc'[u] = "acquire")
         /\ \/ \A u \in Threads : u # t => pc[u] # "wait"
            \/ \E u \in Threads : u # t /\ pc[u] = "wait" /\ pc'[u] = "acquire"
<1> DEFINE moved == [pc EXCEPT ![t] = "out"]
<1>1. /\ moved \in [Threads -> Pcs] /\ moved[t] = "out"
      /\ \A u \in Threads : u # t => moved[u] = pc[u]
  BY DEF TypeOK, Pcs
<1>2. \/ pc' = moved /\ \A u \in Threads : moved[u] # "wait"
      \/ \E u \in Threads : moved[u] = "wait" /\ pc' = [moved EXCEPT ![u] = "acquire"]
  BY DEF NotifyOne
<1>3. CASE pc' = moved /\ \A u \in Threads : moved[u] # "wait"
  BY <1>1, <1>3
<1>4. CASE \E u \in Threads : moved[u] = "wait" /\ pc' = [moved EXCEPT ![u] = "acquire"]
  <2>1. PICK u \in Threads : moved[u] = "wait" /\ pc' = [moved EXCEPT ![u] = "acquire"]
    BY <1>4
  <2> HIDE DEF moved
  <2>2. u # t /\ pc'[u] = "acquire" /\ pc' \in [Threads -> Pcs]
        /\ \A v \in Threads : v # u => pc'[v] = moved[v]
    BY <1>1, <2>1 DEF Pcs
  <2>3. QED
    BY <1>1, <2>1, <2>2
<1>5. QED
  BY <1>2, <1>3, <1>4

(* Type correctness is preserved by every step. *)
LEMMA TypeStep == TypeOK /\ HeldInv /\ ActiveCounts /\ [Next]_vars => TypeOK'
<1> SUFFICES ASSUME TypeOK, HeldInv, ActiveCounts, [Next]_vars PROVE TypeOK'
  OBVIOUS
<1> USE DEF TypeOK
<1>0. ASSUME NEW t \in Threads, pc[t] \in CountedPcs PROVE active - 1 \in Nat
  <2>1. t \in Counted /\ IsFiniteSet(Counted)
    BY <1>0, FiniteAssumption, FS_Subset DEF Counted
  <2>2. active # 0
    BY <2>1, FS_EmptySet DEF ActiveCounts
  <2>3. QED
    BY <2>2
<1>1. ASSUME NEW t \in Threads, TryAcquire(t) PROVE TypeOK'
  <2>1. CASE FindClosed(t)
    BY <1>1, <2>1 DEF TryAcquire, FindClosed, EndCall, Goto, poolVars, Pcs, Results
  <2>2. CASE TakeIdle(t)
    BY <1>1, <2>2 DEF TryAcquire, TakeIdle, EndCall, Goto, Pcs, Results, VmStates
  <2>3. CASE Grow(t)
    BY <1>1, <2>3 DEF TryAcquire, Grow, DropIdle, Goto, Pcs, VmStates
  <2>4. CASE NeedWait(t)
    BY <1>1, <2>4 DEF TryAcquire, NeedWait, DropIdle, EndCall, Goto, Pcs, Results, VmStates
  <2>5. QED
    BY <1>1, <2>1, <2>2, <2>3, <2>4 DEF TryAcquire
<1>2. ASSUME NEW t \in Threads, SpawnIsle(t) PROVE TypeOK'
  BY <1>2 DEF SpawnIsle, EndCall, Goto, poolVars, Pcs, Results, VmStates
<1>3. ASSUME NEW t \in Threads, DecActive(t) PROVE TypeOK'
  <2>2. pc' \in [Threads -> Pcs]
    BY <1>3, NotifyMoves DEF DecActive
  <2>3. QED
    BY <1>0, <1>3, <2>2 DEF DecActive, CountedPcs, Results
<1>4. ASSUME NEW t \in Threads, ReturnIsle(t) PROVE TypeOK'
  <2>2. pc' \in [Threads -> Pcs]
    BY <1>4, NotifyMoves DEF ReturnIsle, Goto, Pcs
  <2>3. held[t] \in Isles
    BY <1>4 DEF ReturnIsle, HeldInv
  <2>4. idle' \subseteq Isles /\ vm' \in [Isles -> VmStates] /\ lock' \in Threads \cup {None}
    BY <1>4, <2>3 DEF ReturnIsle, VmStates
  <2>5. active' \in Nat
    BY <1>0, <1>4 DEF ReturnIsle, CountedPcs
  <2>6. held' \in [Threads -> Isles \cup {None}]
    BY <1>4 DEF ReturnIsle
  <2>7. QED
    BY <1>4, <2>2, <2>4, <2>5, <2>6 DEF ReturnIsle
<1>5. ASSUME NEW t \in Threads, ReturnJoin(t) PROVE TypeOK'
  <2>2. pc' \in [Threads -> Pcs]
    BY <1>5, NotifyMoves DEF ReturnJoin
  <2>3. QED
    BY <1>5, <2>2 DEF ReturnJoin, Join, VmStates
<1>6. ASSUME NEW t \in Threads, DiscardJoin(t) PROVE TypeOK'
  BY <1>6 DEF DiscardJoin, Join, Goto, poolVars, Pcs, VmStates
<1>7. ASSUME NEW t \in Threads, DiscardIsle(t) PROVE TypeOK'
  <2>2. pc' \in [Threads -> Pcs]
    BY <1>7, NotifyMoves DEF DiscardIsle
  <2>3. QED
    BY <1>0, <1>7, <2>2 DEF DiscardIsle, CountedPcs
<1>8. ASSUME NEW t \in Threads, Shutdown(t) \/ DrainOne(t) \/ NotifyAll(t) PROVE TypeOK'
  <2>1. CASE Shutdown(t)
    BY <2>1 DEF Shutdown, Goto, Pcs
  <2>2. CASE DrainOne(t)
    BY <2>2 DEF DrainOne, Join, callVars, VmStates
  <2>3. CASE NotifyAll(t)
    BY <2>3 DEF NotifyAll, AfterShutdown, Pcs
  <2>4. QED
    BY <1>8, <2>1, <2>2, <2>3
<1>9. ASSUME NEW t \in Threads, NEW k \in Kinds, Checkout(t, k) PROVE TypeOK'
  BY <1>9 DEF Checkout, Goto, poolVars, Pcs, Results
<1>10. ASSUME NEW t \in Threads, Expire(t) \/ SpuriousWakeup(t) PROVE TypeOK'
  BY <1>10 DEF Expire, SpuriousWakeup, Goto, poolVars, Pcs
<1>11. ASSUME NEW t \in Threads, DropGuard(t) \/ ShutdownCall(t) PROVE TypeOK'
  BY <1>11 DEF DropGuard, ShutdownCall, Goto, poolVars, Pcs
<1>12. ASSUME NEW t \in Threads, StartRequest(t) PROVE TypeOK'
  BY <1>12 DEF StartRequest, poolVars, callVars, VmStates
<1>13. ASSUME NEW i \in Isles, EndRequest(i) PROVE TypeOK'
  BY <1>13 DEF EndRequest, poolVars, callVars, VmStates
<1>14. CASE UNCHANGED vars
  BY <1>14 DEF vars, poolVars, callVars
<1>15. QED
  BY <1>1, <1>2, <1>3, <1>4, <1>5, <1>6, <1>7, <1>8, <1>9, <1>10, <1>11, <1>12, <1>13, <1>14
     DEF Next, Step

------------------------------------------------------------------------------
(* The actions that leave every VM and every counter alone, or touch only  *)
(* the state of one VM's thread.                                           *)
Idling ==
  \/ \E t \in Threads, k \in Kinds : Checkout(t, k)
  \/ \E t \in Threads : Expire(t) \/ SpuriousWakeup(t) \/ StartRequest(t)
  \/ \E i \in Isles : EndRequest(i)
  \/ UNCHANGED vars

(* They keep the owners, the counters and the mutex; a thread they move    *)
(* goes to acquire with no VM, and no VM's thread begins or goes.          *)
LEMMA IdlingFrame ==
  ASSUME TypeOK, Idling
  PROVE  /\ UNCHANGED <<idle, active, closed, lock, held>>
         /\ pc' \in [Threads -> Pcs]
         /\ \A u \in Threads :
              pc'[u] = pc[u] \/ (pc[u] \in {"out", "acquire", "wait"} /\ pc'[u] = "acquire")
         /\ \A i \in Isles : vm'[i] = "none" <=> vm[i] = "none"
<1> USE DEF TypeOK, Pcs
<1>1. CASE \E t \in Threads, k \in Kinds : Checkout(t, k)
  BY <1>1 DEF Checkout, Goto, poolVars
<1>2. CASE \E t \in Threads : Expire(t) \/ SpuriousWakeup(t)
  BY <1>2 DEF Expire, SpuriousWakeup, Goto, poolVars
<1>3. CASE \E t \in Threads : StartRequest(t)
  BY <1>3 DEF StartRequest, poolVars, callVars
<1>4. CASE \E i \in Isles : EndRequest(i)
  BY <1>4 DEF EndRequest, poolVars, callVars
<1>5. CASE UNCHANGED vars
  BY <1>5 DEF vars, poolVars, callVars
<1>6. QED
  BY <1>1, <1>2, <1>3, <1>4, <1>5 DEF Idling

(* HeldInv is preserved by every step. *)
LEMMA HeldStep == TypeOK /\ HeldInv /\ [Next]_vars => HeldInv'
<1> SUFFICES ASSUME TypeOK, HeldInv, [Next]_vars PROVE HeldInv'
  OBVIOUS
<1> USE DEF TypeOK, HeldInv
<1>1. ASSUME NEW t \in Threads, TryAcquire(t) PROVE HeldInv'
  <2>1. CASE FindClosed(t)
    BY <1>1, <2>1 DEF TryAcquire, FindClosed, EndCall, Goto
  <2>2. CASE TakeIdle(t)
    BY <1>1, <2>2, NoneAssumption DEF TryAcquire, TakeIdle, EndCall, Goto
  <2>3. CASE Grow(t)
    BY <1>1, <2>3 DEF TryAcquire, Grow, Goto
  <2>4. CASE NeedWait(t)
    BY <1>1, <2>4 DEF TryAcquire, NeedWait, EndCall, Goto
  <2>5. QED
    BY <1>1, <2>1, <2>2, <2>3, <2>4 DEF TryAcquire
<1>2. ASSUME NEW t \in Threads, SpawnIsle(t) PROVE HeldInv'
  BY <1>2, NoneAssumption DEF SpawnIsle, EndCall, Goto
<1>3. ASSUME NEW t \in Threads, DecActive(t) PROVE HeldInv'
  BY <1>3, NotifyMoves DEF DecActive
<1>4. ASSUME NEW t \in Threads, ReturnIsle(t) PROVE HeldInv'
  <2>1. CASE EndOnReturn
    BY <1>4, <2>1 DEF ReturnIsle, Goto
  <2>2. CASE ~EndOnReturn
    <3>1. NotifyOne([pc EXCEPT ![t] = "out"]) /\ held' = [held EXCEPT ![t] = None]
      BY <1>4, <2>2 DEF ReturnIsle
    <3>2. QED
      BY <3>1, NotifyMoves
  <2>3. QED
    BY <2>1, <2>2
<1>5. ASSUME NEW t \in Threads, ReturnJoin(t) PROVE HeldInv'
  BY <1>5, NotifyMoves DEF ReturnJoin
<1>6. ASSUME NEW t \in Threads, DiscardJoin(t) PROVE HeldInv'
  BY <1>6 DEF DiscardJoin, Goto
<1>7. ASSUME NEW t \in Threads, DiscardIsle(t) PROVE HeldInv'
  BY <1>7, NotifyMoves DEF DiscardIsle
<1>8. ASSUME NEW t \in Threads, Shutdown(t) \/ DrainOne(t) \/ NotifyAll(t) PROVE HeldInv'
  BY <1>8 DEF Shutdown, DrainOne, NotifyAll, AfterShutdown, Goto, callVars
<1>9. ASSUME NEW t \in Threads, DropGuard(t) \/ ShutdownCall(t) PROVE HeldInv'
  BY <1>9 DEF DropGuard, ShutdownCall, Goto
<1>10. CASE Idling
  BY <1>10, IdlingFrame
<1>11. QED
  BY <1>1, <1>2, <1>3, <1>4, <1>5, <1>6, <1>7, <1>8, <1>9, <1>10 DEF Next, Step, Idling

(* LockInv is preserved by every step. *)
LEMMA LockStep == TypeOK /\ LockInv /\ [Next]_vars => LockInv'
<1> SUFFICES ASSUME TypeOK, LockInv, [Next]_vars PROVE LockInv'
  OBVIOUS
<1> USE NoneAssumption DEF TypeOK, LockInv
<1>1. ASSUME NEW t \in Threads, TryAcquire(t) PROVE LockInv'
  <2>1. lock' = lock /\ \E p \in {"out", "holding", "spawn", "wait"} : pc' = [pc EXCEPT ![t] = p]
    BY <1>1 DEF TryAcquire, FindClosed, TakeIdle, Grow, NeedWait, EndCall, Goto, poolVars
  <2>2. QED
    BY <1>1, <2>1 DEF TryAcquire
<1>2. ASSUME NEW t \in Threads, SpawnIsle(t) PROVE LockInv'
  BY <1>2 DEF SpawnIsle, EndCall, Goto, poolVars
<1>3. ASSUME NEW t \in Threads, DecActive(t) PROVE LockInv'
  BY <1>3, NotifyMoves DEF DecActive
<1>4. ASSUME NEW t \in Threads, ReturnIsle(t) PROVE LockInv'
  <2>1. CASE EndOnReturn
    BY <1>4, <2>1 DEF ReturnIsle, Goto
  <2>2. CASE ~EndOnReturn
    <3>1. NotifyOne([pc EXCEPT ![t] = "out"]) /\ lock' = lock /\ pc[t] = "return"
      BY <1>4, <2>2 DEF ReturnIsle
    <3>2. QED
      BY <3>1, NotifyMoves
  <2>3. QED
    BY <2>1, <2>2
<1>5. ASSUME NEW t \in Threads, ReturnJoin(t) PROVE LockInv'
  BY <1>5, NotifyMoves DEF ReturnJoin
<1>6. ASSUME NEW t \in Threads, DiscardJoin(t) PROVE LockInv'
  BY <1>6 DEF DiscardJoin, Goto, poolVars
<1>7. ASSUME NEW t \in Threads, DiscardIsle(t) PROVE LockInv'
  BY <1>7, NotifyMoves DEF DiscardIsle
<1>8. ASSUME NEW t \in Threads, Shutdown(t) \/ DrainOne(t) \/ NotifyAll(t) PROVE LockInv'
  BY <1>8 DEF Shutdown, DrainOne, NotifyAll, AfterShutdown, Goto, callVars
<1>9. ASSUME NEW t \in Threads, DropGuard(t) \/ ShutdownCall(t) PROVE LockInv'
  BY <1>9 DEF DropGuard, ShutdownCall, Goto, poolVars
<1>10. CASE Idling
  BY <1>10, IdlingFrame
<1>11. QED
  BY <1>1, <1>2, <1>3, <1>4, <1>5, <1>6, <1>7, <1>8, <1>9, <1>10 DEF Next, Step, Idling

Owners == TypeOK /\ HeldInv /\ LockInv /\ ExclusiveOwner /\ OwnedInv

(* No step lends a VM to two users, or leaves it idle as well; a VM's      *)
(* thread exists exactly as long as the VM has an owner.                   *)
LEMMA OwnerStep == Owners /\ [Next]_vars => ExclusiveOwner' /\ OwnedInv'
<1> SUFFICES ASSUME Owners, [Next]_vars PROVE ExclusiveOwner' /\ OwnedInv'
  OBVIOUS
<1> USE NoneAssumption DEF Owners, TypeOK, ExclusiveOwner, OwnedInv, Owned
<1>0. ASSUME UNCHANGED <<idle, held, vm>> PROVE ExclusiveOwner' /\ OwnedInv'
  BY <1>0
<1>1. ASSUME NEW t \in Threads, TryAcquire(t) PROVE ExclusiveOwner' /\ OwnedInv'
  <2>1. CASE FindClosed(t)
    BY <1>0, <2>1 DEF FindClosed, poolVars
  <2>2. CASE TakeIdle(t)
    <3>1. PICK i \in idle, skipped \in SUBSET {d \in idle : ~IsAlive(d)} :
            /\ IsAlive(i)
            /\ idle' = idle \ (skipped \cup {i})
            /\ vm' = [d \in Isles |-> IF d \in skipped THEN "none" ELSE vm[d]]
            /\ held' = [held EXCEPT ![t] = i]
      BY <2>2 DEF TakeIdle
    <3>2. held[t] = None /\ i \notin skipped
      BY <1>1, <3>1 DEF TryAcquire, HeldInv
    <3>3. ExclusiveOwner'
      BY <3>1, <3>2
    <3>4. ASSUME NEW d \in Isles PROVE vm'[d] # "none" <=> Owned(d)'
      <4>1. CASE d = i
        BY <3>1, <3>2, <4>1 DEF IsAlive
      <4>2. CASE d \in skipped
        BY <3>1, <3>2, <4>2
      <4>3. CASE d # i /\ d \notin skipped
        BY <3>1, <3>2, <4>3
      <4>4. QED
        BY <4>1, <4>2, <4>3
    <3>5. QED
      BY <3>3, <3>4
  <2>3. CASE Grow(t) \/ NeedWait(t)
    <3>1. /\ idle' = {} /\ held' = held
          /\ vm' = [d \in Isles |-> IF d \in idle THEN "none" ELSE vm[d]]
      BY <2>3 DEF Grow, NeedWait, DropIdle
    <3>2. QED
      BY <3>1
  <2>4. QED
    BY <1>1, <2>1, <2>2, <2>3 DEF TryAcquire
<1>2. ASSUME NEW t \in Threads, SpawnIsle(t) PROVE ExclusiveOwner' /\ OwnedInv'
  <2>1. CASE UNCHANGED <<vm, held>>
    BY <1>0, <1>2, <2>1 DEF SpawnIsle, poolVars
  <2>2. CASE \E i \in Isles :
               vm[i] = "none" /\ vm' = [vm EXCEPT ![i] = "ready"] /\ held' = [held EXCEPT ![t] = i]
    <3>1. PICK i \in Isles :
            vm[i] = "none" /\ vm' = [vm EXCEPT ![i] = "ready"] /\ held' = [held EXCEPT ![t] = i]
      BY <2>2
    <3>2. held[t] = None /\ idle' = idle /\ i \notin idle /\ \A u \in Threads : held[u] # i
      BY <1>2, <3>1 DEF SpawnIsle, HeldInv, poolVars
    <3>3. QED
      BY <3>1, <3>2
  <2>3. QED
    BY <1>2, <2>1, <2>2 DEF SpawnIsle
<1>3. ASSUME NEW t \in Threads, DecActive(t) \/ DiscardIsle(t) \/ DropGuard(t) \/ ShutdownCall(t)
      PROVE  ExclusiveOwner' /\ OwnedInv'
  BY <1>0, <1>3 DEF DecActive, DiscardIsle, DropGuard, ShutdownCall, poolVars
<1>4. ASSUME NEW t \in Threads, ReturnIsle(t) PROVE ExclusiveOwner' /\ OwnedInv'
  <2>1. CASE EndOnReturn
    BY <1>0, <1>4, <2>1 DEF ReturnIsle
  <2>2. CASE ~EndOnReturn
    <3>1. held[t] \in Isles /\ held' = [held EXCEPT ![t] = None]
      BY <1>4, <2>2 DEF ReturnIsle, HeldInv
    <3>2. CASE idle' = idle \cup {held[t]} /\ vm' = vm
      BY <3>1, <3>2
    <3>3. CASE idle' = idle /\ vm' = [vm EXCEPT ![held[t]] = "none"]
      BY <3>1, <3>3
    <3>4. QED
      BY <1>4, <2>2, <3>2, <3>3 DEF ReturnIsle
  <2>3. QED
    BY <2>1, <2>2
<1>5. ASSUME NEW t \in Threads, ReturnJoin(t) \/ DiscardJoin(t) PROVE ExclusiveOwner' /\ OwnedInv'
  <2>1. /\ held[t] \in Isles /\ held' = [held EXCEPT ![t] = None]
        /\ vm' = [vm EXCEPT ![held[t]] = "none"] /\ idle' = idle
    BY <1>5 DEF ReturnJoin, DiscardJoin, Join, HeldInv, poolVars
  <2>2. QED
    BY <2>1
<1>6. ASSUME NEW t \in Threads, Shutdown(t) \/ NotifyAll(t) PROVE ExclusiveOwner' /\ OwnedInv'
  BY <1>0, <1>6 DEF Shutdown, NotifyAll
<1>7. ASSUME NEW t \in Threads, DrainOne(t) PROVE ExclusiveOwner' /\ OwnedInv'
  <2>1. PICK i \in idle : vm' = [vm EXCEPT ![i] = "none"] /\ idle' = idle \ {i} /\ held' = held
    BY <1>7 DEF DrainOne, Join, callVars
  <2>2. QED
    BY <2>1
<1>8. CASE Idling
  BY <1>8, IdlingFrame
<1>9. QED
  BY <1>1, <1>2, <1>3, <1>4, <1>5, <1>6, <1>7, <1>8 DEF Next, Step, Idling

------------------------------------------------------------------------------
(* How a step changes the counted threads and the counter: not at all, a   *)
(* thread joins, or a thread leaves.                                       *)
Kept == Counted' = Counted /\ active' = active
Joins(t) == t \notin Counted /\ Counted' = Counted \cup {t} /\ active' = active + 1
Leaves(t) == t \in Counted /\ Counted' = Counted \ {t} /\ active' = active - 1

(* active changes in the step that takes or gives a slot, and in no other. *)
LEMMA CountEffect ==
  ASSUME TypeOK, HeldInv, [Next]_vars
  PROVE  Kept \/ \E t \in Threads : Joins(t) \/ Leaves(t)
<1> USE DEF TypeOK, Counted, CountedPcs, InShutdown
<1>1. ASSUME NEW t \in Threads, TryAcquire(t) PROVE Kept \/ Joins(t)
  <2>1. CASE FindClosed(t)
    BY <1>1, <2>1 DEF TryAcquire, FindClosed, EndCall, Goto, poolVars, Kept
  <2>2. CASE TakeIdle(t)
    <3>1. /\ pc[t] = "acquire" /\ pc' = [pc EXCEPT ![t] = "holding"] /\ active' = active + 1
          /\ \A u \in Threads : u # t => held'[u] = held[u]
      BY <1>1, <2>2 DEF TryAcquire, TakeIdle, EndCall, Goto
    <3>2. QED
      BY <3>1 DEF Joins
  <2>3. CASE Grow(t)
    BY <1>1, <2>3 DEF TryAcquire, Grow, Goto, Joins
  <2>4. CASE NeedWait(t)
    <3>1. /\ pc[t] = "acquire" /\ active' = active /\ held' = held
          /\ \E p \in {"out", "wait"} : pc' = [pc EXCEPT ![t] = p]
      BY <1>1, <2>4 DEF TryAcquire, NeedWait, EndCall, Goto
    <3>2. QED
      BY <3>1 DEF Kept
  <2>5. QED
    BY <1>1, <2>1, <2>2, <2>3, <2>4 DEF TryAcquire
<1>2. ASSUME NEW t \in Threads, SpawnIsle(t) PROVE Kept
  <2>1. /\ pc[t] = "spawn" /\ active' = active
        /\ \E p \in {"holding", "dec_active"} : pc' = [pc EXCEPT ![t] = p]
        /\ \A u \in Threads : u # t => held'[u] = held[u]
    BY <1>2 DEF SpawnIsle, EndCall, Goto, poolVars
  <2>2. QED
    BY <2>1 DEF Kept
<1>3. ASSUME NEW t \in Threads, DecActive(t) \/ DiscardIsle(t) PROVE Leaves(t)
  <2>1. /\ pc[t] \in {"dec_active", "discarded"} /\ NotifyOne([pc EXCEPT ![t] = "out"])
        /\ active' = active - 1 /\ held' = held
    BY <1>3 DEF DecActive, DiscardIsle
  <2>2. QED
    BY <2>1, NotifyMoves DEF Leaves
<1>4. ASSUME NEW t \in Threads, ReturnIsle(t) PROVE Leaves(t)
  <2>1. pc[t] = "return" /\ active' = active - 1
        /\ \A u \in Threads : u # t => held'[u] = held[u]
    BY <1>4 DEF ReturnIsle
  <2>2. CASE pc' = [pc EXCEPT ![t] = "return_join"]
    BY <2>1, <2>2 DEF Leaves
  <2>3. CASE NotifyOne([pc EXCEPT ![t] = "out"])
    BY <2>1, <2>3, NotifyMoves DEF Leaves
  <2>4. QED
    BY <1>4, <2>2, <2>3 DEF ReturnIsle, Goto
<1>5. ASSUME NEW t \in Threads, ReturnJoin(t) PROVE Kept
  <2>1. /\ pc[t] = "return_join" /\ NotifyOne([pc EXCEPT ![t] = "out"])
        /\ active' = active /\ \A u \in Threads : u # t => held'[u] = held[u]
    BY <1>5 DEF ReturnJoin
  <2>2. QED
    BY <2>1, NotifyMoves DEF Kept
<1>6. ASSUME NEW t \in Threads, DiscardJoin(t) PROVE Kept
  BY <1>6 DEF DiscardJoin, Goto, poolVars, Kept
<1>7. ASSUME NEW t \in Threads, Shutdown(t) \/ DrainOne(t) \/ NotifyAll(t) PROVE Kept
  BY <1>7 DEF Shutdown, DrainOne, NotifyAll, AfterShutdown, Goto, callVars, Kept
<1>8. ASSUME NEW t \in Threads, DropGuard(t) \/ ShutdownCall(t) PROVE Kept
  <2>1. active' = active /\ held' = held
    BY <1>8 DEF DropGuard, ShutdownCall, poolVars
  <2>2. CASE DropGuard(t)
    BY <2>1, <2>2 DEF DropGuard, Goto, Kept
  <2>3. CASE ShutdownCall(t)
    BY <2>1, <2>3 DEF ShutdownCall, Goto, HeldInv, Kept
  <2>4. QED
    BY <1>8, <2>2, <2>3
<1>9. CASE Idling
  BY <1>9, IdlingFrame DEF Kept
<1>10. QED
  BY <1>1, <1>2, <1>3, <1>4, <1>5, <1>6, <1>7, <1>8, <1>9 DEF Next, Step, Idling

(* The counter is the number of the counted threads after every step. *)
LEMMA CountStep == TypeOK /\ HeldInv /\ ActiveCounts /\ [Next]_vars => ActiveCounts'
<1> SUFFICES ASSUME TypeOK, HeldInv, ActiveCounts, [Next]_vars PROVE ActiveCounts'
  OBVIOUS
<1>1. IsFiniteSet(Counted) /\ Cardinality(Counted) \in Nat
  BY FiniteAssumption, FS_Subset, FS_CardinalityType DEF Counted
<1>2. CASE Kept
  BY <1>2 DEF Kept, ActiveCounts
<1>3. ASSUME NEW t \in Threads, Joins(t) PROVE ActiveCounts'
  <2>1. Cardinality(Counted \cup {t}) = Cardinality(Counted) + 1
    BY <1>1, <1>3, FS_AddElement DEF Joins
  <2>2. QED
    BY <1>3, <2>1 DEF Joins, ActiveCounts
<1>4. ASSUME NEW t \in Threads, Leaves(t) PROVE ActiveCounts'
  <2>1. Cardinality(Counted \ {t}) = Cardinality(Counted) - 1
    BY <1>1, <1>4, FS_RemoveElement DEF Leaves
  <2>2. QED
    BY <1>4, <2>1 DEF Leaves, ActiveCounts
<1>5. QED
  BY <1>2, <1>3, <1>4, CountEffect

(* Sums of naturals that do not grow. *)
LEMMA SumBound ==
  \A a, b, c, d \in Nat : a = b - 1 /\ c <= 1 => a + c <= b + d
OBVIOUS

LEMMA SumsBound ==
  \A a, b, c, d, e, f, m \in Nat :
    a + e <= b + f /\ c <= d /\ b + d + f <= m => a + c + e <= m
OBVIOUS

(* A step that adds no idle VM and takes no slot leaves room. *)
LEMMA SlotsFrame ==
  ASSUME TypeOK, TypeOK', SlotsInv, idle' \subseteq idle, active' + Joining' <= active + Joining
  PROVE  SlotsInv'
<1>1. /\ IsFiniteSet(idle) /\ Cardinality(idle) \in Nat /\ Cardinality(idle') \in Nat
      /\ Cardinality(idle') <= Cardinality(idle)
  BY FiniteAssumption, FS_Subset, FS_CardinalityType DEF TypeOK
<1>2. active \in Nat /\ active' \in Nat /\ Joining \in Nat /\ Joining' \in Nat /\ MaxSize \in Nat
  BY MaxSizeAssumption DEF TypeOK, Joining
<1>3. active + Cardinality(idle) + Joining <= MaxSize
  BY DEF SlotsInv
<1>4. active' + Cardinality(idle') + Joining' <= MaxSize
  BY <1>1, <1>2, <1>3, SumsBound
<1>5. QED
  BY <1>4 DEF SlotsInv

(* While nobody keeps the mutex, no VM is being joined under it. *)
LEMMA FreeLock == ASSUME LockInv, lock = None PROVE Joining = 0
BY NoneAssumption DEF LockInv, Joining

(* SlotsInv is preserved by every step. *)
LEMMA SlotsStep ==
  TypeOK /\ TypeOK' /\ HeldInv /\ LockInv /\ ExclusiveOwner /\ SlotsInv /\ [Next]_vars => SlotsInv'
<1> SUFFICES ASSUME TypeOK, TypeOK', HeldInv, LockInv, ExclusiveOwner, SlotsInv, [Next]_vars
             PROVE  SlotsInv'
  OBVIOUS
<1>0. /\ active \in Nat /\ active' \in Nat /\ Joining \in Nat /\ Joining' \in Nat /\ MaxSize \in Nat
      /\ IsFiniteSet(idle) /\ Cardinality(idle) \in Nat
  BY MaxSizeAssumption, FiniteAssumption, FS_Subset, FS_CardinalityType DEF TypeOK, Joining
<1>1. ASSUME NEW t \in Threads, TryAcquire(t) PROVE SlotsInv'
  <2>1. Joining = 0 /\ Joining' = 0
    <3>1. Joining = 0
      BY <1>1, FreeLock DEF TryAcquire
    <3>2. \E p \in {"out", "holding", "spawn", "wait"} : pc' = [pc EXCEPT ![t] = p]
      BY <1>1 DEF TryAcquire, FindClosed, TakeIdle, Grow, NeedWait, EndCall, Goto
    <3>3. QED
      BY <3>1, <3>2 DEF Joining, TypeOK
  <2>2. CASE FindClosed(t) \/ NeedWait(t)
    <3>1. idle' \subseteq idle /\ active' = active
      BY <2>2 DEF FindClosed, NeedWait, DropIdle, poolVars
    <3>2. active' + Joining' <= active + Joining
      BY <1>0, <2>1, <3>1
    <3>3. QED
      BY <3>1, <3>2, SlotsFrame
  <2>3. CASE TakeIdle(t)
    <3>1. PICK i \in idle : idle' \subseteq idle \ {i}
      BY <2>3 DEF TakeIdle
    <3>2. IsFiniteSet(idle \ {i}) /\ Cardinality(idle \ {i}) = Cardinality(idle) - 1
      BY <1>0, <3>1, FS_RemoveElement
    <3>3. Cardinality(idle') <= Cardinality(idle) - 1 /\ Cardinality(idle') \in Nat
      BY <3>1, <3>2, FS_Subset, FS_CardinalityType
    <3>4. active' = active + 1
      BY <2>3 DEF TakeIdle
    <3>5. QED
      BY <1>0, <2>1, <3>3, <3>4 DEF SlotsInv
  <2>4. CASE Grow(t)
    <3>1. idle' = {} /\ active' = active + 1 /\ active + Cardinality({}) < MaxSize
      BY <2>4 DEF Grow, DropIdle, CanGrow
    <3>2. QED
      BY <1>0, <2>1, <3>1, FS_EmptySet DEF SlotsInv
  <2>5. QED
    BY <1>1, <2>2, <2>3, <2>4 DEF TryAcquire
<1>2. ASSUME NEW t \in Threads, ReturnIsle(t) PROVE SlotsInv'
  <2>1. Joining = 0 /\ active' = active - 1
    BY <1>2, FreeLock DEF ReturnIsle
  <2>2. CASE EndOnReturn
    <3>1. idle' = idle /\ Joining' <= 1
      BY <1>2, <2>2 DEF ReturnIsle, Joining
    <3>2. active' + Joining' <= active + Joining
      BY <1>0, <2>1, <3>1, SumBound
    <3>3. QED
      BY <3>1, <3>2, SlotsFrame
  <2>3. CASE ~EndOnReturn
    <3>1. /\ NotifyOne([pc EXCEPT ![t] = "out"])
          /\ idle' = idle \/ idle' = idle \cup {held[t]}
      BY <1>2, <2>3 DEF ReturnIsle
    <3>2. Joining' = 0
      BY <2>1, <3>1, NotifyMoves DEF Joining
    <3>3. held[t] \notin idle
      BY DEF ExclusiveOwner
    <3>4. Cardinality(idle') <= Cardinality(idle) + 1 /\ Cardinality(idle') \in Nat
      BY <1>0, <3>1, <3>3, FS_AddElement
    <3>5. QED
      BY <1>0, <2>1, <3>2, <3>4 DEF SlotsInv
  <2>4. QED
    BY <2>2, <2>3
<1>3. ASSUME idle' \subseteq idle, active' = active \/ active' = active - 1,
             Joining' = Joining \/ Joining' = 0
      PROVE  SlotsInv'
  <2>1. ASSUME active' = active PROVE active' + Joining' <= active + Joining
    <3>1. CASE Joining' = Joining
      BY <1>0, <2>1, <3>1
    <3>2. CASE Joining' = 0
      BY <1>0, <2>1, <3>2
    <3>3. QED
      BY <1>3, <3>1, <3>2
  <2>2. ASSUME active' = active - 1 PROVE active' + Joining' <= active + Joining
    <3>1. CASE Joining' = Joining
      BY <1>0, <2>2, <3>1
    <3>2. CASE Joining' = 0
      BY <1>0, <2>2, <3>2
    <3>3. QED
      BY <1>3, <3>1, <3>2
  <2>3. QED
    BY <1>3, <2>1, <2>2, SlotsFrame
<1>4. ASSUME NEW t \in Threads, DecActive(t) \/ ReturnJoin(t) \/ DiscardIsle(t) PROVE SlotsInv'
  <2>1. /\ NotifyOne([pc EXCEPT ![t] = "out"]) /\ idle' = idle
        /\ active' = active \/ active' = active - 1
    BY <1>4 DEF DecActive, ReturnJoin, DiscardIsle
  <2>2. Joining' = Joining \/ Joining' = 0
    BY <2>1, NotifyMoves DEF Joining
  <2>3. QED
    BY <1>0, <1>3, <2>1, <2>2
<1>5. ASSUME NEW t \in Threads,
             SpawnIsle(t) \/ DiscardJoin(t) \/ DropGuard(t) \/ ShutdownCall(t) \/ Shutdown(t)
      PROVE  SlotsInv'
  <2>1. /\ idle' = idle /\ active' = active
        /\ \E p \in Pcs \ {"return_join"} : pc' = [pc EXCEPT ![t] = p]
    BY <1>5 DEF SpawnIsle, DiscardJoin, DropGuard, ShutdownCall, Shutdown, EndCall, Goto, poolVars, Pcs
  <2>2. Joining' = Joining \/ Joining' = 0
    BY <2>1 DEF Joining, TypeOK
  <2>3. QED
    BY <1>0, <1>3, <2>1, <2>2
<1>6. ASSUME NEW t \in Threads, DrainOne(t) \/ NotifyAll(t) PROVE SlotsInv'
  <2>1. /\ idle' \subseteq idle /\ active' = active
        /\ \A u \in Threads : pc'[u] = "return_join" => pc[u] = "return_join"
    BY <1>6 DEF DrainOne, NotifyAll, AfterShutdown, callVars
  <2>2. Joining' = Joining \/ Joining' = 0
    BY <2>1 DEF Joining
  <2>3. QED
    BY <1>0, <1>3, <2>1, <2>2
<1>7. CASE Idling
  <2>1. (Joining' = Joining \/ Joining' = 0) /\ idle' = idle /\ active' = active
    BY <1>7, IdlingFrame DEF Joining
  <2>2. QED
    BY <1>0, <1>3, <2>1
<1>8. QED
  BY <1>1, <1>2, <1>4, <1>5, <1>6, <1>7 DEF Next, Step, Idling

(* DrainInv is preserved by every step. *)
LEMMA DrainStep == TypeOK /\ LockInv /\ DrainInv /\ [Next]_vars => DrainInv'
<1> SUFFICES ASSUME TypeOK, LockInv, DrainInv, [Next]_vars PROVE DrainInv'
  OBVIOUS
<1> USE NoneAssumption DEF TypeOK, LockInv, DrainInv
<1>1. ASSUME NEW t \in Threads, closed' = closed, idle' \subseteq idle, pc[t] # "drain",
             \A u \in Threads : u # t /\ pc[u] = "drain" => pc'[u] = "drain"
      PROVE  DrainInv'
  BY <1>1
<1>2. ASSUME NEW t \in Threads, TryAcquire(t) PROVE DrainInv'
  <2>1. closed' = closed /\ idle' \subseteq idle /\ \E p \in Pcs : pc' = [pc EXCEPT ![t] = p]
    BY <1>2 DEF TryAcquire, FindClosed, TakeIdle, Grow, NeedWait, DropIdle, EndCall, Goto, poolVars, Pcs
  <2>2. QED
    BY <1>1, <1>2, <2>1 DEF TryAcquire
<1>3. ASSUME NEW t \in Threads, DecActive(t) \/ ReturnJoin(t) \/ DiscardIsle(t) PROVE DrainInv'
  <2>1. /\ NotifyOne([pc EXCEPT ![t] = "out"]) /\ idle' = idle /\ closed' = closed
        /\ pc[t] # "drain"
    BY <1>3 DEF DecActive, ReturnJoin, DiscardIsle
  <2>2. \A u \in Threads : u # t /\ pc[u] = "drain" => pc'[u] = "drain"
    <3>1. \A u \in Threads : u # t => pc'[u] = pc[u] \/ pc[u] = "wait"
      BY <2>1, NotifyMoves
    <3>2. QED
      BY <3>1
  <2>3. QED
    BY <1>1, <2>1, <2>2
<1>4. ASSUME NEW t \in Threads, ReturnIsle(t) PROVE DrainInv'
  <2>1. lock = None /\ pc[t] = "return" /\ closed' = closed
    BY <1>4 DEF ReturnIsle
  <2>2. CASE EndOnReturn
    BY <1>1, <1>4, <2>1, <2>2 DEF ReturnIsle, Goto
  <2>3. CASE ~EndOnReturn
    BY <2>1, <2>3 DEF EndOnReturn
  <2>4. QED
    BY <2>2, <2>3
<1>5. ASSUME NEW t \in Threads,
             SpawnIsle(t) \/ DiscardJoin(t) \/ DropGuard(t) \/ ShutdownCall(t)
      PROVE  DrainInv'
  <2>1. /\ idle' = idle /\ closed' = closed /\ pc[t] # "drain"
        /\ \E p \in Pcs : pc' = [pc EXCEPT ![t] = p]
    BY <1>5 DEF SpawnIsle, DiscardJoin, DropGuard, ShutdownCall, EndCall, Goto, poolVars, Pcs
  <2>2. QED
    BY <1>1, <2>1
<1>6. ASSUME NEW t \in Threads, Shutdown(t) \/ DrainOne(t) \/ NotifyAll(t) PROVE DrainInv'
  BY <1>6 DEF Shutdown, DrainOne, NotifyAll, Goto, callVars
<1>7. CASE Idling
  BY <1>7, IdlingFrame
<1>8. QED
  BY <1>2, <1>3, <1>4, <1>5, <1>6, <1>7 DEF Next, Step, Idling

------------------------------------------------------------------------------
(* IInv holds initially and is preserved by every step. *)
LEMMA InitInv == Init => IInv
<1> SUFFICES ASSUME Init PROVE IInv
  OBVIOUS
<1> USE NoneAssumption DEF Init
<1>1. TypeOK
  BY DEF TypeOK, Pcs, Kinds, Results, VmStates
<1>2. HeldInv /\ LockInv /\ ExclusiveOwner /\ OwnedInv /\ DrainInv
  BY DEF HeldInv, LockInv, ExclusiveOwner, OwnedInv, Owned, DrainInv
<1>3. ActiveCounts
  <2>1. Counted = {}
    BY DEF Counted, CountedPcs, InShutdown
  <2>2. QED
    BY <2>1, FS_EmptySet DEF ActiveCounts
<1>4. SlotsInv
  <2>1. Joining = 0
    BY DEF Joining
  <2>2. QED
    BY <2>1, FS_EmptySet, MaxSizeAssumption DEF SlotsInv
<1>5. QED
  BY <1>1, <1>2, <1>3, <1>4 DEF IInv

LEMMA NextInv == IInv /\ [Next]_vars => IInv'
BY TypeStep, HeldStep, LockStep, OwnerStep, CountStep, SlotsStep, DrainStep DEF IInv, Owners

(* The inductive invariant of the blocking pool (pool.rs). *)
THEOREM InductiveInvariant == Spec => []IInv
BY InitInv, NextInv, PTL DEF Spec

(* Every variable keeps its type; active, in particular, never underflows, *)
(* so the saturating_sub of pool.rs:271, 300 and 338 never saturates.      *)
THEOREM TypeCorrect == Spec => []TypeOK
<1>1. IInv => TypeOK
  BY DEF IInv
<1>2. QED
  BY <1>1, InductiveInvariant, PTL

(* active is the number of guards out and of calls on their way to one     *)
(* (pool.rs:71-72, 245-256, 271, 300, 338).                                *)
THEOREM ActiveCountsAlways == Spec => []ActiveCounts
<1>1. IInv => ActiveCounts
  BY DEF IInv
<1>2. QED
  BY <1>1, InductiveInvariant, PTL

(* checkout grants exclusive access: no VM has two owners.                 *)
THEOREM ExclusiveOwnerAlways == Spec => []ExclusiveOwner
<1>1. IInv => ExclusiveOwner
  BY DEF IInv
<1>2. QED
  BY <1>1, InductiveInvariant, PTL

(* A closed pool keeps no idle VM once shutdown let go of the mutex        *)
(* (pool.rs:222-231, 273-277).                                             *)
THEOREM ClosedPoolEmptyAlways == Spec => []ClosedPoolEmpty
<1>1. IInv => ClosedPoolEmpty
  BY NoneAssumption DEF IInv, LockInv, DrainInv, ClosedPoolEmpty
<1>2. QED
  BY <1>1, InductiveInvariant, PTL

(* No more VMs than max_size are alive (pool.rs:61): each is idle or held, *)
(* by a counted thread or by the one that joins it under the mutex.        *)
THEOREM VmsBoundedAlways == Spec => []VmsBounded
<1>1. IInv => VmsBounded
  <2> SUFFICES ASSUME IInv PROVE VmsBounded
    OBVIOUS
  <2> DEFINE Alive == {i \in Isles : IsAlive(i)}
             Holders == {t \in Threads : held[t] # None}
             Joiners == {t \in Threads : pc[t] = "return_join"}
             Lent == {held[t] : t \in Holders}
             lends == [t \in Holders |-> held[t]]
  <2>1. /\ IsFiniteSet(idle) /\ Cardinality(idle) \in Nat
        /\ IsFiniteSet(Holders) /\ Cardinality(Holders) \in Nat
        /\ IsFiniteSet(Counted) /\ Cardinality(Counted) \in Nat
        /\ IsFiniteSet(Joiners) /\ Cardinality(Joiners) \in Nat
    BY FiniteAssumption, FS_Subset, FS_CardinalityType DEF IInv, TypeOK, Counted
  <2>2. /\ IsFiniteSet(Lent) /\ Cardinality(Lent) \in Nat
        /\ Cardinality(Lent) <= Cardinality(Holders)
    <3>1. lends \in Surjection(Holders, Lent)
      BY DEF Surjection
    <3>2. QED
      BY <2>1, <3>1, FS_Surjection, FS_CardinalityType
  <2>3. Cardinality(Joiners) <= Joining
    <3>1. CASE \E t \in Threads : pc[t] = "return_join"
      <4>1. PICK t \in Threads : pc[t] = "return_join"
        BY <3>1
      <4>2. Joiners = {t}
        BY <4>1 DEF IInv, LockInv
      <4>3. Cardinality(Joiners) = 1
        BY <4>2, FS_Singleton
      <4>4. Joining = 1
        BY <3>1 DEF Joining
      <4>5. QED
        BY <4>3, <4>4
    <3>2. CASE ~\E t \in Threads : pc[t] = "return_join"
      <4>1. Joiners = {}
        BY <3>2
      <4>2. QED
        BY <3>2, <4>1, FS_EmptySet DEF Joining
    <3>3. QED
      BY <3>1, <3>2
  <2>4. Cardinality(Holders) <= Cardinality(Counted) + Cardinality(Joiners)
    <3>1. Holders \subseteq Counted \cup Joiners
      BY DEF IInv, TypeOK, Pcs, HeldInv, Counted, CountedPcs, InShutdown
    <3>2. /\ IsFiniteSet(Counted \cup Joiners) /\ Cardinality(Counted \cup Joiners) \in Nat
          /\ Cardinality(Counted \cap Joiners) \in Nat
          /\ Cardinality(Counted \cup Joiners)
               = Cardinality(Counted) + Cardinality(Joiners) - Cardinality(Counted \cap Joiners)
      BY <2>1, FS_Union, FS_Subset, FS_CardinalityType
    <3>3. Cardinality(Holders) <= Cardinality(Counted \cup Joiners)
      BY <3>1, <3>2, FS_Subset
    <3>4. QED
      BY <2>1, <3>2, <3>3
  <2>5. Cardinality(Alive) <= Cardinality(idle) + Cardinality(Lent)
    <3>1. Alive \subseteq idle \cup Lent
      <4>1. ASSUME NEW i \in Isles, IsAlive(i) PROVE i \in idle \cup Lent
        <5>1. Owned(i)
          BY <4>1 DEF IInv, OwnedInv, IsAlive
        <5>2. i # None
          BY NoneAssumption
        <5>3. QED
          BY <5>1, <5>2 DEF Owned
      <4>2. QED
        BY <4>1
    <3>2. /\ IsFiniteSet(idle \cup Lent) /\ Cardinality(idle \cup Lent) \in Nat
          /\ Cardinality(idle \cap Lent) \in Nat
          /\ Cardinality(idle \cup Lent)
               = Cardinality(idle) + Cardinality(Lent) - Cardinality(idle \cap Lent)
      BY <2>1, <2>2, FS_Union, FS_Subset, FS_CardinalityType
    <3>3. Cardinality(Alive) <= Cardinality(idle \cup Lent) /\ Cardinality(Alive) \in Nat
      BY <3>1, <3>2, FS_Subset, FS_CardinalityType
    <3>4. QED
      BY <2>1, <2>2, <3>2, <3>3
  <2>6. active = Cardinality(Counted) /\ active + Cardinality(idle) + Joining <= MaxSize
    BY DEF IInv, ActiveCounts, SlotsInv
  <2>7. Cardinality(Alive) \in Nat /\ MaxSize \in Nat /\ Joining \in Nat
    BY FiniteAssumption, FS_Subset, FS_CardinalityType, MaxSizeAssumption DEF Joining
  <2>8. Cardinality(Alive) <= MaxSize
    <3> HIDE DEF Alive, Holders, Joiners, Lent, lends
    <3>1. QED
      BY <2>1, <2>2, <2>3, <2>4, <2>5, <2>6, <2>7
  <2>9. QED
    BY <2>8 DEF VmsBounded
<1>2. QED
  BY <1>1, InductiveInvariant, PTL

(* "Nothing available" and PoolExhausted are said only when every slot is  *)
(* taken (pool.rs:155-156, 178-179, 189-196).                              *)
THEOREM RefusedOnlyWhenFullAlways == Spec => RefusedOnlyWhenFull
<1> DEFINE Refused(t) == result'[t] \in {"PoolExhausted", "unavailable"} /\ result[t] # result'[t]
<1>1. IInv /\ [Next]_vars => [\A t \in Threads : Refused(t) => active = MaxSize]_vars
  <2> SUFFICES ASSUME IInv, [Next]_vars, NEW t \in Threads, Refused(t) PROVE active = MaxSize
    OBVIOUS
  <2>1. \E u \in Threads : NeedWait(u)
    <3>1. result \in [Threads -> Results]
      BY DEF IInv, TypeOK
    <3>2. CASE \E u \in Threads : TryAcquire(u)
      <4>1. PICK u \in Threads : TryAcquire(u)
        BY <3>2
      <4>2. QED
        BY <3>1, <4>1 DEF TryAcquire, FindClosed, TakeIdle, Grow, EndCall
    <3>3. CASE \E u \in Threads : SpawnIsle(u) \/ DecActive(u)
      BY <3>1, <3>3 DEF SpawnIsle, DecActive, EndCall
    <3>4. CASE \E u \in Threads :
                 ReturnIsle(u) \/ ReturnJoin(u) \/ DiscardJoin(u) \/ DiscardIsle(u)
                 \/ Shutdown(u) \/ DrainOne(u) \/ NotifyAll(u) \/ DropGuard(u) \/ ShutdownCall(u)
      BY <3>4 DEF ReturnIsle, ReturnJoin, DiscardJoin, DiscardIsle, Shutdown, DrainOne, NotifyAll,
                  DropGuard, ShutdownCall, callVars
    <3>5. CASE Idling
      BY <3>1, <3>5 DEF Idling, Checkout, Expire, SpuriousWakeup, StartRequest, EndRequest, callVars, vars
    <3>6. QED
      BY <3>2, <3>3, <3>4, <3>5 DEF Next, Step, Idling
  <2>2. ~(active + Cardinality({}) < MaxSize)
    BY <2>1 DEF NeedWait, CanGrow
  <2>3. /\ active \in Nat /\ MaxSize \in Nat /\ Joining \in Nat /\ Cardinality(idle) \in Nat
        /\ active + Cardinality(idle) + Joining <= MaxSize
    BY FiniteAssumption, FS_Subset, FS_CardinalityType, MaxSizeAssumption
       DEF IInv, TypeOK, SlotsInv, Joining
  <2>4. QED
    BY <2>2, <2>3, FS_EmptySet
<1>2. QED
  BY <1>1, InductiveInvariant, PTL DEF Spec, RefusedOnlyWhenFull

------------------------------------------------------------------------------
(* SlotPool counts as IslePool does. *)
LEMMA SameCardinality == \A S : Slots!Cardinality(S) = Cardinality(S)
BY DEF Slots!Cardinality, Cardinality

(* Every step of the pool is a step of SlotPool, or none. *)
LEMMA SlotPoolStep == IInv /\ [Next]_vars => [Slots!Next]_(Slots!vars)
<1> SUFFICES ASSUME IInv, [Next]_vars PROVE [Slots!Next]_(Slots!vars)
  OBVIOUS
<1> USE DEF Slots!Next, Slots!vars, Slots!Claim, Slots!Release, Slots!LetGo, Slots!Close
<1>0. /\ TypeOK /\ LockInv /\ ExclusiveOwner /\ HeldInv
      /\ active \in Nat /\ MaxSize \in Nat /\ Joining \in Nat
      /\ IsFiniteSet(idle) /\ Cardinality(idle) \in Nat
      /\ active + Cardinality(idle) + Joining <= MaxSize
  BY MaxSizeAssumption, FiniteAssumption, FS_Subset, FS_CardinalityType
     DEF IInv, TypeOK, SlotsInv, Joining
<1>1. ASSUME NEW t \in Threads, pc[t] \in CountedPcs PROVE active > 0
  <2>1. t \in Counted /\ IsFiniteSet(Counted)
    BY <1>1, FiniteAssumption, FS_Subset DEF Counted
  <2>2. active # 0
    BY <2>1, FS_EmptySet DEF IInv, ActiveCounts
  <2>3. QED
    BY <1>0, <2>2
<1>2. ASSUME UNCHANGED <<idle, active, closed>> PROVE [Slots!Next]_(Slots!vars)
  BY <1>2
<1>3. ASSUME NEW t \in Threads, TryAcquire(t) PROVE [Slots!Next]_(Slots!vars)
  <2>1. CASE FindClosed(t)
    BY <1>2, <2>1 DEF FindClosed, poolVars
  <2>2. CASE TakeIdle(t)
    <3>1. PICK i \in idle : idle' \subseteq idle \ {i}
      BY <2>2 DEF TakeIdle
    <3>2. /\ IsFiniteSet(idle \ {i}) /\ Cardinality(idle \ {i}) \in Nat
          /\ Cardinality(idle \ {i}) = Cardinality(idle) - 1
      BY <1>0, <3>1, FS_RemoveElement, FS_CardinalityType
    <3>3. Cardinality(idle') <= Cardinality(idle \ {i}) /\ Cardinality(idle') \in Nat
      BY <3>1, <3>2, FS_Subset, FS_CardinalityType
    <3>4. active' = active + 1 /\ closed' = closed /\ ~closed
      BY <2>2 DEF TakeIdle
    <3>5. active + 1 + Cardinality(idle') <= MaxSize /\ active < MaxSize
      BY <1>0, <3>2, <3>3
    <3>6. Slots!Claim
      <4>1. active' + Cardinality(idle') <= MaxSize
        BY <3>4, <3>5
      <4>2. idle' \in SUBSET idle
        BY <3>1
      <4>3. QED
        BY <3>4, <3>5, <4>1, <4>2, SameCardinality
    <3>7. QED
      BY <3>6
  <2>3. CASE Grow(t)
    <3>1. /\ idle' = {} /\ active' = active + 1 /\ active + Cardinality({}) < MaxSize
          /\ closed' = closed /\ ~closed
      BY <2>3 DEF Grow, DropIdle, CanGrow
    <3>2. active + 1 + Cardinality({}) <= MaxSize /\ active < MaxSize
      BY <1>0, <3>1, FS_EmptySet
    <3>3. Slots!Claim
      <4>1. active' + Cardinality(idle') <= MaxSize
        BY <3>1, <3>2
      <4>2. idle' \in SUBSET idle
        BY <3>1
      <4>3. QED
        BY <3>1, <3>2, <4>1, <4>2, SameCardinality
    <3>4. QED
      BY <3>3
  <2>4. CASE NeedWait(t)
    BY <2>4 DEF NeedWait, DropIdle
  <2>5. QED
    BY <1>3, <2>1, <2>2, <2>3, <2>4 DEF TryAcquire
<1>4. ASSUME NEW t \in Threads, DecActive(t) \/ DiscardIsle(t) PROVE [Slots!Next]_(Slots!vars)
  <2>1. pc[t] = "dec_active" \/ (pc[t] = "discarded")
    BY <1>4 DEF DecActive, DiscardIsle
  <2>2. active > 0
    BY <1>1, <2>1 DEF CountedPcs
  <2>3. idle' = idle /\ closed' = closed /\ active' = active - 1
    BY <1>4 DEF DecActive, DiscardIsle
  <2>4. QED
    BY <2>2, <2>3
<1>5. ASSUME NEW t \in Threads, ReturnIsle(t) PROVE [Slots!Next]_(Slots!vars)
  <2>1. active > 0
    BY <1>1, <1>5 DEF ReturnIsle, CountedPcs
  <2>2. closed' = closed /\ active' = active - 1
    BY <1>5 DEF ReturnIsle
  <2>3. CASE idle' = idle
    BY <2>1, <2>2, <2>3
  <2>4. CASE ~EndOnReturn /\ idle' = idle \cup {held[t]}
    <3>1. held[t] \in Isles \ idle
      BY <1>0, <1>5 DEF ReturnIsle, HeldInv, ExclusiveOwner, TypeOK
    <3>2. ~closed
      BY <2>4 DEF EndOnReturn
    <3>3. QED
      BY <2>1, <2>2, <2>4, <3>1, <3>2
  <2>5. QED
    BY <1>5, <2>3, <2>4 DEF ReturnIsle
<1>6. ASSUME NEW t \in Threads, Shutdown(t) \/ DrainOne(t) \/ NotifyAll(t)
      PROVE  [Slots!Next]_(Slots!vars)
  <2>1. CASE Shutdown(t)
    BY <2>1 DEF Shutdown
  <2>2. CASE DrainOne(t)
    BY <2>2 DEF DrainOne
  <2>3. CASE NotifyAll(t)
    BY <2>3 DEF NotifyAll
  <2>4. QED
    BY <1>6, <2>1, <2>2, <2>3
<1>7. ASSUME NEW t \in Threads,
             SpawnIsle(t) \/ ReturnJoin(t) \/ DiscardJoin(t) \/ DropGuard(t) \/ ShutdownCall(t)
      PROVE  [Slots!Next]_(Slots!vars)
  BY <1>2, <1>7 DEF SpawnIsle, ReturnJoin, DiscardJoin, DropGuard, ShutdownCall, poolVars
<1>8. CASE Idling
  BY <1>0, <1>2, <1>8, IdlingFrame
<1>9. QED
  BY <1>3, <1>4, <1>5, <1>6, <1>7, <1>8 DEF Next, Step, Idling

(* The blocking pool implements the abstract bounded pool. *)
THEOREM Refinement == Spec => ImplementsSlotPool
<1>1. Init => Slots!Init
  BY DEF Init, Slots!Init
<1>2. QED
  BY <1>1, SlotPoolStep, InductiveInvariant, PTL DEF Spec, ImplementsSlotPool, Slots!Spec

------------------------------------------------------------------------------
(* While a caller sleeps on the condition variable, every free slot has a  *)
(* thread that will look at it: no notify_one is lost, or spent on a       *)
(* thread that will not look (pool.rs:290, 301, 339, 355-357).             *)
Seekers == At("acquire") \cup At("return_join")

LEMMA SeekersFinite == IsFiniteSet(Seekers) /\ Cardinality(Seekers) \in Nat
BY FiniteAssumption, FS_Subset, FS_CardinalityType DEF Seekers, At

(* How a step changes the threads that will look. *)
Sought == At("wait") # {} /\ ~closed
GainSeekers == active' = active /\ Seekers \subseteq Seekers'
SlotFreed ==
  active' = active - 1 /\ \E u \in Threads : u \notin Seekers /\ Seekers' = Seekers \cup {u}
SlotTaken ==
  active' = active + 1 /\ \E t \in Seekers : Seekers' = Seekers \ {t}
Handover ==
  /\ active' = active
  /\ \E t \in Seekers, u \in Threads : u \notin Seekers /\ Seekers' = (Seekers \ {t}) \cup {u}

LEMMA SeekersEffect ==
  ASSUME IInv, IInv', [Next]_vars, Sought'
  PROVE  \/ active' = MaxSize
         \/ Sought /\ (GainSeekers \/ SlotFreed \/ SlotTaken \/ Handover)
<1> DEFINE Goal == \/ active' = MaxSize
                   \/ Sought /\ (GainSeekers \/ SlotFreed \/ SlotTaken \/ Handover)
<1> USE DEF IInv, TypeOK, Seekers, At, Sought
<1>0. ASSUME NEW t \in Threads, NotifyOne([pc EXCEPT ![t] = "out"]), closed' = closed
      PROVE  Sought /\ \E u \in Threads : u # t /\ pc[u] = "wait" /\ u \notin Seekers
                                          /\ Seekers' = (Seekers \ {t}) \cup {u}
  <2>1. \/ pc' = [pc EXCEPT ![t] = "out"] /\ \A u \in Threads : pc'[u] # "wait"
        \/ \E u \in Threads : /\ u # t /\ pc[u] = "wait"
                              /\ pc' = [[pc EXCEPT ![t] = "out"] EXCEPT ![u] = "acquire"]
    BY <1>0 DEF NotifyOne
  <2>2. PICK u \in Threads : /\ u # t /\ pc[u] = "wait"
                             /\ pc' = [[pc EXCEPT ![t] = "out"] EXCEPT ![u] = "acquire"]
    BY <2>1
  <2>3. u \notin Seekers /\ Seekers' = (Seekers \ {t}) \cup {u}
    BY <2>2
  <2>4. QED
    BY <1>0, <2>2, <2>3
<1>1. ASSUME NEW t \in Threads, TryAcquire(t) PROVE Goal
  <2>1. CASE FindClosed(t)
    BY <2>1 DEF FindClosed, poolVars
  <2>2. CASE TakeIdle(t) \/ Grow(t)
    <3>1. /\ pc[t] = "acquire" /\ closed' = closed /\ active' = active + 1
          /\ \E p \in {"holding", "spawn"} : pc' = [pc EXCEPT ![t] = p]
      BY <1>1, <2>2 DEF TryAcquire, TakeIdle, Grow, EndCall, Goto
    <3>2. Sought /\ t \in Seekers /\ Seekers' = Seekers \ {t}
      BY <3>1
    <3>3. QED
      BY <3>1, <3>2 DEF SlotTaken
  <2>3. CASE NeedWait(t)
    <3>1. active' = active /\ ~(active + Cardinality({}) < MaxSize)
      BY <2>3 DEF NeedWait, CanGrow
    <3>2. /\ active \in Nat /\ MaxSize \in Nat /\ Joining \in Nat /\ Cardinality(idle) \in Nat
          /\ active + Cardinality(idle) + Joining <= MaxSize
      BY FiniteAssumption, FS_Subset, FS_CardinalityType, MaxSizeAssumption DEF SlotsInv, Joining
    <3>3. active = MaxSize
      BY <3>1, <3>2, FS_EmptySet
    <3>4. QED
      BY <3>1, <3>3
  <2>4. QED
    BY <1>1, <2>1, <2>2, <2>3 DEF TryAcquire
<1>2. ASSUME NEW t \in Threads, DecActive(t) \/ DiscardIsle(t) PROVE Goal
  <2>1. /\ NotifyOne([pc EXCEPT ![t] = "out"]) /\ closed' = closed /\ active' = active - 1
        /\ t \notin Seekers
    BY <1>2 DEF DecActive, DiscardIsle
  <2>2. Sought /\ \E u \in Threads : u \notin Seekers /\ Seekers' = (Seekers \ {t}) \cup {u}
    BY <1>0, <2>1
  <2>3. Seekers \ {t} = Seekers
    BY <2>1
  <2>4. SlotFreed
    BY <2>1, <2>2, <2>3 DEF SlotFreed
  <2>5. QED
    BY <2>2, <2>4
<1>3. ASSUME NEW t \in Threads, ReturnIsle(t) PROVE Goal
  <2>1. closed' = closed /\ active' = active - 1 /\ t \notin Seekers /\ pc[t] = "return"
    BY <1>3 DEF ReturnIsle
  <2>2. CASE NotifyOne([pc EXCEPT ![t] = "out"])
    BY <1>0, <2>1, <2>2 DEF SlotFreed
  <2>3. CASE pc' = [pc EXCEPT ![t] = "return_join"]
    <3>1. Seekers' = Seekers \cup {t} /\ Sought
      BY <2>1, <2>3
    <3>2. QED
      BY <2>1, <3>1 DEF SlotFreed
  <2>4. QED
    BY <1>3, <2>2, <2>3 DEF ReturnIsle, Goto
<1>4. ASSUME NEW t \in Threads, ReturnJoin(t) PROVE Goal
  <2>1. /\ NotifyOne([pc EXCEPT ![t] = "out"]) /\ closed' = closed /\ active' = active
        /\ t \in Seekers
    BY <1>4 DEF ReturnJoin
  <2>2. QED
    BY <1>0, <2>1 DEF Handover
<1>5. ASSUME NEW t \in Threads, SpawnIsle(t) \/ DiscardJoin(t) \/ DropGuard(t) \/ ShutdownCall(t)
      PROVE  Goal
  <2>1. /\ active' = active /\ closed' = closed /\ pc[t] \notin {"acquire", "return_join"}
        /\ \E p \in Pcs \ {"wait"} : pc' = [pc EXCEPT ![t] = p]
    BY <1>5 DEF SpawnIsle, DiscardJoin, DropGuard, ShutdownCall, EndCall, Goto, poolVars, Pcs
  <2>2. pc'[t] # "wait" /\ \A u \in Threads : u # t => pc'[u] = pc[u]
    BY <2>1
  <2>3. Seekers \subseteq Seekers' /\ Sought
    BY <2>1, <2>2
  <2>4. QED
    BY <2>1, <2>3 DEF GainSeekers
<1>6. ASSUME NEW t \in Threads, Shutdown(t) \/ DrainOne(t) \/ NotifyAll(t) PROVE Goal
  BY <1>6 DEF Shutdown, DrainOne, NotifyAll, AfterShutdown, Goto, callVars, GainSeekers
<1>7. CASE Idling
  BY <1>7, IdlingFrame DEF GainSeekers
<1>8. QED
  BY <1>1, <1>2, <1>3, <1>4, <1>5, <1>6, <1>7 DEF Next, Step, Idling

LEMMA SeekersStep == IInv /\ IInv' /\ FreeSlotsClaimed /\ [Next]_vars => FreeSlotsClaimed'
<1> SUFFICES ASSUME IInv, IInv', FreeSlotsClaimed, [Next]_vars, Sought'
             PROVE  MaxSize - active' <= Cardinality(Seekers')
  BY DEF FreeSlotsClaimed, Sought, Seekers
<1>1. /\ active \in Nat /\ active' \in Nat /\ MaxSize \in Nat
      /\ IsFiniteSet(Seekers) /\ Cardinality(Seekers) \in Nat
  BY MaxSizeAssumption, SeekersFinite DEF IInv, TypeOK
<1>2. IsFiniteSet(Seekers') /\ Cardinality(Seekers') \in Nat
  BY FiniteAssumption, FS_Subset, FS_CardinalityType DEF Seekers, At
<1>3. ASSUME Sought PROVE MaxSize - active <= Cardinality(Seekers)
  BY <1>3 DEF FreeSlotsClaimed, Sought, Seekers
<1>4. CASE active' = MaxSize
  BY <1>1, <1>2, <1>4
<1>5. CASE Sought /\ GainSeekers
  <2>1. Cardinality(Seekers) <= Cardinality(Seekers')
    BY <1>2, <1>5, FS_Subset DEF GainSeekers
  <2>2. QED
    BY <1>1, <1>2, <1>3, <1>5, <2>1 DEF GainSeekers
<1>6. CASE Sought /\ SlotFreed
  <2>1. Cardinality(Seekers') = Cardinality(Seekers) + 1
    BY <1>1, <1>6, FS_AddElement DEF SlotFreed
  <2>2. QED
    BY <1>1, <1>2, <1>3, <1>6, <2>1 DEF SlotFreed
<1>7. CASE Sought /\ SlotTaken
  <2>1. Cardinality(Seekers') = Cardinality(Seekers) - 1
    BY <1>1, <1>7, FS_RemoveElement DEF SlotTaken
  <2>2. QED
    BY <1>1, <1>2, <1>3, <1>7, <2>1 DEF SlotTaken
<1>8. CASE Sought /\ Handover
  <2>1. PICK t \in Seekers, u \in Threads :
          u \notin Seekers /\ Seekers' = (Seekers \ {t}) \cup {u}
    BY <1>8 DEF Handover
  <2>2. IsFiniteSet(Seekers \ {t}) /\ Cardinality(Seekers \ {t}) = Cardinality(Seekers) - 1
    BY <1>1, FS_RemoveElement
  <2>3. Cardinality(Seekers') = Cardinality(Seekers \ {t}) + 1
    BY <2>1, <2>2, FS_AddElement
  <2>4. Cardinality(Seekers') = Cardinality(Seekers)
    BY <1>1, <2>2, <2>3
  <2>5. QED
    BY <1>1, <1>2, <1>3, <1>8, <2>4 DEF Handover
<1>9. QED
  BY <1>4, <1>5, <1>6, <1>7, <1>8, SeekersEffect

(* No free slot waits beside a sleeping caller without a thread on its way *)
(* to it (pool.rs:290, 301, 339).                                          *)
THEOREM FreeSlotsClaimedAlways == Spec => []FreeSlotsClaimed
<1>1. Init => FreeSlotsClaimed
  BY DEF Init, FreeSlotsClaimed, At
<1>2. QED
  BY <1>1, SeekersStep, InductiveInvariant, PTL DEF Spec

===============================================================================
