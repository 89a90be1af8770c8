------------------------- MODULE AsyncIslePoolProofs -------------------------
(***************************************************************************)
(* Proofs about AsyncIslePool, for any callers, VM threads and max_size:   *)
(* the types, the counter, the owners of the VMs, that a closed pool has   *)
(* nobody asleep, and that the async pool too implements SlotPool.         *)
(***************************************************************************)
EXTENDS AsyncIslePool, TLAPS, FiniteSetTheorems, SequenceTheorems

USE NoneAssumption

(***************************************************************************)
(* The inductive strengthening.                                            *)
(***************************************************************************)
\* Who has a VM in its hands, and who drains some.
SlotInv ==
  \A c \in Callers :
    /\ slot[c] # None <=> pc[c] \in {"spawn", "holding", "closing", "join"}
    /\ pc[c] \notin {"notify_waiters", "drain", "join"} => drained[c] = {}
    /\ pc[c] \in {"notify_waiters", "drain", "join"} => closed

\* A thread that is gone or told to end has no owner left but the shutdown that joins it.
VmInv ==
  \A i \in Isles : vm[i] \in {"none", "ending"} =>
    /\ i \notin idle
    /\ \A c \in Callers : i \notin drained[c] /\ (slot[c] = i => pc[c] = "join")

OwnInv == SlotInv /\ VmInv /\ ExclusiveOwner

\* A slot is claimed, idle or free.
BoundInv == active + Cardinality(idle) <= MaxSize

IInv == TypeOK /\ OwnInv /\ ActiveCovers /\ BoundInv

(***************************************************************************)
(* Facts about sets and queues.                                            *)
(***************************************************************************)
LEMMA CountedFinite == IsFiniteSet(Counted) /\ Cardinality(Counted) \in Nat
BY FiniteAssumption, FS_Subset, FS_CardinalityType DEF Counted, At

LEMMA IdleFinite ==
  ASSUME TypeOK
  PROVE  IsFiniteSet(idle) /\ Cardinality(idle) \in Nat
BY FiniteAssumption, FS_Subset, FS_CardinalityType DEF TypeOK

LEMMA CountedPc ==
  \A c \in Callers : c \in Counted <=> pc[c] \in {"spawn", "dec_active", "holding"}
BY DEF Counted, At

\* Who counts as holding a slot when one caller moves.
LEMMA CountedMoves ==
  ASSUME TypeOK, NEW c \in Callers, NEW p \in Pcs, pc' = [pc EXCEPT ![c] = p]
  PROVE  Counted' = IF p \in {"spawn", "dec_active", "holding"} THEN Counted \cup {c} ELSE Counted \ {c}
<1>1. \A d \in Callers : pc'[d] = IF d = c THEN p ELSE pc[d]
  BY DEF TypeOK
<1>2. Counted' = {d \in Callers : pc'[d] \in {"spawn", "dec_active", "holding"}}
  BY DEF Counted, At
<1>3. Counted = {d \in Callers : pc[d] \in {"spawn", "dec_active", "holding"}}
  BY DEF Counted, At
<1> QED BY <1>1, <1>2, <1>3

\* A caller in a counted place is counted: active is not zero.
LEMMA ActivePositive ==
  ASSUME TypeOK, ActiveCovers, NEW c \in Callers, pc[c] \in {"spawn", "dec_active", "holding"}
  PROVE  active \in Nat /\ active > 0 /\ active - 1 \in Nat
<1>1. c \in Counted /\ Cardinality(Counted) # 0 /\ Cardinality(Counted) \in Nat
  BY CountedPc, CountedFinite, FS_EmptySet
<1> QED BY <1>1 DEF TypeOK, ActiveCovers

LEMMA CoversLess ==
  ASSUME TypeOK, ActiveCovers, NEW c \in Callers, pc[c] \in {"spawn", "dec_active", "holding"},
         Counted' = Counted \ {c}, active' \in {active, active - 1}
  PROVE  ActiveCovers'
<1>1. Cardinality(Counted \ {c}) = Cardinality(Counted) - 1
  BY CountedPc, CountedFinite, FS_RemoveElement
<1>2. PICK n \in Nat : n = Cardinality(Counted)
  BY CountedFinite
<1>3. Cardinality(Counted') = n - 1
  BY <1>1, <1>2
<1>4. active \in Nat /\ active >= n
  BY <1>2 DEF TypeOK, ActiveCovers
<1>5. active' >= n - 1
  BY <1>4
<1> QED BY <1>3, <1>5 DEF ActiveCovers

LEMMA CoversMore ==
  ASSUME TypeOK, ActiveCovers, NEW c \in Callers, Counted' = Counted \cup {c}, active' = active + 1
  PROVE  ActiveCovers'
<1>1. PICK n \in Nat : n = Cardinality(Counted)
  BY CountedFinite
<1>2. Cardinality(Counted \cup {c}) \in {n, n + 1}
  BY <1>1, CountedFinite, FS_AddElement
<1>3. PICK m \in {n, n + 1} : m = Cardinality(Counted')
  BY <1>2
<1>4. active \in Nat /\ active >= n
  BY <1>1 DEF TypeOK, ActiveCovers
<1>5. active' >= m
  BY <1>4
<1> QED BY <1>3, <1>5 DEF ActiveCovers

LEMMA CoversSame ==
  ASSUME ActiveCovers, Counted' = Counted, active' = active
  PROVE  ActiveCovers'
BY DEF ActiveCovers

\* Claiming a slot: an idle VM becomes the claimed one, or there was room.
LEMMA BoundClaim ==
  ASSUME TypeOK, BoundInv, NEW i \in idle, idle' \subseteq idle \ {i}, active' = active + 1
  PROVE  BoundInv' /\ active < MaxSize
<1>1. PICK n \in Nat : n = Cardinality(idle)
  BY IdleFinite
<1>2. Cardinality(idle \ {i}) = n - 1 /\ IsFiniteSet(idle \ {i})
  BY <1>1, IdleFinite, FS_RemoveElement
<1>3. PICK m \in Nat : m = Cardinality(idle')
  BY <1>2, FS_Subset, FS_CardinalityType
<1>4. m <= n - 1
  BY <1>2, <1>3, FS_Subset
<1>5. active \in Nat /\ MaxSize \in Nat /\ active + n <= MaxSize
  BY <1>1, MaxSizeAssumption DEF TypeOK, BoundInv
<1>6. active' + m <= MaxSize /\ active < MaxSize
  BY <1>3, <1>4, <1>5
<1> QED BY <1>3, <1>6 DEF BoundInv

LEMMA BoundGrow ==
  ASSUME TypeOK, CanGrow({}), idle' = {}, active' = active + 1
  PROVE  BoundInv' /\ active < MaxSize
<1>1. Cardinality({}) = 0 /\ Cardinality(idle') = 0
  BY FS_EmptySet
<1>2. active \in Nat /\ MaxSize \in Nat /\ active + 0 < MaxSize
  BY <1>1, MaxSizeAssumption DEF TypeOK, CanGrow
<1>3. active' + 0 <= MaxSize /\ active < MaxSize
  BY <1>2
<1> QED BY <1>1, <1>3 DEF BoundInv

\* Nothing is claimed.
LEMMA BoundLess ==
  ASSUME TypeOK, BoundInv, idle' \subseteq idle, active' \in Nat, active' <= active
  PROVE  BoundInv'
<1>1. PICK n \in Nat : n = Cardinality(idle)
  BY IdleFinite
<1>2. PICK m \in Nat : m = Cardinality(idle')
  BY IdleFinite, FS_Subset, FS_CardinalityType
<1>3. m <= n
  BY <1>1, <1>2, IdleFinite, FS_Subset
<1>4. active \in Nat /\ MaxSize \in Nat /\ active + n <= MaxSize
  BY <1>1, MaxSizeAssumption DEF TypeOK, BoundInv
<1>5. PICK a \in Nat : a = active' /\ a <= active
  OBVIOUS
<1>6. a + m <= MaxSize
  <2>1. PICK b \in Nat, max \in Nat : b = active /\ max = MaxSize /\ b + n <= max /\ a <= b
    BY <1>4, <1>5
  <2>2. a + m <= max
    BY <1>3, <2>1
  <2> QED BY <2>1, <2>2
<1> QED BY <1>2, <1>5, <1>6 DEF BoundInv

\* A claimed slot becomes an idle one.
LEMMA BoundReturn ==
  ASSUME TypeOK, BoundInv, NEW i \in Isles \ idle, idle' = idle \cup {i}, active > 0, active' = active - 1
  PROVE  BoundInv'
<1>1. PICK n \in Nat : n = Cardinality(idle)
  BY IdleFinite
<1>2. Cardinality(idle') = n + 1
  BY <1>1, IdleFinite, FS_AddElement
<1>3. active \in Nat /\ MaxSize \in Nat /\ active + n <= MaxSize
  BY <1>1, MaxSizeAssumption DEF TypeOK, BoundInv
<1>4. active' + (n + 1) <= MaxSize
  BY <1>3
<1> QED BY <1>2, <1>4 DEF BoundInv

LEMMA NotifyTypes ==
  ASSUME TypeOK, NotifyOne
  PROVE  permit' \in BOOLEAN /\ queue' \in Seq(Callers) /\ signal' \in [Callers -> Signals]
<1>1. CASE queue = <<>> /\ permit' = TRUE /\ UNCHANGED <<queue, signal>>
  BY <1>1 DEF TypeOK
<1>2. CASE NotifyRegistered
  <2>1. queue # <<>> /\ queue \in Seq(Callers)
    BY <1>2 DEF NotifyRegistered, TypeOK
  <2>2. Head(queue) \in Callers /\ Tail(queue) \in Seq(Callers)
    BY <2>1, HeadTailProperties
  <2> QED BY <1>2, <2>2 DEF NotifyRegistered, TypeOK, Signals
<1> QED BY <1>1, <1>2 DEF NotifyOne

LEMMA Removed ==
  ASSUME NEW S, NEW q \in Seq(S), NEW k \in 1..Len(q)
  PROVE  RemoveAt(q, k) \in Seq(S)
<1>1. SubSeq(q, 1, k - 1) \in Seq(S) /\ SubSeq(q, k + 1, Len(q)) \in Seq(S)
  OBVIOUS
<1>2. \A a, b \in Seq(S) : a \o b \in Seq(S)
  BY ConcatProperties
<1> QED BY <1>1, <1>2 DEF RemoveAt

(***************************************************************************)
(* The Notify: no slot and no VM moves.                                    *)
(***************************************************************************)
LEMMA QuietMove ==
  ASSUME IInv, NEW c \in Callers, pc[c] \in {"out", "acquire", "poll", "wait"},
         NEW p \in {"out", "acquire", "poll", "wait"}, Goto(c, p), UNCHANGED <<poolVars, slot, drained, vm>>
  PROVE  OwnInv' /\ ActiveCovers' /\ BoundInv'
<1>0. TypeOK /\ OwnInv /\ ActiveCovers /\ BoundInv /\ p \in Pcs
  BY DEF IInv, Pcs
<1>1. /\ \A d \in Callers : pc'[d] = IF d = c THEN p ELSE pc[d]
      /\ UNCHANGED <<idle, active, closed, slot, drained, vm>>
  BY <1>0 DEF Goto, TypeOK, poolVars
<1>2. SlotInv'
  BY <1>0, <1>1 DEF OwnInv, SlotInv
<1>3. VmInv'
  BY <1>0, <1>1 DEF OwnInv, VmInv
<1>4. ExclusiveOwner'
  BY <1>0, <1>1 DEF OwnInv, ExclusiveOwner
<1>5. Counted' = Counted
  <2>1. c \notin Counted
    BY CountedPc
  <2>2. Counted' = Counted \ {c}
    BY <1>0, CountedMoves DEF Goto
  <2> QED BY <2>1, <2>2
<1>6. ActiveCovers'
  BY <1>0, <1>1, <1>5, CoversSame
<1>7. BoundInv'
  BY <1>0, <1>1 DEF BoundInv
<1> QED BY <1>2, <1>3, <1>4, <1>6, <1>7 DEF OwnInv

LEMMA PollNotifiedKeeps ==
  ASSUME IInv, NEW c \in Callers, PollNotified(c)
  PROVE  IInv'
<1>1. TypeOK'
  <2>1. Append(queue, c) \in Seq(Callers)
    BY DEF IInv, TypeOK
  <2> QED BY <2>1 DEF IInv, PollNotified, TypeOK, Goto, Pcs, poolVars
<1>2. OwnInv' /\ ActiveCovers' /\ BoundInv'
  BY QuietMove DEF PollNotified
<1> QED BY <1>1, <1>2 DEF IInv

LEMMA WakeKeeps ==
  ASSUME IInv, NEW c \in Callers, Wake(c)
  PROVE  IInv'
<1>1. TypeOK'
  BY DEF IInv, Wake, TypeOK, Goto, Pcs, Signals, poolVars
<1>2. OwnInv' /\ ActiveCovers' /\ BoundInv'
  BY QuietMove DEF Wake
<1> QED BY <1>1, <1>2 DEF IInv

LEMMA LeaveQueueKeeps ==
  ASSUME IInv, NEW c \in Callers, LeaveQueue(c)
  PROVE  IInv'
<1>0. TypeOK
  BY DEF IInv
<1>1. queue' \in Seq(Callers) /\ permit' \in BOOLEAN /\ signal' \in [Callers -> Signals]
  <2>1. CASE signal[c] = "one" /\ queue = <<>>
    BY <1>0, <2>1 DEF LeaveQueue, TypeOK, Signals
  <2>2. CASE signal[c] = "one" /\ queue # <<>>
    <3>1. Head(queue) \in Callers /\ Tail(queue) \in Seq(Callers)
      BY <1>0, <2>2, HeadTailProperties DEF TypeOK
    <3> QED BY <1>0, <2>2, <3>1 DEF LeaveQueue, TypeOK, Signals
  <2>3. CASE signal[c] # "one"
    <3>1. queue' \in Seq(Callers)
      BY <1>0, <2>3, Removed DEF LeaveQueue, TypeOK
    <3> QED BY <1>0, <2>3, <3>1 DEF LeaveQueue, TypeOK, Signals
  <2> QED BY <2>1, <2>2, <2>3
<1>2. TypeOK'
  BY <1>0, <1>1 DEF LeaveQueue, TypeOK, Goto, Pcs, poolVars
<1>3. OwnInv' /\ ActiveCovers' /\ BoundInv'
  BY QuietMove DEF LeaveQueue
<1> QED BY <1>2, <1>3 DEF IInv

LEMMA CheckoutKeeps ==
  ASSUME IInv, NEW c \in Callers, NEW k \in Kinds, Checkout(c, k)
  PROVE  IInv'
<1>1. TypeOK'
  BY DEF IInv, Checkout, TypeOK, Goto, Pcs, poolVars
<1>2. OwnInv' /\ ActiveCovers' /\ BoundInv'
  BY QuietMove DEF Checkout
<1> QED BY <1>1, <1>2 DEF IInv

(***************************************************************************)
(* Claiming a slot.                                                        *)
(***************************************************************************)
LEMMA TakeIdleKeeps ==
  ASSUME IInv, NEW c \in Callers, pc[c] = "acquire", TakeIdle(c), UNCHANGED <<strategy, notifyVars, kind, drained>>
  PROVE  IInv'
<1>0. TypeOK /\ SlotInv /\ VmInv /\ ExclusiveOwner /\ ActiveCovers /\ BoundInv
  BY DEF IInv, OwnInv
<1>1. PICK i \in idle, skipped \in SUBSET {d \in idle : ~IsAlive(d)} :
        /\ IsAlive(i)
        /\ idle' = idle \ (skipped \cup {i})
        /\ vm' = [d \in Isles |-> IF d \in skipped THEN "none" ELSE vm[d]]
        /\ slot' = [slot EXCEPT ![c] = i]
  BY DEF TakeIdle
<1>2. /\ active' = active + 1 /\ pc' = [pc EXCEPT ![c] = "holding"] /\ closed' = closed
      /\ strategy' = strategy /\ permit' = permit /\ queue' = queue /\ stale' = stale /\ signal' = signal
      /\ kind' = kind /\ drained' = drained /\ i \in Isles /\ skipped \subseteq Isles
  BY <1>0 DEF TakeIdle, Goto, notifyVars, TypeOK
<1>3. TypeOK'
  BY <1>0, <1>1, <1>2 DEF TypeOK, Pcs, VmStates
<1>4. /\ \A d \in Callers : pc'[d] = IF d = c THEN "holding" ELSE pc[d]
      /\ \A d \in Callers : slot'[d] = IF d = c THEN i ELSE slot[d]
      /\ \A j \in Isles : vm'[j] = IF j \in skipped THEN "none" ELSE vm[j]
  BY <1>0, <1>1, <1>2 DEF TypeOK
<1>5. SlotInv'
  BY <1>0, <1>2, <1>4 DEF SlotInv
<1>6. VmInv'
  <2> SUFFICES ASSUME NEW j \in Isles, vm'[j] \in {"none", "ending"}
               PROVE  j \notin idle' /\ \A d \in Callers : j \notin drained'[d] /\ (slot'[d] = j => pc'[d] = "join")
    BY DEF VmInv
  <2>1. CASE j \in skipped
    <3>1. j # i /\ j \in idle /\ j \notin idle'
      BY <1>1, <2>1
    <3> QED BY <1>0, <1>2, <1>4, <3>1 DEF ExclusiveOwner
  <2>2. CASE j \notin skipped
    <3>1. vm[j] \in {"none", "ending"} /\ j # i
      BY <1>1, <1>2, <1>4, <2>2 DEF IsAlive
    <3> QED BY <1>0, <1>1, <1>2, <1>4, <3>1 DEF VmInv, SlotInv
  <2> QED BY <2>1, <2>2
<1>7. ExclusiveOwner'
  BY <1>0, <1>1, <1>2, <1>4 DEF ExclusiveOwner
<1>8. ActiveCovers'
  BY <1>0, <1>2, CountedMoves, CoversMore DEF Pcs
<1>9. BoundInv'
  BY <1>0, <1>1, <1>2, BoundClaim
<1> QED BY <1>3, <1>5, <1>6, <1>7, <1>8, <1>9 DEF IInv, OwnInv

LEMMA GrowKeeps ==
  ASSUME IInv, NEW c \in Callers, pc[c] = "acquire", Grow(c), UNCHANGED <<strategy, notifyVars, kind, drained>>
  PROVE  IInv'
<1>0. TypeOK /\ SlotInv /\ VmInv /\ ExclusiveOwner /\ ActiveCovers /\ BoundInv
  BY DEF IInv, OwnInv
<1>1. PICK i \in Isles :
        /\ vm[i] = "none"
        /\ slot' = [slot EXCEPT ![c] = i]
        /\ vm' = [d \in Isles |-> IF d = i THEN "init" ELSE IF d \in idle THEN "none" ELSE vm[d]]
  BY DEF Grow
<1>2. /\ active' = active + 1 /\ pc' = [pc EXCEPT ![c] = "spawn"] /\ closed' = closed /\ ~closed /\ idle' = {}
      /\ strategy' = strategy /\ permit' = permit /\ queue' = queue /\ stale' = stale /\ signal' = signal
      /\ kind' = kind /\ drained' = drained
  BY DEF Grow, Goto, notifyVars, AllIdleDead
<1>3. TypeOK'
  BY <1>0, <1>1, <1>2 DEF TypeOK, Pcs, VmStates
<1>4. /\ \A d \in Callers : pc'[d] = IF d = c THEN "spawn" ELSE pc[d]
      /\ \A d \in Callers : slot'[d] = IF d = c THEN i ELSE slot[d]
      /\ \A j \in Isles : vm'[j] = IF j = i THEN "init" ELSE IF j \in idle THEN "none" ELSE vm[j]
  BY <1>0, <1>1, <1>2 DEF TypeOK
<1>5. SlotInv'
  BY <1>0, <1>2, <1>4 DEF SlotInv
<1>6. \A d \in Callers : slot[d] # i /\ i \notin drained[d]
  BY <1>0, <1>1, <1>2 DEF VmInv, SlotInv
<1>7. VmInv'
  <2> SUFFICES ASSUME NEW j \in Isles, vm'[j] \in {"none", "ending"}
               PROVE  j \notin idle' /\ \A d \in Callers : j \notin drained'[d] /\ (slot'[d] = j => pc'[d] = "join")
    BY DEF VmInv
  <2>1. CASE j \in idle
    BY <1>0, <1>2, <1>4, <2>1 DEF ExclusiveOwner
  <2>2. CASE j \notin idle
    BY <1>0, <1>2, <1>4, <2>2 DEF VmInv
  <2> QED BY <2>1, <2>2
<1>8. ExclusiveOwner'
  BY <1>0, <1>1, <1>2, <1>4, <1>6 DEF ExclusiveOwner, SlotInv
<1>9. ActiveCovers'
  BY <1>0, <1>2, CountedMoves, CoversMore DEF Pcs
<1>10. BoundInv'
  BY <1>0, <1>2, BoundGrow DEF Grow
<1> QED BY <1>3, <1>5, <1>7, <1>8, <1>9, <1>10 DEF IInv, OwnInv

LEMMA NeedWaitKeeps ==
  ASSUME IInv, NEW c \in Callers, pc[c] = "acquire", NeedWait(c), UNCHANGED <<strategy, notifyVars, kind, drained>>
  PROVE  IInv'
<1>0. TypeOK /\ SlotInv /\ VmInv /\ ExclusiveOwner /\ ActiveCovers /\ BoundInv
  BY DEF IInv, OwnInv
<1>1. PICK p \in {"poll", "out"} : pc' = [pc EXCEPT ![c] = p]
  BY DEF NeedWait, Goto
<1>2. /\ vm' = [d \in Isles |-> IF d \in idle THEN "none" ELSE vm[d]] /\ idle' = {}
      /\ active' = active /\ closed' = closed /\ slot' = slot
      /\ strategy' = strategy /\ permit' = permit /\ queue' = queue /\ stale' = stale /\ signal' = signal
      /\ kind' = kind /\ drained' = drained
  BY DEF NeedWait, notifyVars
<1>3. TypeOK'
  BY <1>0, <1>1, <1>2 DEF TypeOK, Pcs, VmStates
<1>4. /\ \A d \in Callers : pc'[d] = IF d = c THEN p ELSE pc[d]
      /\ \A j \in Isles : vm'[j] = IF j \in idle THEN "none" ELSE vm[j]
  BY <1>0, <1>1, <1>2 DEF TypeOK
<1>5. SlotInv'
  BY <1>0, <1>2, <1>4 DEF SlotInv
<1>6. VmInv'
  BY <1>0, <1>2, <1>4 DEF VmInv, ExclusiveOwner
<1>7. ExclusiveOwner'
  BY <1>0, <1>2, <1>4 DEF ExclusiveOwner
<1>8. ActiveCovers'
  <2>1. c \notin Counted /\ Counted' = Counted \ {c}
    BY <1>0, <1>1, CountedPc, CountedMoves DEF Pcs
  <2>2. Counted' = Counted
    BY <2>1
  <2> QED BY <1>0, <1>2, <2>2, CoversSame
<1>9. BoundInv'
  BY <1>0, <1>2, BoundLess DEF TypeOK
<1> QED BY <1>3, <1>5, <1>6, <1>7, <1>8, <1>9 DEF IInv, OwnInv

LEMMA TryAcquireKeeps ==
  ASSUME IInv, NEW c \in Callers, TryAcquire(c)
  PROVE  IInv'
<1>1. CASE FindClosed(c)
  <2>1. TypeOK'
    BY <1>1 DEF IInv, TryAcquire, FindClosed, TypeOK, Goto, Pcs, poolVars, notifyVars
  <2>2. OwnInv' /\ ActiveCovers' /\ BoundInv'
    BY <1>1, QuietMove DEF TryAcquire, FindClosed
  <2> QED BY <2>1, <2>2 DEF IInv
<1> QED BY <1>1, TakeIdleKeeps, GrowKeeps, NeedWaitKeeps DEF TryAcquire

LEMMA SpawnSlotKeeps ==
  ASSUME IInv, NEW c \in Callers, SpawnSlot(c)
  PROVE  IInv'
<1>0. TypeOK /\ SlotInv /\ VmInv /\ ExclusiveOwner /\ ActiveCovers /\ BoundInv
  BY DEF IInv, OwnInv
<1>1. /\ pc[c] = "spawn" /\ slot[c] \in Isles /\ drained[c] = {}
      /\ idle' = idle /\ active' = active /\ closed' = closed
      /\ strategy' = strategy /\ permit' = permit /\ queue' = queue /\ stale' = stale /\ signal' = signal
      /\ kind' = kind /\ drained' = drained
  BY <1>0 DEF SpawnSlot, poolVars, notifyVars, SlotInv, TypeOK
<1>2. PICK p \in {"holding", "dec_active"}, state \in {"open", "none"}, i \in Isles \cup {None} :
        /\ pc' = [pc EXCEPT ![c] = p] /\ vm' = [vm EXCEPT ![slot[c]] = state] /\ slot' = [slot EXCEPT ![c] = i]
        /\ \/ p = "holding" /\ state = "open" /\ i = slot[c]
           \/ p = "dec_active" /\ state = "none" /\ i = None
  <2>1. slot = [slot EXCEPT ![c] = slot[c]]
    BY <1>0 DEF TypeOK
  <2> QED BY <1>1, <2>1 DEF SpawnSlot, Goto
<1>3. TypeOK'
  BY <1>0, <1>1, <1>2 DEF TypeOK, Pcs, VmStates
<1>4. /\ \A d \in Callers : pc'[d] = IF d = c THEN p ELSE pc[d]
      /\ \A d \in Callers : slot'[d] = IF d = c THEN i ELSE slot[d]
      /\ \A j \in Isles : vm'[j] = IF j = slot[c] THEN state ELSE vm[j]
  BY <1>0, <1>1, <1>2 DEF TypeOK
<1>5. SlotInv'
  BY <1>0, <1>1, <1>2, <1>4 DEF SlotInv
<1>6. VmInv'
  BY <1>0, <1>1, <1>2, <1>4 DEF VmInv, ExclusiveOwner
<1>7. ExclusiveOwner'
  <2>1. i \in {slot[c], None} /\ \A d \in Callers : slot'[d] \in {slot[d], None}
    BY <1>2, <1>4
  <2>2. None \notin idle /\ \A d \in Callers : None \notin drained[d]
    BY <1>0 DEF TypeOK
  <2> QED BY <1>0, <1>1, <2>1, <2>2 DEF ExclusiveOwner
<1>8. ActiveCovers'
  <2>1. c \in Counted /\ Counted' = Counted \cup {c}
    BY <1>0, <1>1, <1>2, CountedPc, CountedMoves DEF Pcs
  <2>2. Counted' = Counted
    BY <2>1
  <2> QED BY <1>0, <1>1, <2>2, CoversSame
<1>9. BoundInv'
  BY <1>0, <1>1 DEF BoundInv
<1> QED BY <1>3, <1>5, <1>6, <1>7, <1>8, <1>9 DEF IInv, OwnInv

(***************************************************************************)
(* Giving a slot up.                                                       *)
(***************************************************************************)
LEMMA DecActiveKeeps ==
  ASSUME IInv, NEW c \in Callers, DecActive(c)
  PROVE  IInv'
<1>0. TypeOK /\ SlotInv /\ VmInv /\ ExclusiveOwner /\ ActiveCovers /\ BoundInv
  BY DEF IInv, OwnInv
<1>1. /\ pc[c] = "dec_active" /\ active' = active - 1 /\ pc' = [pc EXCEPT ![c] = "out"]
      /\ strategy' = strategy /\ idle' = idle /\ closed' = closed /\ stale' = stale /\ kind' = kind
      /\ slot' = slot /\ drained' = drained /\ vm' = vm
  BY DEF DecActive, Goto
<1>2. permit' \in BOOLEAN /\ queue' \in Seq(Callers) /\ signal' \in [Callers -> Signals]
  BY <1>0, NotifyTypes DEF DecActive
<1>3. active - 1 \in Nat
  BY <1>0, <1>1, ActivePositive
<1>4. TypeOK'
  BY <1>0, <1>1, <1>2, <1>3 DEF TypeOK, Pcs
<1>5. \A d \in Callers : pc'[d] = IF d = c THEN "out" ELSE pc[d]
  BY <1>0, <1>1 DEF TypeOK
<1>6. SlotInv' /\ VmInv' /\ ExclusiveOwner'
  <2>1. SlotInv'
    BY <1>0, <1>1, <1>5 DEF SlotInv
  <2>2. VmInv'
    BY <1>0, <1>1, <1>5 DEF VmInv
  <2>3. ExclusiveOwner'
    BY <1>0, <1>1 DEF ExclusiveOwner
  <2> QED BY <2>1, <2>2, <2>3
<1>7. ActiveCovers'
  BY <1>0, <1>1, CountedMoves, CoversLess DEF Pcs
<1>8. BoundInv'
  BY <1>0, <1>1, <1>3, BoundLess DEF TypeOK
<1> QED BY <1>4, <1>6, <1>7, <1>8 DEF IInv, OwnInv

\* The future is dropped while it spawns, or a guard's VM is told to end.
LEMMA EndsVmKeeps ==
  ASSUME IInv, NEW c \in Callers, pc[c] \in {"spawn", "closing"}, Goto(c, "out"),
         vm' = [vm EXCEPT ![slot[c]] = "ending"], slot' = [slot EXCEPT ![c] = None],
         UNCHANGED <<strategy, poolVars, stale, kind, drained>>,
         permit' \in BOOLEAN, queue' \in Seq(Callers), signal' \in [Callers -> Signals]
  PROVE  IInv'
<1>0. TypeOK /\ SlotInv /\ VmInv /\ ExclusiveOwner /\ ActiveCovers /\ BoundInv
  BY DEF IInv, OwnInv
<1>1. /\ slot[c] \in Isles /\ drained[c] = {} /\ pc' = [pc EXCEPT ![c] = "out"]
      /\ idle' = idle /\ active' = active /\ closed' = closed
      /\ strategy' = strategy /\ stale' = stale /\ kind' = kind /\ drained' = drained
  BY <1>0 DEF poolVars, SlotInv, TypeOK, Goto
<1>2. TypeOK'
  BY <1>0, <1>1 DEF TypeOK, Pcs, VmStates
<1>3. /\ \A d \in Callers : pc'[d] = IF d = c THEN "out" ELSE pc[d]
      /\ \A d \in Callers : slot'[d] = IF d = c THEN None ELSE slot[d]
      /\ \A j \in Isles : vm'[j] = IF j = slot[c] THEN "ending" ELSE vm[j]
  BY <1>0, <1>1 DEF TypeOK
<1>4. SlotInv'
  BY <1>0, <1>1, <1>3 DEF SlotInv
<1>5. VmInv'
  BY <1>0, <1>1, <1>3 DEF VmInv, ExclusiveOwner
<1>6. ExclusiveOwner'
  <2>1. None \notin idle /\ \A d \in Callers : None \notin drained[d]
    BY <1>0 DEF TypeOK
  <2> QED BY <1>0, <1>1, <1>3, <2>1 DEF ExclusiveOwner
<1>7. ActiveCovers'
  <2>1. Counted' = Counted \ {c}
    BY <1>0, <1>1, CountedMoves DEF Pcs
  <2>2. CASE pc[c] = "spawn"
    BY <1>0, <1>1, <2>1, <2>2, CoversLess
  <2>3. CASE pc[c] = "closing"
    <3>1. Counted' = Counted
      BY <2>1, <2>3, CountedPc
    <3> QED BY <1>0, <1>1, <3>1, CoversSame
  <2> QED BY <2>2, <2>3
<1>8. BoundInv'
  BY <1>0, <1>1 DEF BoundInv
<1> QED BY <1>2, <1>4, <1>5, <1>6, <1>7, <1>8 DEF IInv, OwnInv

LEMMA DropSpawnKeeps ==
  ASSUME IInv, NEW c \in Callers, DropSpawn(c) \/ SpawnDriverShutdown(c)
  PROVE  IInv'
<1>1. CASE DropSpawn(c)
  BY <1>1, EndsVmKeeps DEF DropSpawn, notifyVars, IInv, TypeOK
<1>2. CASE SpawnDriverShutdown(c)
  BY <1>2, EndsVmKeeps, NotifyTypes DEF SpawnDriverShutdown, IInv
<1> QED BY <1>1, <1>2

\* A guard that does not go back to the idle list.
LEMMA ToClosing ==
  ASSUME IInv, NEW c \in Callers, pc[c] = "holding", active' = active - 1, Goto(c, "closing"),
         UNCHANGED <<strategy, idle, closed, notifyVars, kind, slot, drained, vm>>
  PROVE  IInv'
<1>0. TypeOK /\ SlotInv /\ VmInv /\ ExclusiveOwner /\ ActiveCovers /\ BoundInv
  BY DEF IInv, OwnInv
<1>1. active - 1 \in Nat /\ pc' = [pc EXCEPT ![c] = "closing"]
  BY <1>0, ActivePositive DEF Goto
<1>2. TypeOK'
  BY <1>0, <1>1 DEF TypeOK, Pcs, notifyVars
<1>3. \A d \in Callers : pc'[d] = IF d = c THEN "closing" ELSE pc[d]
  BY <1>0, <1>1 DEF TypeOK
<1>4. SlotInv'
  BY <1>0, <1>3 DEF SlotInv
<1>5. VmInv'
  BY <1>0, <1>3 DEF VmInv
<1>6. ExclusiveOwner'
  BY <1>0 DEF ExclusiveOwner
<1>7. ActiveCovers'
  BY <1>0, <1>1, CountedMoves, CoversLess DEF Pcs
<1>8. BoundInv'
  BY <1>0, <1>1, BoundLess DEF TypeOK
<1> QED BY <1>2, <1>4, <1>5, <1>6, <1>7, <1>8 DEF IInv, OwnInv

LEMMA ReturnSlotWarmKeeps ==
  ASSUME IInv, NEW c \in Callers, ReturnSlotWarm(c)
  PROVE  IInv'
<1>0. TypeOK /\ SlotInv /\ VmInv /\ ExclusiveOwner /\ ActiveCovers /\ BoundInv
  BY DEF IInv, OwnInv
<1>1. CASE Reusable(c) /\ idle' = idle \cup {slot[c]}
  <2>1. /\ pc[c] = "holding" /\ active' = active - 1 /\ slot' = [slot EXCEPT ![c] = None]
        /\ pc' = [pc EXCEPT ![c] = "out"] /\ NotifyOne
        /\ strategy' = strategy /\ closed' = closed /\ stale' = stale /\ kind' = kind /\ drained' = drained /\ vm' = vm
    BY <1>1 DEF ReturnSlotWarm, Goto
  <2>2. slot[c] \in Isles \ idle /\ drained[c] = {} /\ active > 0 /\ active - 1 \in Nat /\ vm[slot[c]] = "open"
    BY <1>0, <1>1, <2>1, ActivePositive DEF SlotInv, TypeOK, ExclusiveOwner, Reusable, IsAlive
  <2>3. permit' \in BOOLEAN /\ queue' \in Seq(Callers) /\ signal' \in [Callers -> Signals]
    BY <1>0, <2>1, NotifyTypes
  <2>4. TypeOK'
    BY <1>0, <1>1, <2>1, <2>2, <2>3 DEF TypeOK, Pcs
  <2>5. /\ \A d \in Callers : pc'[d] = IF d = c THEN "out" ELSE pc[d]
        /\ \A d \in Callers : slot'[d] = IF d = c THEN None ELSE slot[d]
    BY <1>0, <2>1 DEF TypeOK
  <2>6. SlotInv'
    BY <1>0, <2>1, <2>5 DEF SlotInv
  <2>7. VmInv'
    BY <1>0, <1>1, <2>1, <2>2, <2>5 DEF VmInv
  <2>8. ExclusiveOwner'
    <3>1. None \notin idle' /\ \A d \in Callers : None \notin drained[d]
      BY <1>0, <2>4 DEF TypeOK
    <3>2. \A d \in Callers : slot[c] \notin drained[d] /\ (d # c => slot[d] # slot[c])
      BY <1>0, <2>2 DEF ExclusiveOwner
    <3> QED BY <1>0, <1>1, <2>1, <2>5, <3>1, <3>2 DEF ExclusiveOwner
  <2>9. ActiveCovers'
    BY <1>0, <2>1, CountedMoves, CoversLess DEF Pcs
  <2>10. BoundInv'
    BY <1>0, <1>1, <2>1, <2>2, BoundReturn
  <2> QED BY <2>4, <2>6, <2>7, <2>8, <2>9, <2>10 DEF IInv, OwnInv
<1>2. CASE ~Reusable(c) /\ Goto(c, "closing") /\ UNCHANGED <<idle, permit, queue, signal, slot>>
  <2>1. pc[c] = "holding" /\ active' = active - 1 /\ UNCHANGED <<strategy, closed, stale, kind, drained, vm>>
    BY DEF ReturnSlotWarm
  <2> QED BY <1>2, <2>1, ToClosing DEF notifyVars
<1> QED BY <1>1, <1>2 DEF ReturnSlotWarm

LEMMA DiscardSlotKeeps ==
  ASSUME IInv, NEW c \in Callers, DiscardSlot(c)
  PROVE  IInv'
BY ToClosing DEF DiscardSlot

(***************************************************************************)
(* shutdown, and the threads.                                              *)
(***************************************************************************)
\* A caller in shutdown() moves on; no slot is claimed or given up.
LEMMA UncountedMove ==
  ASSUME IInv, NEW c \in Callers, pc[c] \in Pcs \ {"spawn", "dec_active", "holding"},
         NEW p \in Pcs \ {"spawn", "dec_active", "holding"}, Goto(c, p), idle' \subseteq idle, active' = active
  PROVE  ActiveCovers' /\ BoundInv'
<1>0. TypeOK /\ ActiveCovers /\ BoundInv
  BY DEF IInv
<1>1. Counted' = Counted
  <2>1. c \notin Counted
    BY CountedPc
  <2>2. Counted' = Counted \ {c}
    BY <1>0, CountedMoves DEF Goto
  <2> QED BY <2>1, <2>2
<1>2. ActiveCovers'
  BY <1>0, <1>1, CoversSame
<1>3. BoundInv'
  BY <1>0, BoundLess DEF TypeOK
<1> QED BY <1>2, <1>3

LEMMA ShutdownKeeps ==
  ASSUME IInv, NEW c \in Callers, Shutdown(c)
  PROVE  IInv'
<1>0. TypeOK /\ SlotInv /\ VmInv /\ ExclusiveOwner
  BY DEF IInv, OwnInv
<1>1. /\ pc[c] = "out" /\ closed' = TRUE /\ drained' = [drained EXCEPT ![c] = idle] /\ idle' = {}
      /\ pc' = [pc EXCEPT ![c] = "notify_waiters"] /\ slot' = slot /\ vm' = vm
      /\ UNCHANGED <<strategy, active, permit, queue, stale, signal, kind>>
  BY DEF Shutdown, Goto, notifyVars
<1>2. TypeOK'
  BY <1>0, <1>1 DEF TypeOK, Pcs
<1>3. /\ \A d \in Callers : pc'[d] = IF d = c THEN "notify_waiters" ELSE pc[d]
      /\ \A d \in Callers : drained'[d] = IF d = c THEN idle ELSE drained[d]
  BY <1>0, <1>1 DEF TypeOK
<1>4. SlotInv'
  BY <1>0, <1>1, <1>3 DEF SlotInv
<1>5. VmInv'
  BY <1>0, <1>1, <1>3 DEF VmInv
<1>6. ExclusiveOwner'
  BY <1>0, <1>1, <1>3 DEF ExclusiveOwner
<1>7. ActiveCovers' /\ BoundInv'
  BY <1>1, UncountedMove DEF Goto, Pcs
<1> QED BY <1>2, <1>4, <1>5, <1>6, <1>7 DEF IInv, OwnInv

LEMMA WakeAllKeeps ==
  ASSUME IInv, NEW c \in Callers, WakeAll(c)
  PROVE  IInv'
<1>0. TypeOK /\ SlotInv /\ VmInv /\ ExclusiveOwner
  BY DEF IInv, OwnInv
<1>1. /\ pc[c] = "notify_waiters" /\ pc' = [pc EXCEPT ![c] = "drain"] /\ NotifyWaiters
      /\ UNCHANGED <<strategy, idle, active, closed, kind, slot, drained, vm>>
  BY DEF WakeAll, Goto, poolVars
<1>2. signal' \in [Callers -> Signals] /\ queue' = <<>> /\ stale' \subseteq Callers /\ permit' = permit
  BY <1>0, <1>1 DEF NotifyWaiters, TypeOK, Signals, At
<1>3. TypeOK'
  <2>1. <<>> \in Seq(Callers)
    OBVIOUS
  <2> QED BY <1>0, <1>1, <1>2, <2>1 DEF TypeOK, Pcs
<1>4. \A d \in Callers : pc'[d] = IF d = c THEN "drain" ELSE pc[d]
  BY <1>0, <1>1 DEF TypeOK
<1>5. SlotInv'
  BY <1>0, <1>1, <1>4 DEF SlotInv
<1>6. VmInv'
  BY <1>0, <1>1, <1>4 DEF VmInv
<1>7. ExclusiveOwner'
  BY <1>0, <1>1 DEF ExclusiveOwner
<1>8. ActiveCovers' /\ BoundInv'
  BY <1>1, UncountedMove DEF Goto, Pcs
<1> QED BY <1>3, <1>5, <1>6, <1>7, <1>8 DEF IInv, OwnInv

LEMMA DrainOneKeeps ==
  ASSUME IInv, NEW c \in Callers, DrainOne(c)
  PROVE  IInv'
<1>0. TypeOK /\ SlotInv /\ VmInv /\ ExclusiveOwner
  BY DEF IInv, OwnInv
<1>1. PICK i \in drained[c] :
        /\ drained' = [drained EXCEPT ![c] = @ \ {i}]
        /\ slot' = [slot EXCEPT ![c] = i] /\ vm' = [vm EXCEPT ![i] = "ending"]
  BY DEF DrainOne
<1>2. /\ pc[c] = "drain" /\ pc' = [pc EXCEPT ![c] = "join"] /\ i \in Isles /\ slot[c] = None
      /\ UNCHANGED <<strategy, idle, active, closed, permit, queue, stale, signal, kind>>
  BY <1>0 DEF DrainOne, Goto, poolVars, notifyVars, SlotInv, TypeOK
<1>3. TypeOK'
  BY <1>0, <1>1, <1>2 DEF TypeOK, Pcs, VmStates
<1>4. /\ \A d \in Callers : pc'[d] = IF d = c THEN "join" ELSE pc[d]
      /\ \A d \in Callers : slot'[d] = IF d = c THEN i ELSE slot[d]
      /\ \A d \in Callers : drained'[d] = IF d = c THEN drained[c] \ {i} ELSE drained[d]
      /\ \A j \in Isles : vm'[j] = IF j = i THEN "ending" ELSE vm[j]
  BY <1>0, <1>1, <1>2 DEF TypeOK
<1>5. SlotInv'
  BY <1>0, <1>2, <1>4 DEF SlotInv
<1>6. i \notin idle /\ \A d \in Callers : d # c => i \notin drained[d] /\ slot[d] # i
  BY <1>0, <1>1 DEF ExclusiveOwner
<1>7. VmInv'
  BY <1>0, <1>2, <1>4, <1>6 DEF VmInv
<1>8. ExclusiveOwner'
  <2>1. \A d, e \in Callers : d # e => drained'[d] \cap drained'[e] = {}
    BY <1>0, <1>4 DEF ExclusiveOwner
  <2>2. \A d, e \in Callers : d # e => slot'[d] \notin drained'[e] /\ (slot'[d] = slot'[e] => slot'[d] = None)
    BY <1>0, <1>4, <1>6 DEF ExclusiveOwner
  <2>3. \A d \in Callers : slot'[d] \notin idle' /\ slot'[d] \notin drained'[d] /\ drained'[d] \cap idle' = {}
    BY <1>0, <1>2, <1>4, <1>6 DEF ExclusiveOwner
  <2> QED BY <2>1, <2>2, <2>3 DEF ExclusiveOwner
<1>9. ActiveCovers' /\ BoundInv'
  BY <1>2, UncountedMove DEF Goto, Pcs
<1> QED BY <1>3, <1>5, <1>7, <1>8, <1>9 DEF IInv, OwnInv

\* The join of a VM is over, and with it perhaps the shutdown.
LEMMA DrainJoinKeeps ==
  ASSUME IInv, NEW c \in Callers, DrainJoin(c) \/ DropShutdown(c) \/ ShutdownDone(c)
  PROVE  IInv'
<1>0. TypeOK /\ SlotInv /\ VmInv /\ ExclusiveOwner
  BY DEF IInv, OwnInv
<1>1. PICK p \in {"drain", "out"}, gone \in SUBSET drained[c] :
        /\ pc[c] \in {"drain", "join"} /\ pc' = [pc EXCEPT ![c] = p]
        /\ vm' = [j \in Isles |-> IF j \in gone THEN "ending" ELSE vm[j]]
        /\ drained' = [drained EXCEPT ![c] = @ \ gone] /\ (p = "out" => gone = drained[c])
        /\ slot' = [slot EXCEPT ![c] = None]
        /\ UNCHANGED <<strategy, idle, active, closed, permit, queue, stale, signal, kind>>
  <2>1. drained = [drained EXCEPT ![c] = @ \ {}] /\ vm = [j \in Isles |-> IF j \in {} THEN "ending" ELSE vm[j]]
    BY <1>0 DEF TypeOK
  <2>2. CASE DrainJoin(c) \/ ShutdownDone(c)
    <3>1. CASE DrainJoin(c)
      <4>1. drained' = [drained EXCEPT ![c] = @ \ {}] /\ vm' = [j \in Isles |-> IF j \in {} THEN "ending" ELSE vm[j]]
        BY <2>1, <3>1 DEF DrainJoin
      <4>2. /\ pc[c] = "join" /\ pc' = [pc EXCEPT ![c] = "drain"] /\ slot' = [slot EXCEPT ![c] = None]
            /\ UNCHANGED <<strategy, idle, active, closed, permit, queue, stale, signal, kind>>
        BY <3>1 DEF DrainJoin, Goto, poolVars, notifyVars
      <4>3. {} \in SUBSET drained[c]
        OBVIOUS
      <4> QED BY <4>1, <4>2, <4>3
    <3>2. CASE ShutdownDone(c)
      <4>1. slot[c] = None /\ slot = [slot EXCEPT ![c] = slot[c]]
        BY <1>0, <3>2 DEF ShutdownDone, SlotInv, TypeOK
      <4>2. drained' = [drained EXCEPT ![c] = @ \ {}] /\ vm' = [j \in Isles |-> IF j \in {} THEN "ending" ELSE vm[j]]
        BY <2>1, <3>2 DEF ShutdownDone
      <4>3. /\ pc[c] = "drain" /\ pc' = [pc EXCEPT ![c] = "out"] /\ slot' = [slot EXCEPT ![c] = None]
            /\ drained[c] = {}
            /\ UNCHANGED <<strategy, idle, active, closed, permit, queue, stale, signal, kind>>
        BY <3>2, <4>1 DEF ShutdownDone, Goto, poolVars, notifyVars
      <4> QED BY <4>2, <4>3
    <3> QED BY <2>2, <3>1, <3>2
  <2>4. CASE DropShutdown(c)
    <3>1. drained' = [drained EXCEPT ![c] = @ \ drained[c]]
      BY <1>0, <2>4 DEF DropShutdown, TypeOK
    <3> QED BY <2>4, <3>1 DEF DropShutdown, Goto, poolVars, notifyVars
  <2> QED BY <2>2, <2>4
<1>2. TypeOK'
  BY <1>0, <1>1 DEF TypeOK, Pcs, VmStates
<1>3. /\ \A d \in Callers : pc'[d] = IF d = c THEN p ELSE pc[d]
      /\ \A d \in Callers : slot'[d] = IF d = c THEN None ELSE slot[d]
      /\ \A d \in Callers : drained'[d] = IF d = c THEN drained[c] \ gone ELSE drained[d]
      /\ \A j \in Isles : vm'[j] = IF j \in gone THEN "ending" ELSE vm[j]
  BY <1>0, <1>1 DEF TypeOK
<1>4. SlotInv'
  BY <1>0, <1>1, <1>3 DEF SlotInv
<1>5. VmInv'
  <2>1. \A j \in gone : j \notin idle /\ \A d \in Callers : slot[d] # j /\ (d # c => j \notin drained[d])
    BY <1>0 DEF ExclusiveOwner
  <2> QED BY <1>0, <1>1, <1>3, <2>1 DEF VmInv
<1>6. ExclusiveOwner'
  <2>1. None \notin idle /\ \A d \in Callers : None \notin drained[d] /\ drained'[d] \subseteq drained[d]
    BY <1>0, <1>3 DEF TypeOK
  <2>2. \A d \in Callers : slot'[d] \in {slot[d], None} /\ idle' = idle
    BY <1>1, <1>3
  <2> QED BY <1>0, <2>1, <2>2 DEF ExclusiveOwner
<1>7. ActiveCovers' /\ BoundInv'
  BY <1>1, UncountedMove DEF Goto, Pcs
<1> QED BY <1>2, <1>4, <1>5, <1>6, <1>7 DEF IInv, OwnInv

LEMMA ThreadKeeps ==
  ASSUME IInv, NEW i \in Isles, Panic(i) \/ ThreadEnds(i)
  PROVE  IInv'
<1>0. TypeOK /\ SlotInv /\ VmInv /\ ExclusiveOwner /\ ActiveCovers /\ BoundInv
  BY DEF IInv, OwnInv
<1>1. PICK state \in {"dead", "none"} :
        /\ vm' = [vm EXCEPT ![i] = state] /\ (state = "none" => vm[i] = "ending")
        /\ UNCHANGED <<strategy, idle, active, closed, permit, queue, stale, signal, pc, kind, slot, drained>>
  BY DEF Panic, ThreadEnds, poolVars, notifyVars, callVars
<1>2. TypeOK'
  BY <1>0, <1>1 DEF TypeOK, VmStates
<1>3. \A j \in Isles : vm'[j] = IF j = i THEN state ELSE vm[j]
  BY <1>0, <1>1 DEF TypeOK
<1>4. SlotInv'
  BY <1>0, <1>1 DEF SlotInv
<1>5. VmInv'
  BY <1>0, <1>1, <1>3 DEF VmInv
<1>6. ExclusiveOwner'
  BY <1>0, <1>1 DEF ExclusiveOwner
<1>7. ActiveCovers' /\ BoundInv'
  BY <1>0, <1>1 DEF ActiveCovers, Counted, At, BoundInv
<1> QED BY <1>2, <1>4, <1>5, <1>6, <1>7 DEF IInv, OwnInv

(***************************************************************************)
(* The inductive invariant, and what follows from it.                      *)
(***************************************************************************)
LEMMA InitIInv == Init => IInv
<1> SUFFICES ASSUME Init PROVE IInv
  OBVIOUS
<1>1. TypeOK
  <2>1. <<>> \in Seq(Callers)
    OBVIOUS
  <2>2. /\ queue \in Seq(Callers) /\ active \in Nat /\ idle \subseteq Isles /\ stale \subseteq Callers
        /\ strategy \in Strategies /\ closed \in BOOLEAN /\ permit \in BOOLEAN
    BY <2>1 DEF Init
  <2>3. /\ signal \in [Callers -> Signals] /\ pc \in [Callers -> Pcs] /\ kind \in [Callers -> Kinds]
        /\ slot \in [Callers -> Isles \cup {None}] /\ vm \in [Isles -> VmStates]
    BY DEF Init, Signals, Pcs, Kinds, VmStates
  <2>4. drained \in [Callers -> SUBSET Isles]
    BY DEF Init
  <2> QED BY <2>2, <2>3, <2>4 DEF TypeOK
<1>2. OwnInv
  BY DEF Init, OwnInv, SlotInv, VmInv, ExclusiveOwner
<1>3. Counted = {} /\ idle = {} /\ active = 0
  BY DEF Init, Counted, At
<1>4. ActiveCovers /\ BoundInv
  BY <1>3, FS_EmptySet, MaxSizeAssumption DEF ActiveCovers, BoundInv
<1> QED BY <1>1, <1>2, <1>4 DEF IInv

LEMMA NextIInv == IInv /\ [Next]_vars => IInv'
<1> SUFFICES ASSUME IInv, [Next]_vars PROVE IInv'
  OBVIOUS
<1>1. ASSUME NEW c \in Callers, Step(c) PROVE IInv'
  BY <1>1, TryAcquireKeeps, PollNotifiedKeeps, WakeKeeps, SpawnSlotKeeps, DecActiveKeeps, DropSpawnKeeps,
     WakeAllKeeps, DrainOneKeeps, DrainJoinKeeps DEF Step
<1>2. ASSUME NEW c \in Callers, NEW k \in Kinds, Checkout(c, k) PROVE IInv'
  BY <1>2, CheckoutKeeps
<1>3. ASSUME NEW c \in Callers,
             LeaveQueue(c) \/ DropSpawn(c) \/ DropGuard(c) \/ Shutdown(c) \/ DropShutdown(c)
      PROVE  IInv'
  BY <1>3, LeaveQueueKeeps, DropSpawnKeeps, ReturnSlotWarmKeeps, DiscardSlotKeeps, ShutdownKeeps, DrainJoinKeeps
     DEF DropGuard
<1>4. ASSUME NEW i \in Isles, Panic(i) \/ ThreadEnds(i) PROVE IInv'
  BY <1>4, ThreadKeeps
<1>5. CASE UNCHANGED vars
  BY <1>5 DEF IInv, TypeOK, OwnInv, SlotInv, VmInv, ExclusiveOwner, ActiveCovers, BoundInv, Counted, At,
              vars, poolVars, notifyVars, callVars
<1> QED BY <1>1, <1>2, <1>3, <1>4, <1>5 DEF Next

\* Every slot has one owner, is counted, and there are never more than max_size
\* (async_pool.rs PoolInner, try_acquire, AsyncPooledIsle::drop).
THEOREM InductiveInvariant == Spec => []IInv
BY InitIInv, NextIInv, PTL DEF Spec

\* The types; active, a usize, never goes below zero (async_pool.rs dec_active).
THEOREM TypeCorrect == Spec => []TypeOK
BY InductiveInvariant, PTL DEF IInv

\* active covers every guard and every call on its way to one (async_pool.rs try_acquire).
THEOREM ActiveCoversAlways == Spec => []ActiveCovers
BY InductiveInvariant, PTL DEF IInv

\* A VM is never lent twice, nor lent while idle or being drained (async_pool.rs:16-17).
THEOREM ExclusiveOwnerAlways == Spec => []ExclusiveOwner
BY InductiveInvariant, PTL DEF IInv, OwnInv

(***************************************************************************)
(* Nobody sleeps in a closed pool.                                         *)
(***************************************************************************)
\* What a caller outside shutdown()'s first steps does to the queue: in a closed pool it neither
\* gets to poll a Notified nor joins the queue, unless its Notified is older than the wake-up.
Awake(c, p) ==
  /\ closed' = closed /\ pc' = [pc EXCEPT ![c] = p] /\ pc[c] # "notify_waiters"
  /\ closed => p # "poll"
  /\ stale \ {c} \subseteq stale'
  /\ queue = <<>> /\ (pc[c] = "poll" => c \in stale) => queue' = <<>>

LEMMA NotifyKeepsEmpty == NotifyOne /\ queue = <<>> => queue' = <<>>
BY DEF NotifyOne, NotifyRegistered

LEMMA CallersStayAwake ==
  ASSUME TypeOK, NEW c \in Callers, ~WakeAll(c), ~Shutdown(c),
         \/ Step(c) \/ \E k \in Kinds : Checkout(c, k)
         \/ LeaveQueue(c) \/ DropSpawn(c) \/ DropGuard(c) \/ Shutdown(c) \/ DropShutdown(c)
  PROVE  \E p \in Pcs \ {"notify_waiters"} : Awake(c, p)
<1> USE DEF Awake, Pcs, Goto, poolVars, notifyVars
<1>1. CASE TryAcquire(c)
  BY <1>1 DEF TryAcquire, FindClosed, TakeIdle, Grow, NeedWait, AllIdleDead
<1>2. CASE PollNotified(c) \/ Wake(c)
  BY <1>2 DEF PollNotified, Wake
<1>3. CASE SpawnSlot(c) \/ DropSpawn(c)
  BY <1>3 DEF SpawnSlot, DropSpawn
<1>4. CASE DecActive(c) \/ SpawnDriverShutdown(c)
  BY <1>4, NotifyKeepsEmpty DEF DecActive, SpawnDriverShutdown
<1>5. CASE DrainOne(c) \/ DrainJoin(c) \/ ShutdownDone(c) \/ DropShutdown(c)
  BY <1>5 DEF DrainOne, DrainJoin, ShutdownDone, DropShutdown
<1>6. CASE \E k \in Kinds : Checkout(c, k)
  BY <1>6 DEF Checkout
<1>7. CASE LeaveQueue(c)
  <2>1. queue = <<>> => queue' = <<>>
    <3>1. Len(<<>>) = 0 /\ \A k \in 1..0 : FALSE
      OBVIOUS
    <3> QED BY <1>7, <3>1 DEF LeaveQueue
  <2>2. pc[c] = "wait" /\ pc' = [pc EXCEPT ![c] = "out"] /\ closed' = closed /\ stale' = stale
    BY <1>7 DEF LeaveQueue
  <2> QED BY <2>1, <2>2
<1>8. CASE DropGuard(c)
  BY <1>8, NotifyKeepsEmpty DEF DropGuard, ReturnSlotWarm, DiscardSlot
<1> QED BY <1>1, <1>2, <1>3, <1>4, <1>5, <1>6, <1>7, <1>8 DEF Step

LEMMA AwakeStep ==
  ASSUME TypeOK, NobodyAsleepAfterShutdown, [Next]_vars
  PROVE  NobodyAsleepAfterShutdown'
<1> SUFFICES ASSUME closed', At("notify_waiters")' = {}
             PROVE  queue' = <<>> /\ At("poll")' \subseteq stale'
  BY DEF NobodyAsleepAfterShutdown
<1>1. ASSUME NEW c \in Callers, WakeAll(c) PROVE queue' = <<>> /\ At("poll")' \subseteq stale'
  BY <1>1 DEF WakeAll, NotifyWaiters, At, Goto, TypeOK
<1>2. ASSUME NEW c \in Callers, Shutdown(c) PROVE FALSE
  BY <1>2 DEF Shutdown, Goto, At, TypeOK
<1>3. ASSUME NEW c \in Callers, NEW p \in Pcs \ {"notify_waiters"}, Awake(c, p)
      PROVE  queue' = <<>> /\ At("poll")' \subseteq stale'
  <2>1. \A d \in Callers : pc'[d] = IF d = c THEN p ELSE pc[d]
    BY <1>3 DEF Awake, TypeOK
  <2>2. closed /\ At("notify_waiters") = {}
    BY <1>3, <2>1 DEF Awake, At
  <2>3. queue = <<>> /\ At("poll") \subseteq stale
    BY <2>2 DEF NobodyAsleepAfterShutdown
  <2> QED BY <1>3, <2>1, <2>2, <2>3 DEF Awake, At
<1>4. CASE UNCHANGED <<closed, pc, queue, stale>>
  BY <1>4 DEF NobodyAsleepAfterShutdown, At
<1>5. ASSUME NEW i \in Isles, Panic(i) \/ ThreadEnds(i) PROVE UNCHANGED <<closed, pc, queue, stale>>
  BY <1>5 DEF Panic, ThreadEnds, poolVars, notifyVars, callVars
<1>6. CASE UNCHANGED vars
  BY <1>4, <1>6 DEF vars, poolVars, notifyVars, callVars
<1> QED BY <1>1, <1>2, <1>3, <1>4, <1>5, <1>6, CallersStayAwake DEF Next

\* After shutdown's notify_waiters nobody is registered with the Notify, and whoever is about
\* to register finds its Notified done (async_pool.rs:149-160, 242-251).
THEOREM NobodyAsleepAlways == Spec => []NobodyAsleepAfterShutdown
<1>1. Init => NobodyAsleepAfterShutdown
  BY DEF Init, NobodyAsleepAfterShutdown
<1>2. TypeOK /\ NobodyAsleepAfterShutdown /\ [Next]_vars => NobodyAsleepAfterShutdown'
  BY AwakeStep
<1> QED BY <1>1, <1>2, TypeCorrect, PTL DEF Spec

(***************************************************************************)
(* The refinement.                                                         *)
(***************************************************************************)
\* SlotPool counts as AsyncIslePool does.
LEMMA SameCardinality == \A S : Slots!Cardinality(S) = Cardinality(S)
BY DEF Slots!Cardinality, Cardinality

LEMMA SlotPoolStep == IInv /\ [Next]_vars => [Slots!Next]_(Slots!vars)
<1> SUFFICES ASSUME IInv, [Next]_vars PROVE [Slots!Next]_(Slots!vars)
  OBVIOUS
<1> USE DEF Slots!Next, Slots!vars
<1>0. TypeOK /\ SlotInv /\ ExclusiveOwner /\ ActiveCovers /\ BoundInv
  BY DEF IInv, OwnInv
<1>1. ASSUME UNCHANGED <<idle, active, closed>> PROVE [Slots!Next]_(Slots!vars)
  BY <1>1
<1>2. ASSUME NEW c \in Callers, TryAcquire(c) PROVE [Slots!Next]_(Slots!vars)
  <2>1. CASE FindClosed(c)
    BY <1>1, <2>1 DEF FindClosed, poolVars
  <2>2. ASSUME ~closed, closed' = closed, active' = active + 1, active < MaxSize, idle' \subseteq idle, BoundInv'
        PROVE  Slots!Claim
    <3>1. active' + Cardinality(idle') <= MaxSize
      BY <2>2 DEF BoundInv
    <3> QED BY <2>2, <3>1, SameCardinality DEF Slots!Claim
  <2>3. CASE TakeIdle(c)
    <3>1. PICK i \in idle : idle' \subseteq idle \ {i}
      BY <2>3 DEF TakeIdle
    <3>2. ~closed /\ closed' = closed /\ active' = active + 1 /\ idle' \subseteq idle
      BY <2>3, <3>1 DEF TakeIdle
    <3> QED BY <1>0, <2>2, <3>1, <3>2, BoundClaim
  <2>4. CASE Grow(c)
    <3>1. ~closed /\ closed' = closed /\ active' = active + 1 /\ idle' = {} /\ CanGrow({})
      BY <2>4 DEF Grow, AllIdleDead
    <3> QED BY <1>0, <2>2, <3>1, BoundGrow
  <2>5. CASE NeedWait(c)
    BY <2>5 DEF NeedWait, Slots!LetGo
  <2> QED BY <1>2, <2>1, <2>3, <2>4, <2>5 DEF TryAcquire
<1>3. ASSUME NEW c \in Callers, DecActive(c) \/ DropGuard(c) PROVE [Slots!Next]_(Slots!vars)
  <2>1. active > 0
    BY <1>0, <1>3, ActivePositive DEF DecActive, DropGuard, ReturnSlotWarm, DiscardSlot
  <2>2. closed' = closed /\ active' = active - 1
    BY <1>3 DEF DecActive, DropGuard, ReturnSlotWarm, DiscardSlot
  <2>3. CASE idle' = idle
    BY <2>1, <2>2, <2>3 DEF Slots!Release
  <2>4. CASE ReturnSlotWarm(c) /\ Reusable(c) /\ idle' = idle \cup {slot[c]}
    <3>1. slot[c] \in Isles \ idle /\ ~closed
      BY <1>0, <2>4 DEF ReturnSlotWarm, SlotInv, ExclusiveOwner, TypeOK, Reusable
    <3> QED BY <2>1, <2>2, <2>4, <3>1 DEF Slots!Release
  <2> QED BY <1>3, <2>3, <2>4 DEF DecActive, DropGuard, ReturnSlotWarm, DiscardSlot
<1>4. ASSUME NEW c \in Callers, Shutdown(c) PROVE [Slots!Next]_(Slots!vars)
  BY <1>4 DEF Shutdown, Slots!Close
<1>5. ASSUME NEW c \in Callers,
             \/ PollNotified(c) \/ Wake(c) \/ SpawnSlot(c) \/ SpawnDriverShutdown(c) \/ WakeAll(c) \/ DrainOne(c)
             \/ DrainJoin(c) \/ ShutdownDone(c) \/ LeaveQueue(c) \/ DropSpawn(c) \/ DropShutdown(c)
             \/ \E k \in Kinds : Checkout(c, k)
      PROVE  UNCHANGED <<idle, active, closed>>
  BY <1>5 DEF PollNotified, Wake, SpawnSlot, SpawnDriverShutdown, WakeAll, DrainOne, DrainJoin, ShutdownDone,
     LeaveQueue, DropSpawn, DropShutdown, Checkout, poolVars
<1>6. ASSUME NEW i \in Isles, Panic(i) \/ ThreadEnds(i) PROVE UNCHANGED <<idle, active, closed>>
  BY <1>6 DEF Panic, ThreadEnds, poolVars
<1>7. CASE UNCHANGED vars
  BY <1>1, <1>7 DEF vars, poolVars
<1> QED BY <1>1, <1>2, <1>3, <1>4, <1>5, <1>6, <1>7 DEF Next, Step

\* The async pool implements the abstract bounded pool (async_pool.rs try_acquire, shutdown and
\* AsyncPooledIsle::drop).
THEOREM Refinement == Spec => ImplementsSlotPool
<1>1. Init => Slots!Init
  BY DEF Init, Slots!Init
<1> QED BY <1>1, SlotPoolStep, InductiveInvariant, PTL DEF Spec, ImplementsSlotPool, Slots!Spec
=============================================================================
