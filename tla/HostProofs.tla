----------------------------- MODULE HostProofs -----------------------------
(***************************************************************************)
(* Proofs about the two components in which one host thread faces the VM   *)
(* thread: HostSink, a channel to the host, and Isle, the handle and its   *)
(* requests.  For any sends and capacity: the types, that room is          *)
(* conserved, and that the host gets what was sent, in order, and None     *)
(* only behind it.  For any requests, endless or not: the types, which     *)
(* requests get cancelled and which answers get lost.                      *)
(***************************************************************************)
EXTENDS HostSink, Isle, FiniteSetTheorems, SequenceTheorems, TLAPS

(***************************************************************************)
(* HostSink.                                                               *)
(***************************************************************************)
USE CapAssumption

(***************************************************************************)
(* The inductive strengthening.                                            *)
(***************************************************************************)
\* The waiters wait, once each, and without room.
Lines(w) ==
  /\ w \in Seq(Sends)
  /\ \A i \in 1..Len(w) : state[w[i]] = "waiting" /\ w[i] \notin assigned
  /\ \A i, j \in 1..Len(w) : w[i] = w[j] => i = j
WaitInv == Lines(waiters) /\ IsFiniteSet(assigned)

ConvInv ==
  /\ \A i \in 1..Len(converting) : state[converting[i]] = "converting"
  /\ \A i, j \in 1..Len(converting) : converting[i] = converting[j] => i = j

\* Room in use; a Receiver that is gone has left what it had queued.
Used == freed + Cardinality(assigned) + Len(converting) + Len(queue)
RoomInv ==
  /\ free + Used <= Cap
  /\ hostGone => queue = <<>> /\ freed = 0 /\ hostClosed
  /\ RoomConserved

\* Behind the end nothing converts, and nothing can start to.
EndInv ==
  /\ collected => Waiting = {}
  /\ ended => queue = <<>> /\ converting = <<>> /\ (NoSender \/ collected)
  /\ NothingBehindEnd

IInv == TypeOK /\ WaitInv /\ ConvInv /\ RoomInv /\ EndInv

(***************************************************************************)
(* Sequences.                                                              *)
(***************************************************************************)
LEMMA SeqOver ==
  ASSUME NEW S, NEW T, NEW q \in Seq(S), \A i \in 1..Len(q) : q[i] \in T
  PROVE  q \in Seq(T)
BY IsASeq, LenProperties, ElementOfSeq

LEMMA Removed ==
  ASSUME NEW S, NEW q \in Seq(S), NEW k \in 1..Len(q)
  PROVE  /\ RemoveAt(q, k) \in Seq(S)
         /\ Len(RemoveAt(q, k)) = Len(q) - 1
         /\ \A i \in 1..(Len(q) - 1) : RemoveAt(q, k)[i] = IF i < k THEN q[i] ELSE q[i + 1]
<1> DEFINE a == SubSeq(q, 1, k - 1)
           b == SubSeq(q, k + 1, Len(q))
<1>1. a \in Seq(S) /\ Len(a) = k - 1 /\ \A i \in 1..(k - 1) : a[i] = q[i]
  OBVIOUS
<1>2. b \in Seq(S) /\ Len(b) = Len(q) - k /\ \A i \in 1..(Len(q) - k) : b[i] = q[k + i]
  OBVIOUS
<1>3. RemoveAt(q, k) = a \o b
  BY DEF RemoveAt
<1>4. /\ a \o b \in Seq(S) /\ Len(a \o b) = Len(q) - 1
      /\ \A i \in 1..(Len(q) - 1) : (a \o b)[i] = IF i <= k - 1 THEN a[i] ELSE b[i - (k - 1)]
  <2> HIDE DEF a, b
  <2>1. Len(a) \in Nat /\ Len(b) \in Nat /\ Len(a) + Len(b) = Len(q) - 1
    BY <1>1, <1>2, LenProperties
  <2>2. /\ a \o b \in Seq(S) /\ Len(a \o b) = Len(a) + Len(b)
        /\ \A i \in 1..(Len(a) + Len(b)) : (a \o b)[i] = IF i <= Len(a) THEN a[i] ELSE b[i - Len(a)]
    BY <1>1, <1>2, ConcatProperties
  <2>3. Len(a) = k - 1
    BY <1>1
  <2> QED BY <2>1, <2>2, <2>3
<1>5. ASSUME NEW i \in 1..(Len(q) - 1)
      PROVE  (a \o b)[i] = IF i < k THEN q[i] ELSE q[i + 1]
  <2> HIDE DEF a, b
  <2>1. CASE i < k
    BY <2>1, <1>1, <1>4
  <2>2. CASE ~(i < k)
    <3>1. i - (k - 1) \in 1..(Len(q) - k) /\ k + (i - (k - 1)) = i + 1
      BY <2>2
    <3> QED BY <2>2, <3>1, <1>2, <1>4
  <2> QED BY <2>1, <2>2
<1> QED BY <1>3, <1>4, <1>5

(***************************************************************************)
(* Room given and taken.                                                   *)
(***************************************************************************)
\* The queue, the room assigned and the sends woken fit the waiting sends W.
Fit(W) ==
  /\ waiters' \in Seq(Sends)
  /\ \A i \in 1..Len(waiters') : waiters'[i] \in W /\ waiters'[i] \notin assigned'
  /\ \A i, j \in 1..Len(waiters') : waiters'[i] = waiters'[j] => i = j
  /\ assigned' \subseteq W /\ woken' \subseteq W /\ IsFiniteSet(assigned')

LEMMA FitKeeps ==
  ASSUME TypeOK, state' \in [Sends -> {"new", "waiting", "converting", "sent", "closed", "failed", "full", "left"}],
         Fit(Waiting')
  PROVE  WaitInv' /\ waiters' \in Seq(Waiting')
<1>1. waiters' \in Seq(Waiting')
  BY SeqOver DEF Fit
<1>2. \A x \in Waiting' : state'[x] = "waiting"
  BY DEF Waiting
<1> QED BY <1>1, <1>2 DEF Fit, WaitInv, Lines

LEMMA Unmoved ==
  ASSUME TypeOK, WaitInv, NEW W, Waiting \subseteq W, UNCHANGED <<waiters, assigned>>, woken' \subseteq W
  PROVE  Fit(W)
BY DEF Fit, TypeOK, WaitInv, Lines, Waiting

LEMMA WaitFacts ==
  ASSUME TypeOK, WaitInv
  PROVE  /\ IsFiniteSet(assigned) /\ Cardinality(assigned) \in Nat
         /\ free \in Nat /\ waiters \in Seq(Sends) /\ Len(waiters) \in Nat
         /\ assigned \subseteq Waiting /\ woken \subseteq Waiting
         /\ \A i \in 1..Len(waiters) : waiters[i] \in Waiting /\ waiters[i] \notin assigned
         /\ \A i, j \in 1..Len(waiters) : waiters[i] = waiters[j] => i = j
<1>1. IsFiniteSet(assigned) /\ Cardinality(assigned) \in Nat
  BY FS_CardinalityType DEF WaitInv
<1>2. /\ waiters \in Seq(Sends)
      /\ \A i \in 1..Len(waiters) : state[waiters[i]] = "waiting" /\ waiters[i] \notin assigned
      /\ \A i, j \in 1..Len(waiters) : waiters[i] = waiters[j] => i = j
  BY DEF WaitInv, Lines
<1>3. free \in Nat /\ assigned \subseteq Waiting /\ woken \subseteq Waiting
  BY DEF TypeOK
<1>4. Len(waiters) \in Nat /\ \A i \in 1..Len(waiters) : waiters[i] \in Sends
  BY <1>2, LenProperties, ElementOfSeq
<1>5. \A i \in 1..Len(waiters) : waiters[i] \in Waiting
  BY <1>2, <1>4 DEF Waiting
<1> QED BY <1>1, <1>2, <1>3, <1>4, <1>5

LEMMA RoomGiven ==
  ASSUME TypeOK, WaitInv, NEW gone \in SUBSET assigned, GiveRoom(gone, waiters),
         gone = {} \/ \E s \in assigned : gone = {s}
  PROVE  /\ Fit(Waiting \ gone)
         /\ free' \in Nat
         /\ Cardinality(assigned) \in Nat /\ Cardinality(assigned') \in Nat
         /\ gone = {} => free' + Cardinality(assigned') = free + Cardinality(assigned) + 1
         /\ gone # {} => free' + Cardinality(assigned') = free + Cardinality(assigned)
<1> DEFINE h == Head(waiters)
<1>0. /\ IsFiniteSet(assigned) /\ Cardinality(assigned) \in Nat
      /\ free \in Nat /\ waiters \in Seq(Sends) /\ Len(waiters) \in Nat
      /\ assigned \subseteq Waiting /\ woken \subseteq Waiting
      /\ \A i \in 1..Len(waiters) : waiters[i] \in Waiting /\ waiters[i] \notin assigned
      /\ \A i, j \in 1..Len(waiters) : waiters[i] = waiters[j] => i = j
  BY WaitFacts
<1>1. gone # {} => IsFiniteSet(assigned \ gone) /\ Cardinality(assigned \ gone) = Cardinality(assigned) - 1
  BY <1>0, FS_RemoveElement
<1>2. IsFiniteSet(assigned \ gone) /\ Cardinality(assigned \ gone) \in Nat
      /\ (gone = {} => Cardinality(assigned \ gone) = Cardinality(assigned))
  <2>1. gone = {} => assigned \ gone = assigned
    OBVIOUS
  <2>2. IsFiniteSet(assigned \ gone)
    BY <1>0, <1>1, <2>1
  <2> QED BY <2>1, <2>2, FS_CardinalityType
<1>3. CASE waiters # <<>>
  <2>1. /\ 1 \in 1..Len(waiters) /\ h = waiters[1] /\ h \in Waiting /\ h \notin assigned
        /\ waiters' = Tail(waiters) /\ free' = free
        /\ assigned' = (assigned \cup {h}) \ gone /\ woken' = (woken \cup {h}) \ gone
    BY <1>0, <1>3 DEF GiveRoom
  <2>2. /\ waiters' \in Seq(Sends) /\ Len(waiters') = Len(waiters) - 1
        /\ \A i \in 1..Len(waiters') : waiters'[i] = waiters[i + 1]
    BY <1>0, <1>3, <2>1
  <2>3. assigned' = (assigned \ gone) \cup {h} /\ h \notin assigned \ gone
    BY <2>1
  <2>4. IsFiniteSet(assigned') /\ Cardinality(assigned') = Cardinality(assigned \ gone) + 1
    BY <1>2, <2>3, FS_AddElement
  <2>5. Fit(Waiting \ gone)
    <3>1. ASSUME NEW i \in 1..Len(waiters')
          PROVE  /\ i + 1 \in 1..Len(waiters) /\ waiters'[i] = waiters[i + 1]
                 /\ waiters'[i] # h
      <4>1. i + 1 \in 1..Len(waiters) /\ i + 1 # 1
        BY <2>2, <1>0
      <4> QED BY <4>1, <1>0, <2>1, <2>2
    <3>2. \A i \in 1..Len(waiters') : waiters'[i] \in Waiting \ gone /\ waiters'[i] \notin assigned'
      BY <3>1, <1>0, <2>3
    <3>3. \A i, j \in 1..Len(waiters') : waiters'[i] = waiters'[j] => i = j
      <4> SUFFICES ASSUME NEW i \in 1..Len(waiters'), NEW j \in 1..Len(waiters'), waiters'[i] = waiters'[j]
                   PROVE  i = j
        OBVIOUS
      <4>1. i + 1 = j + 1
        BY <3>1, <1>0
      <4> QED BY <4>1
    <3> QED BY <3>2, <3>3, <2>2, <2>4, <1>0, <2>1 DEF Fit
  <2> HIDE DEF h
  <2> QED BY <1>0, <1>1, <1>2, <2>1, <2>4, <2>5
<1>4. CASE waiters = <<>>
  <2>1. waiters' = waiters /\ free' = free + 1 /\ assigned' = assigned \ gone /\ woken' = woken \ gone
    BY <1>4 DEF GiveRoom
  <2>2. Fit(Waiting \ gone)
    BY <1>0, <1>2, <1>4, <2>1 DEF Fit
  <2> QED BY <1>0, <1>1, <1>2, <2>1, <2>2
<1> QED BY <1>3, <1>4

LEMMA ReserveDropped ==
  ASSUME TypeOK, WaitInv, NEW s \in Sends, DropReserve(s)
  PROVE  /\ Fit(Waiting \ {s})
         /\ free' \in Nat
         /\ free' + Cardinality(assigned') = free + Cardinality(assigned)
<1>0. /\ IsFiniteSet(assigned) /\ Cardinality(assigned) \in Nat
      /\ free \in Nat /\ waiters \in Seq(Sends) /\ Len(waiters) \in Nat
      /\ assigned \subseteq Waiting /\ woken \subseteq Waiting
      /\ \A i \in 1..Len(waiters) : waiters[i] \in Waiting /\ waiters[i] \notin assigned
      /\ \A i, j \in 1..Len(waiters) : waiters[i] = waiters[j] => i = j
  BY WaitFacts
<1>1. CASE s \in assigned
  <2>1. GiveRoom({s}, waiters)
    BY <1>1 DEF DropReserve
  <2> QED BY <1>1, <2>1, RoomGiven
<1>2. CASE s \notin assigned
  <2>1. woken' = woken \ {s} /\ free' = free /\ assigned' = assigned
    BY <1>2 DEF DropReserve
  <2>2. CASE s \in Range(waiters)
    <3>1. PICK k \in 1..Len(waiters) : waiters[k] = s /\ waiters' = RemoveAt(waiters, k)
      BY <1>0, <1>2, <2>2 DEF DropReserve
    <3>2. /\ waiters' \in Seq(Sends) /\ Len(waiters') = Len(waiters) - 1
          /\ \A i \in 1..Len(waiters') : waiters'[i] = IF i < k THEN waiters[i] ELSE waiters[i + 1]
      BY <1>0, <3>1, Removed
    <3>3. Len(waiters) \in Nat
      BY <1>0
    <3> DEFINE at(i) == IF i < k THEN i ELSE i + 1
    <3>4. ASSUME NEW i \in 1..Len(waiters')
          PROVE  at(i) \in 1..Len(waiters) /\ at(i) # k /\ waiters'[i] = waiters[at(i)]
      BY <3>2, <3>3
    <3>5. \A i \in 1..Len(waiters') : waiters'[i] \in Waiting \ {s} /\ waiters'[i] \notin assigned'
      BY <3>1, <3>4, <1>0, <2>1
    <3>6. \A i, j \in 1..Len(waiters') : waiters'[i] = waiters'[j] => at(i) = at(j)
      BY <3>4, <1>0
    <3>7. \A i, j \in 1..Len(waiters') : at(i) = at(j) => i = j
      OBVIOUS
    <3> HIDE DEF at
    <3> QED BY <1>0, <1>2, <2>1, <3>2, <3>5, <3>6, <3>7 DEF Fit
  <2>3. CASE s \notin Range(waiters)
    <3>1. waiters' = waiters
      BY <1>2, <2>3 DEF DropReserve
    <3>2. \A i \in 1..Len(waiters) : waiters[i] # s
      BY <2>3, <1>0 DEF Range
    <3> QED BY <1>0, <1>2, <2>1, <3>1, <3>2 DEF Fit
  <2>4. Cardinality(assigned') = Cardinality(assigned) /\ free' = free
    BY <2>1
  <2> QED BY <1>0, <2>2, <2>3, <2>4
<1> QED BY <1>1, <1>2

(***************************************************************************)
(* Lua's steps.                                                            *)
(***************************************************************************)
\* Room in use, in numbers.
LEMMA Numbers ==
  ASSUME TypeOK, WaitInv
  PROVE  /\ free \in Nat /\ freed \in Nat /\ Cardinality(assigned) \in Nat
         /\ Len(converting) \in Nat /\ Len(queue) \in Nat /\ Cap \in Nat
         /\ Used \in Nat
BY WaitFacts DEF TypeOK, Used

LEMMA RoomMoved ==
  ASSUME TypeOK, WaitInv, RoomInv, UNCHANGED hostVars, hostGone => queue' = <<>>,
         free' \in Nat, Cardinality(assigned') \in Nat, Len(converting') \in Nat, Len(queue') \in Nat,
         free' + Cardinality(assigned') + Len(converting') + Len(queue')
           = free + Cardinality(assigned) + Len(converting) + Len(queue)
  PROVE  RoomInv' /\ free' \in 0..Cap
<1>1. /\ free \in Nat /\ freed \in Nat /\ Cardinality(assigned) \in Nat
      /\ Len(converting) \in Nat /\ Len(queue) \in Nat /\ Cap \in Nat
  BY Numbers
<1>2. freed' = freed /\ hostGone' = hostGone /\ hostClosed' = hostClosed
  BY DEF hostVars
<1>3. PICK f \in Nat, k \in Nat, a \in Nat, c \in Nat, q \in Nat :
        f = free /\ k = freed /\ a = Cardinality(assigned) /\ c = Len(converting) /\ q = Len(queue)
  BY <1>1
<1>4. PICK f1 \in Nat, a1 \in Nat, c1 \in Nat, q1 \in Nat :
        f1 = free' /\ a1 = Cardinality(assigned') /\ c1 = Len(converting') /\ q1 = Len(queue')
  OBVIOUS
<1>5. f1 + a1 + c1 + q1 = f + a + c + q
  BY <1>3, <1>4
<1>6. /\ f + (k + a + c + q) <= Cap
      /\ ~hostGone => f + k + a + c + q = Cap
      /\ hostGone => freed = 0 /\ hostClosed
  BY <1>3 DEF RoomInv, RoomConserved, Used
<1>7. /\ f1 + (k + a1 + c1 + q1) <= Cap
      /\ ~hostGone => f1 + k + a1 + c1 + q1 = Cap
      /\ f1 \in 0..Cap
  BY <1>1, <1>5, <1>6
<1> QED BY <1>2, <1>3, <1>4, <1>6, <1>7 DEF RoomInv, RoomConserved, Used

LEMMA ConvKept ==
  ASSUME TypeOK, ConvInv, NEW s \in Sends, state[s] # "converting", NEW w,
         state' = [state EXCEPT ![s] = w], converting' = converting
  PROVE  ConvInv'
<1>1. \A i \in 1..Len(converting) : converting[i] \in Sends /\ converting[i] # s
  BY DEF ConvInv, TypeOK
<1> QED BY <1>1 DEF ConvInv, TypeOK

\* A send that has its permit converts: s leaves the waiting ones, if it is one.
LEMMA ConvertKeeps ==
  ASSUME IInv, NEW s \in Sends, state[s] # "converting", Convert(s), VmIdle \/ state[s] = "new",
         s \in Waiting => s \in assigned,
         free' + Cardinality(assigned') = free + Cardinality(assigned) - 1, free' \in Nat,
         UNCHANGED <<queue, hostVars, closed, collected, pushed, waiters>>, ~NoSender, ~collected \/ s \in Waiting
  PROVE  IInv'
<1> USE DEF IInv
<1>0. /\ state' = [state EXCEPT ![s] = "converting"] /\ converting' = Append(converting, s)
      /\ sinkWaiters' = sinkWaiters \ {s} /\ woken' = woken \ {s} /\ assigned' = assigned \ {s}
      /\ waiters' = waiters /\ Waiting' = Waiting \ {s}
      /\ state' \in [Sends -> {"new", "waiting", "converting", "sent", "closed", "failed", "full", "left"}]
  BY DEF Convert, Become, TypeOK, Waiting
<1>1. Fit(Waiting')
  <2>1. \A i \in 1..Len(waiters) : waiters[i] # s
    BY WaitFacts
  <2>2. IsFiniteSet(assigned \ {s})
    BY WaitFacts, FS_Subset
  <2> QED BY <1>0, <2>1, <2>2, WaitFacts DEF Fit
<1>2. WaitInv' /\ waiters' \in Seq(Waiting')
  BY <1>0, <1>1, FitKeeps
<1>3. /\ converting' \in Seq(Sends) /\ Len(converting') = Len(converting) + 1 /\ Len(converting) \in Nat
      /\ \A i \in 1..Len(converting) : converting'[i] = converting[i]
      /\ converting'[Len(converting) + 1] = s
  BY <1>0 DEF TypeOK
<1>4. ConvInv'
  <2>1. \A i \in 1..Len(converting) : converting[i] # s /\ converting[i] \in Sends
    BY DEF ConvInv, TypeOK
  <2>2. \A i \in 1..Len(converting') : state'[converting'[i]] = "converting"
    <3>1. \A i \in 1..Len(converting) : state[converting[i]] = "converting"
      BY DEF ConvInv
    <3>2. \A x \in Sends : state'[x] = IF x = s THEN "converting" ELSE state[x]
      BY <1>0 DEF TypeOK
    <3>3. \A i \in 1..Len(converting') : i \in 1..Len(converting) \/ i = Len(converting) + 1
      BY <1>3
    <3> QED BY <1>3, <2>1, <3>1, <3>2, <3>3
  <2>3. \A i, j \in 1..Len(converting') : converting'[i] = converting'[j] => i = j
    BY <1>3, <2>1 DEF ConvInv
  <2> QED BY <2>2, <2>3 DEF ConvInv
<1>5. Cardinality(assigned') \in Nat
  BY <1>2, FS_CardinalityType DEF WaitInv
<1>7. RoomInv' /\ free' \in 0..Cap
  <2>1. Len(converting') = Len(converting) + 1 /\ queue' = queue
    BY <1>3
  <2>2. hostGone => queue' = <<>>
    BY <2>1 DEF RoomInv
  <2> HIDE DEF IInv
  <2>3. TypeOK /\ WaitInv /\ RoomInv
    BY DEF IInv
  <2>4. PICK f \in Nat, a \in Nat, c \in Nat, q \in Nat :
          f = free /\ a = Cardinality(assigned) /\ c = Len(converting) /\ q = Len(queue)
    BY <2>3, Numbers
  <2>5. PICK f1 \in Nat, a1 \in Nat : f1 = free' /\ a1 = Cardinality(assigned') /\ f1 + a1 = f + a - 1
    BY <1>5, <2>4
  <2>6. f1 + a1 + (c + 1) + q = f + a + c + q /\ c + 1 \in Nat
    BY <2>5
  <2>7. free' + Cardinality(assigned') + Len(converting') + Len(queue')
          = free + Cardinality(assigned) + Len(converting) + Len(queue)
    BY <2>1, <2>4, <2>5, <2>6
  <2>8. Len(converting') \in Nat /\ Len(queue') \in Nat /\ UNCHANGED hostVars
    BY <2>1, <2>4, <2>6
  <2> QED BY <2>2, <2>3, <2>7, <2>8, <1>5, RoomMoved
<1>8. TypeOK'
  BY <1>0, <1>1, <1>2, <1>3, <1>7 DEF TypeOK, Fit, hostVars
<1>9. EndInv'
  BY <1>0 DEF EndInv, NothingBehindEnd, NoSender, hostVars
<1> QED BY <1>2, <1>4, <1>7, <1>8, <1>9

\* A send that waits no more gives its reservation back.
LEMMA WithdrawKeeps ==
  ASSUME IInv, NEW s \in Waiting, NEW w \in {"closed", "left"}, Become(s, w), Withdraw(s),
         UNCHANGED <<queue, hostVars, closed, collected, converting, pushed>>
  PROVE  IInv'
<1> USE DEF IInv
<1>0. /\ s \in Sends /\ state[s] = "waiting"
      /\ state' = [state EXCEPT ![s] = w] /\ Waiting' = Waiting \ {s} /\ sinkWaiters' = sinkWaiters \ {s}
      /\ state' \in [Sends -> {"new", "waiting", "converting", "sent", "closed", "failed", "full", "left"}]
  BY DEF Become, TypeOK, Waiting, Withdraw
<1>1. Fit(Waiting') /\ free' \in Nat /\ free' + Cardinality(assigned') = free + Cardinality(assigned)
  BY <1>0, ReserveDropped DEF Withdraw
<1>2. WaitInv' /\ waiters' \in Seq(Waiting')
  BY <1>0, <1>1, FitKeeps
<1>3. Cardinality(assigned') \in Nat
  BY <1>2, FS_CardinalityType DEF WaitInv
<1>4. RoomInv' /\ free' \in 0..Cap
  <2>1. converting' = converting /\ queue' = queue
    OBVIOUS
  <2>2. hostGone => queue' = <<>>
    BY <2>1 DEF RoomInv
  <2> HIDE DEF IInv
  <2>3. TypeOK /\ WaitInv /\ RoomInv
    BY DEF IInv
  <2> QED BY <2>1, <2>2, <2>3, <1>1, <1>3, Numbers, RoomMoved
<1>5. ConvInv'
  BY <1>0, ConvKept
<1>6. TypeOK'
  BY <1>0, <1>1, <1>2, <1>4 DEF TypeOK, Fit, hostVars
<1>7. EndInv'
  BY <1>0 DEF EndInv, NothingBehindEnd, NoSender, hostVars
<1> QED BY <1>2, <1>4, <1>5, <1>6, <1>7

\* A send that is over at once.
LEMMA OverKeeps ==
  ASSUME IInv, NEW s \in Sends, state[s] = "new", NEW w \in {"closed", "full"}, Become(s, w),
         UNCHANGED <<tokioVars, hostVars, closed, collected, sinkWaiters, woken, converting, pushed>>
  PROVE  IInv'
<1> USE DEF IInv
<1>0. /\ state' = [state EXCEPT ![s] = w] /\ Waiting' = Waiting
      /\ state' \in [Sends -> {"new", "waiting", "converting", "sent", "closed", "failed", "full", "left"}]
  BY DEF Become, TypeOK, Waiting
<1>1. Fit(Waiting')
  BY <1>0, Unmoved DEF tokioVars, TypeOK
<1>2. WaitInv' /\ waiters' \in Seq(Waiting')
  BY <1>0, <1>1, FitKeeps
<1>3. RoomInv'
  BY DEF RoomInv, RoomConserved, Used, hostVars, tokioVars
<1>4. ConvInv'
  BY <1>0, ConvKept
<1>5. TypeOK'
  BY <1>0, <1>1, <1>2 DEF TypeOK, Fit, hostVars, tokioVars
<1>6. EndInv'
  BY <1>0 DEF EndInv, NothingBehindEnd, NoSender, hostVars, tokioVars
<1> QED BY <1>2, <1>3, <1>4, <1>5, <1>6

\* A send that finds no room lines up.
LEMMA WaitKeeps ==
  ASSUME IInv, NEW s \in Sends, state[s] = "new", ~NoSender, ~collected, Become(s, "waiting"),
         waiters' = Append(waiters, s), sinkWaiters' = sinkWaiters \cup {s},
         UNCHANGED <<queue, free, assigned, hostVars, closed, collected, woken, converting, pushed>>
  PROVE  IInv'
<1> USE DEF IInv
<1>0. /\ state' = [state EXCEPT ![s] = "waiting"] /\ Waiting' = Waiting \cup {s} /\ s \notin Waiting
      /\ state' \in [Sends -> {"new", "waiting", "converting", "sent", "closed", "failed", "full", "left"}]
  BY DEF Become, TypeOK, Waiting
<1>a. /\ waiters' \in Seq(Sends) /\ Len(waiters') = Len(waiters) + 1
      /\ \A i \in 1..Len(waiters) : waiters'[i] = waiters[i]
      /\ waiters'[Len(waiters) + 1] = s
  BY WaitFacts
<1>1. Fit(Waiting')
  <2>1. \A i \in 1..Len(waiters') : waiters'[i] \in Waiting' /\ waiters'[i] \notin assigned'
    BY <1>0, <1>a, WaitFacts
  <2>2. \A i, j \in 1..Len(waiters') : waiters'[i] = waiters'[j] => i = j
    BY <1>0, <1>a, WaitFacts
  <2> QED BY <2>1, <2>2, <1>0, <1>a, WaitFacts DEF Fit
<1>2. WaitInv' /\ waiters' \in Seq(Waiting')
  BY <1>0, <1>1, FitKeeps
<1>3. RoomInv'
  BY DEF RoomInv, RoomConserved, Used, hostVars
<1>4. ConvInv'
  BY <1>0, ConvKept
<1>5. TypeOK'
  BY <1>0, <1>1, <1>2 DEF TypeOK, Fit, hostVars
<1>6. EndInv'
  BY <1>0 DEF EndInv, NothingBehindEnd, NoSender, hostVars
<1> QED BY <1>2, <1>3, <1>4, <1>5, <1>6

\* Steps that move neither sends nor room.
LEMMA StillKeeps ==
  ASSUME IInv, UNCHANGED <<tokioVars, freed, hostGone, hostClosed, received, state, sinkWaiters, converting, pushed>>,
         woken' \subseteq Waiting, {ended', closed', collected'} \subseteq BOOLEAN,
         EndInv'
  PROVE  IInv'
<1> USE DEF IInv
<1>0. Waiting' = Waiting
  BY DEF Waiting
<1>1. Fit(Waiting')
  BY <1>0, Unmoved DEF tokioVars
<1>2. WaitInv' /\ waiters' \in Seq(Waiting')
  BY <1>0, <1>1, FitKeeps DEF TypeOK
<1>3. RoomInv' /\ ConvInv'
  BY DEF RoomInv, RoomConserved, Used, ConvInv, tokioVars
<1>4. TypeOK'
  BY <1>0, <1>1, <1>2 DEF TypeOK, Fit, tokioVars
<1> QED BY <1>2, <1>3, <1>4

LEMMA SendKeeps ==
  ASSUME IInv, NEW s \in Sends, Send(s) \/ TrySend(s)
  PROVE  IInv'
<1>0. /\ state[s] = "new" /\ ~collected /\ s \notin Waiting
      /\ UNCHANGED <<queue, hostVars, closed, collected, pushed>>
  BY DEF Send, TrySend, NewSend, Waiting
<1>1. ASSUME NEW w \in {"closed", "full"}, Become(s, w),
             UNCHANGED <<free, waiters, assigned, sinkWaiters, woken, converting>>
      PROVE  IInv'
  BY <1>0, <1>1, OverKeeps DEF tokioVars
<1>2. ASSUME ~NoSender, free > 0, free' = free - 1, Convert(s), UNCHANGED waiters
      PROVE  IInv'
  <2>1. assigned' = assigned
    BY <1>0, <1>2 DEF Convert, IInv, TypeOK
  <2>2. free' \in Nat /\ free' + Cardinality(assigned') = free + Cardinality(assigned) - 1
    BY <1>2, <2>1, Numbers DEF IInv
  <2> QED BY <1>0, <1>2, <2>2, ConvertKeeps
<1>3. ASSUME ~NoSender, Become(s, "waiting"), waiters' = Append(waiters, s),
             sinkWaiters' = sinkWaiters \cup {s}, UNCHANGED <<free, assigned, woken, converting>>
      PROVE  IInv'
  BY <1>0, <1>3, WaitKeeps
<1>4. CASE Send(s)
  BY <1>1, <1>2, <1>3, <1>4 DEF Send
<1>5. CASE TrySend(s)
  BY <1>1, <1>2, <1>5 DEF TrySend
<1> QED BY <1>4, <1>5

LEMMA PollKeeps ==
  ASSUME IInv, NEW s \in Sends, Poll(s) \/ Leave(s)
  PROVE  IInv'
<1>0. s \in Waiting
  BY DEF Poll, Leave, IInv, TypeOK
<1>1. CASE Leave(s)
  BY <1>0, <1>1, WithdrawKeeps DEF Leave
<1>2. CASE Poll(s)
  <2>1. CASE NoSender /\ Become(s, "closed") /\ Withdraw(s) /\ UNCHANGED converting
    BY <1>0, <1>2, <2>1, WithdrawKeeps DEF Poll
  <2>2. CASE ~NoSender /\ s \in assigned /\ Convert(s) /\ UNCHANGED <<free, waiters>>
    <3>1. IsFiniteSet(assigned) /\ assigned' = assigned \ {s}
      BY <2>2 DEF Convert, IInv, WaitInv
    <3>2. Cardinality(assigned') = Cardinality(assigned) - 1
      BY <2>2, <3>1, FS_RemoveElement
    <3>3. free' \in Nat /\ free' + Cardinality(assigned') = free + Cardinality(assigned) - 1
      BY <2>2, <3>2, Numbers DEF IInv
    <3>4. state[s] # "converting" /\ VmIdle
      BY <1>0, <1>2 DEF Waiting, Poll
    <3> QED BY <1>0, <1>2, <2>2, <3>3, <3>4, ConvertKeeps DEF Poll
  <2>3. CASE /\ ~NoSender /\ s \notin assigned /\ woken' = woken \ {s}
             /\ UNCHANGED <<free, waiters, assigned, state, sinkWaiters, converting>>
    <3>1. UNCHANGED <<queue, hostVars, closed, collected, pushed>>
      BY <1>2 DEF Poll
    <3>2. EndInv'
      BY <2>3, <3>1 DEF IInv, EndInv, NothingBehindEnd, NoSender, Waiting, hostVars
    <3>3. woken' \subseteq Waiting /\ {ended', closed', collected'} \subseteq BOOLEAN
      BY <2>3, <3>1 DEF IInv, TypeOK, hostVars
    <3> QED BY <2>3, <3>1, <3>2, <3>3, StillKeeps DEF tokioVars, hostVars
  <2> QED BY <1>2, <2>1, <2>2, <2>3 DEF Poll
<1> QED BY <1>1, <1>2

LEMMA CloseKeeps ==
  ASSUME IInv, Close \/ Collect \/ RecvEnd
  PROVE  IInv'
<1>1. /\ UNCHANGED <<tokioVars, freed, hostGone, hostClosed, received, state, sinkWaiters, converting, pushed>>
      /\ Waiting' = Waiting
  BY DEF Close, Collect, RecvEnd, HostStep, hostVars, luaVars, Waiting
<1>2. woken' \subseteq Waiting /\ {ended', closed', collected'} \subseteq BOOLEAN
  BY DEF Close, Collect, RecvEnd, HostStep, hostVars, luaVars, IInv, TypeOK, CloseWakes
<1>3. EndInv'
  <2>1. CASE Close
    BY <1>1, <2>1 DEF Close, EndInv, IInv, NothingBehindEnd, NoSender, hostVars, tokioVars
  <2>2. CASE Collect
    BY <1>1, <2>2 DEF Collect, EndInv, IInv, NothingBehindEnd, NoSender, hostVars, tokioVars
  <2>3. CASE RecvEnd
    <3>1. queue = <<>> /\ ~hostGone /\ UNCHANGED <<closed, collected>>
      BY <2>3 DEF RecvEnd, Unused, HostStep, luaVars
    <3>2. received = pushed
      <4>1. received \o queue = pushed /\ received \in Seq(Sends)
        BY <3>1 DEF IInv, EndInv, NothingBehindEnd, TypeOK
      <4> QED BY <4>1, <3>1, ConcatEmptySeq
    <3>3. converting \in Seq(Sends)
      BY DEF IInv, TypeOK
    <3>4. CASE NoClones
      <4>1. converting = <<>>
        <5>1. Range(converting) = {}
          BY <3>4 DEF NoClones, Clones
        <5>2. Len(converting) \in Nat /\ \A i \in 1..Len(converting) : converting[i] \in Range(converting)
          BY <3>3 DEF Range
        <5>3. Len(converting) = 0
          BY <5>1, <5>2
        <5> QED BY <3>3, <5>3, EmptySeq
      <4> QED BY <1>1, <3>1, <3>2, <3>4, <4>1 DEF NoClones, EndInv, IInv, NothingBehindEnd, NoSender, tokioVars
    <3>5. CASE hostClosed /\ free = Cap
      <4>1. Len(converting) = 0
        <5>1. free + Used <= Cap /\ Used = freed + Cardinality(assigned) + Len(converting) + Len(queue)
          BY DEF IInv, RoomInv, Used
        <5>2. TypeOK /\ WaitInv
          BY DEF IInv
        <5> QED BY <3>5, <5>1, <5>2, Numbers
      <4>2. converting = <<>>
        BY <3>3, <4>1, EmptySeq
      <4> QED BY <1>1, <3>1, <3>2, <3>5, <4>2 DEF EndInv, IInv, NothingBehindEnd, NoSender, tokioVars
    <3> QED BY <2>3, <3>4, <3>5 DEF RecvEnd
  <2> QED BY <2>1, <2>2, <2>3
<1> QED BY <1>1, <1>2, <1>3, StillKeeps

\* The innermost conversion is over.
LEMMA EndConvertKeeps ==
  ASSUME IInv, EndConvert
  PROVE  IInv'
<1> USE DEF IInv
<1> DEFINE s == Last(converting)
<1>0. /\ converting \in Seq(Sends) /\ Len(converting) \in Nat \ {0}
      /\ s = converting[Len(converting)] /\ s \in Sends /\ state[s] = "converting" /\ s \notin Waiting
      /\ converting' \in Seq(Sends) /\ Len(converting') = Len(converting) - 1
      /\ \A i \in 1..Len(converting') : converting'[i] = converting[i] /\ converting[i] # s
      /\ UNCHANGED <<hostVars, closed, collected, sinkWaiters>>
  <2>1. converting \in Seq(Sends) /\ converting # <<>> /\ converting' = SubSeq(converting, 1, Len(converting) - 1)
    BY DEF EndConvert, TypeOK, Front
  <2>2. Len(converting) \in Nat \ {0}
    BY <2>1
  <2>3. s = converting[Len(converting)] /\ s \in Sends /\ state[s] = "converting"
    BY <2>1, <2>2 DEF Last, ConvInv
  <2>4. /\ converting' \in Seq(Sends) /\ Len(converting') = Len(converting) - 1
        /\ \A i \in 1..Len(converting') : converting'[i] = converting[i]
    <3> DEFINE n == Len(converting) - 1
    <3>1. n \in 0..Len(converting) /\ (1 <= n \/ n = 0) /\ n - 1 + 1 = n /\ Len(converting) = n + 1
      BY <2>2
    <3>2. converting' = SubSeq(converting, 1, n)
      BY <2>1
    <3> HIDE DEF n
    <3>3. converting' \in Seq(Sends) /\ Len(converting') = n
          /\ \A i \in 1..n : converting'[i] = converting[i]
      BY <2>1, <2>2, <3>1, <3>2
    <3> QED BY <3>1, <3>3
  <2>5. \A i \in 1..Len(converting') : converting[i] # s
    <3>1. ASSUME NEW i \in 1..Len(converting'), converting[i] = s PROVE FALSE
      <4>1. i \in 1..Len(converting) /\ Len(converting) \in 1..Len(converting) /\ i # Len(converting)
        BY <2>2, <2>4
      <4> QED BY <3>1, <4>1, <2>3 DEF ConvInv
    <3> QED BY <3>1
  <2> QED BY <2>1, <2>2, <2>3, <2>4, <2>5 DEF EndConvert, Waiting
<1>1. PICK w \in {"sent", "failed"} :
        /\ Become(s, w)
        /\ w = "sent" => /\ pushed' = Append(pushed, s) /\ UNCHANGED <<free, waiters, assigned, woken>>
                         /\ queue' = IF hostGone THEN queue ELSE Append(queue, s)
        /\ w = "failed" => GiveRoom({}, waiters) /\ UNCHANGED <<queue, pushed>>
  BY DEF EndConvert, RoomBack
<1> HIDE DEF s
<1>2. /\ state' = [state EXCEPT ![s] = w] /\ Waiting' = Waiting
      /\ state' \in [Sends -> {"new", "waiting", "converting", "sent", "closed", "failed", "full", "left"}]
  BY <1>0, <1>1 DEF Become, TypeOK, Waiting
<1>3. /\ Fit(Waiting') /\ free' \in Nat
      /\ w = "failed" => free' + Cardinality(assigned') = free + Cardinality(assigned) + 1
      /\ w = "sent" => free' = free /\ assigned' = assigned
  <2>1. CASE w = "failed"
    <3>1. Fit(Waiting \ {}) /\ free' \in Nat /\ free' + Cardinality(assigned') = free + Cardinality(assigned) + 1
      BY <1>1, <2>1, RoomGiven
    <3>2. Waiting \ {} = Waiting'
      BY <1>2
    <3> QED BY <3>1, <3>2, <2>1
  <2>2. CASE w = "sent"
    BY <1>1, <1>2, <2>2, Unmoved DEF TypeOK
  <2> QED BY <2>1, <2>2
<1>4. WaitInv' /\ waiters' \in Seq(Waiting')
  BY <1>2, <1>3, FitKeeps
<1>5. ConvInv'
  BY SMTT(30), <1>0, <1>2 DEF ConvInv, TypeOK
<1>6. Cardinality(assigned') \in Nat
  BY <1>4, FS_CardinalityType DEF WaitInv
<1>7. /\ queue' \in Seq(Sends) /\ pushed' \in Seq(Sends)
      /\ w = "sent" /\ ~hostGone => Len(queue') = Len(queue) + 1
      /\ w = "failed" \/ hostGone => queue' = queue
  <2>1. queue \in Seq(Sends) /\ pushed \in Seq(Sends)
    BY DEF TypeOK
  <2>2. /\ Append(queue, s) \in Seq(Sends) /\ Len(Append(queue, s)) = Len(queue) + 1
        /\ Append(pushed, s) \in Seq(Sends)
    BY <2>1, <1>0
  <2> HIDE DEF IInv
  <2>3. /\ w = "sent" => pushed' = Append(pushed, s) /\ queue' = IF hostGone THEN queue ELSE Append(queue, s)
        /\ w = "failed" => queue' = queue /\ pushed' = pushed
    BY <1>1
  <2> QED BY <2>1, <2>2, <2>3
<1>8. RoomInv' /\ free' \in 0..Cap
  <2> HIDE DEF IInv
  <2>0. TypeOK /\ WaitInv /\ RoomInv
    BY DEF IInv
  <2>1. PICK f \in Nat, k \in Nat, a \in Nat, c \in Nat, q \in Nat :
          f = free /\ k = freed /\ a = Cardinality(assigned) /\ c = Len(converting) /\ q = Len(queue)
    BY <2>0, Numbers
  <2>2. PICK f1 \in Nat, a1 \in Nat : f1 = free' /\ a1 = Cardinality(assigned')
    BY <1>3, <1>6
  <2>3. c # 0 /\ Len(converting') = c - 1 /\ c - 1 \in Nat
    BY <1>0, <2>1
  <2>4. Len(queue') = IF w = "sent" /\ ~hostGone THEN q + 1 ELSE q
    BY <1>7, <2>1
  <2>5. f1 + a1 = IF w = "failed" THEN f + a + 1 ELSE f + a
    BY <1>3, <2>1, <2>2
  <2>6. UNCHANGED hostVars /\ (hostGone => queue' = <<>>)
    BY <1>0, <1>7, <2>0 DEF RoomInv
  <2>7. CASE w = "sent" /\ hostGone
    <3>1. f + (k + a + c + q) <= Cap
      BY <2>0, <2>1 DEF RoomInv, Used
    <3>2. f1 + (k + a1 + (c - 1) + q) <= Cap /\ f1 \in 0..Cap
      BY <2>3, <2>5, <2>7, <3>1
    <3>3. Len(queue') = q /\ freed' = k /\ hostGone' = hostGone /\ hostClosed' = hostClosed
      BY <2>1, <2>4, <2>6, <2>7 DEF hostVars
    <3>4. free' + Used' <= Cap
      BY <2>2, <2>3, <3>2, <3>3 DEF Used
    <3>5. free' \in 0..Cap
      BY <2>2, <3>2
    <3>6. hostGone' /\ queue' = <<>> /\ freed' = 0 /\ hostClosed'
      BY <2>0, <2>6, <2>7, <3>3, <2>1 DEF RoomInv
    <3> QED BY <3>4, <3>5, <3>6 DEF RoomInv, RoomConserved
  <2>8. CASE ~(w = "sent" /\ hostGone)
    <3>1. PICK q1 \in Nat : q1 = Len(queue') /\ f1 + a1 + (c - 1) + q1 = f + a + c + q
      BY <2>3, <2>4, <2>5, <2>8
    <3>2. free' + Cardinality(assigned') + Len(converting') + Len(queue')
            = free + Cardinality(assigned) + Len(converting) + Len(queue)
      BY <2>1, <2>2, <2>3, <3>1
    <3>3. Len(converting') \in Nat /\ Len(queue') \in Nat
      BY <2>3, <3>1
    <3> QED BY <2>0, <2>6, <1>3, <1>6, <3>2, <3>3, RoomMoved
  <2> QED BY <2>7, <2>8
<1>9. TypeOK'
  BY <1>0, <1>2, <1>3, <1>4, <1>7, <1>8 DEF TypeOK, Fit, hostVars
<1>10. EndInv'
  <2>1. ~ended
    BY <1>0 DEF EndInv
  <2>2. ~hostGone => received' \o queue' = pushed'
    <3> SUFFICES ASSUME ~hostGone PROVE received' \o queue' = pushed'
      OBVIOUS
    <3>1. received \o queue = pushed /\ received' = received /\ received \in Seq(Sends) /\ queue \in Seq(Sends)
      BY <1>0 DEF EndInv, NothingBehindEnd, TypeOK, hostVars
    <3>2. received \o Append(queue, s) = Append(received \o queue, s)
      BY <1>0, <3>1
    <3> QED BY <1>1, <3>1, <3>2
  <2> QED BY <1>0, <1>2, <2>1, <2>2 DEF EndInv, NothingBehindEnd, NoSender, hostVars
<1> QED BY <1>4, <1>5, <1>8, <1>9, <1>10

(***************************************************************************)
(* The host's steps.                                                       *)
(***************************************************************************)
LEMMA HostStepKeeps ==
  ASSUME IInv, HostStep, Fit(Waiting'), RoomInv', free' \in 0..Cap, freed' \in 0..1,
         queue' \in Seq(Sends), received' \in Seq(Sends), {hostClosed', hostGone', ended'} \subseteq BOOLEAN,
         EndInv'
  PROVE  IInv'
<1> USE DEF IInv
<1>1. Waiting' = Waiting /\ state' = state
  BY DEF HostStep, luaVars, Waiting
<1>2. WaitInv' /\ waiters' \in Seq(Waiting')
  BY <1>1, FitKeeps DEF TypeOK
<1>3. ConvInv'
  BY <1>1 DEF ConvInv, HostStep, luaVars
<1>4. TypeOK'
  BY <1>1, <1>2 DEF TypeOK, Fit, HostStep, luaVars
<1> QED BY <1>2, <1>3, <1>4

LEMMA RecvKeeps ==
  ASSUME IInv, Recv
  PROVE  IInv'
<1>0. TypeOK /\ WaitInv /\ RoomInv /\ EndInv
  BY DEF IInv
<1>1. /\ queue \in Seq(Sends) /\ received \in Seq(Sends) /\ queue # <<>> /\ ~hostGone /\ freed = 0 /\ freed' = 1
      /\ received' = Append(received, Head(queue)) /\ queue' = Tail(queue)
      /\ UNCHANGED <<free, waiters, assigned, woken, hostClosed, hostGone, ended>> /\ HostStep
  BY <1>0 DEF Recv, TypeOK
<1>2. /\ Head(queue) \in Sends /\ queue' \in Seq(Sends) /\ received' \in Seq(Sends)
      /\ Len(queue) \in Nat \ {0} /\ Len(queue') = Len(queue) - 1
  BY <1>1
<1>3. received' \o queue' = received \o queue
  BY <1>1
<1>4. Fit(Waiting')
  <2>1. Waiting' = Waiting
    BY <1>1 DEF HostStep, luaVars, Waiting
  <2> QED BY <1>0, <1>1, <2>1, Unmoved DEF TypeOK
<1>5. RoomInv' /\ free' \in 0..Cap
  <2>1. PICK q \in Nat : q = Len(queue) /\ q # 0 /\ Len(queue') = q - 1
    BY <1>2
  <2>2. /\ free + (0 + Cardinality(assigned) + Len(converting) + q) <= Cap
        /\ free + 0 + Cardinality(assigned) + Len(converting) + q = Cap
    BY <1>0, <1>1, <2>1 DEF RoomInv, RoomConserved, Used
  <2>3. PICK f \in Nat, a \in Nat, c \in Nat : f = free /\ a = Cardinality(assigned) /\ c = Len(converting)
    BY <1>0, Numbers
  <2>4. /\ f + (1 + a + c + (q - 1)) <= Cap /\ f + 1 + a + c + (q - 1) = Cap /\ f \in 0..Cap
    BY SMTT(30), <2>1, <2>2, <2>3
  <2>5. free' = f /\ freed' = 1 /\ assigned' = assigned /\ converting' = converting /\ ~hostGone'
    BY <1>1, <2>3 DEF HostStep, luaVars
  <2> QED BY <2>1, <2>3, <2>4, <2>5 DEF RoomInv, RoomConserved, Used
<1>6. EndInv'
  <2>1. ~ended
    BY <1>0, <1>1 DEF EndInv
  <2> QED BY <1>0, <1>1, <1>3, <2>1 DEF EndInv, NothingBehindEnd, NoSender, HostStep, luaVars, Waiting
<1>7. freed' \in 0..1 /\ {hostClosed', hostGone', ended'} \subseteq BOOLEAN
  BY <1>0, <1>1 DEF TypeOK
<1> QED BY <1>1, <1>2, <1>4, <1>5, <1>6, <1>7, HostStepKeeps

LEMMA RecvGivesKeeps ==
  ASSUME IInv, RecvGives
  PROVE  IInv'
<1>0. TypeOK /\ WaitInv /\ RoomInv /\ EndInv
  BY DEF IInv
<1>1. /\ freed = 1 /\ freed' = 0 /\ GiveRoom({}, waiters)
      /\ UNCHANGED <<queue, hostClosed, hostGone, ended, received>> /\ HostStep
  BY DEF RecvGives
<1>2. /\ Fit(Waiting') /\ free' \in Nat /\ Cardinality(assigned') \in Nat
      /\ free' + Cardinality(assigned') = free + Cardinality(assigned) + 1
  <2>1. Waiting' = Waiting \ {}
    BY <1>1 DEF HostStep, luaVars, Waiting
  <2> QED BY <1>0, <1>1, <2>1, RoomGiven
<1>3. ~hostGone
  BY <1>0, <1>1 DEF RoomInv
<1>4. RoomInv' /\ free' \in 0..Cap
  <2>1. PICK f \in Nat, a \in Nat, c \in Nat, q \in Nat :
          f = free /\ a = Cardinality(assigned) /\ c = Len(converting) /\ q = Len(queue)
    BY <1>0, Numbers
  <2>2. PICK f1 \in Nat, a1 \in Nat : f1 = free' /\ a1 = Cardinality(assigned')
    BY <1>2
  <2>3. f1 + a1 = f + a + 1
    BY <1>2, <2>1, <2>2
  <2>4. f + (1 + a + c + q) <= Cap /\ f + 1 + a + c + q = Cap
    BY <1>0, <1>1, <1>3, <2>1 DEF RoomInv, RoomConserved, Used
  <2>5. f1 + (0 + a1 + c + q) <= Cap /\ f1 + 0 + a1 + c + q = Cap /\ f1 \in 0..Cap
    BY <2>3, <2>4
  <2>6. freed' = 0 /\ converting' = converting /\ queue' = queue /\ hostGone' = hostGone
    BY <1>1 DEF HostStep, luaVars
  <2> QED BY <1>3, <2>1, <2>2, <2>5, <2>6 DEF RoomInv, RoomConserved, Used
<1>5. EndInv'
  BY <1>0, <1>1 DEF EndInv, NothingBehindEnd, NoSender, HostStep, luaVars, Waiting
<1>6. /\ freed' \in 0..1 /\ {hostClosed', hostGone', ended'} \subseteq BOOLEAN
      /\ queue' \in Seq(Sends) /\ received' \in Seq(Sends)
  BY <1>0, <1>1 DEF TypeOK
<1> QED BY <1>1, <1>2, <1>4, <1>5, <1>6, HostStepKeeps

LEMMA HostCloseKeeps ==
  ASSUME IInv, HostClose \/ HostDrop
  PROVE  IInv'
<1>0. TypeOK /\ WaitInv /\ RoomInv /\ EndInv
  BY DEF IInv
<1>1. /\ hostClosed' = TRUE /\ woken' = woken \cup Range(waiters) /\ waiters' = <<>>
      /\ UNCHANGED <<assigned, freed, ended, received>> /\ HostStep
  BY DEF HostClose, HostDrop
<1>2. Fit(Waiting')
  <2>1. Waiting' = Waiting
    BY <1>1 DEF HostStep, luaVars, Waiting
  <2>2. Range(waiters) \subseteq Waiting
    BY <1>0, WaitFacts DEF Range
  <2> QED BY <1>0, <1>1, <2>1, <2>2, WaitFacts DEF Fit
<1>3. CASE HostClose
  <2>1. UNCHANGED <<queue, free, hostGone>>
    BY <1>3 DEF HostClose
  <2>2. RoomInv' /\ free' \in 0..Cap
    BY <1>0, <1>1, <2>1 DEF RoomInv, RoomConserved, Used, HostStep, luaVars, TypeOK
  <2>3. EndInv'
    BY <1>0, <1>1, <2>1 DEF EndInv, NothingBehindEnd, NoSender, HostStep, luaVars, Waiting
  <2>4. /\ freed' \in 0..1 /\ {hostClosed', hostGone', ended'} \subseteq BOOLEAN
        /\ queue' \in Seq(Sends) /\ received' \in Seq(Sends)
    BY <1>0, <1>1, <2>1 DEF TypeOK
  <2> QED BY <1>1, <1>2, <2>2, <2>3, <2>4, HostStepKeeps
<1>4. CASE HostDrop
  <2>1. ~hostGone /\ freed = 0 /\ hostGone' = TRUE /\ queue' = <<>> /\ free' = free + Len(queue)
    BY <1>4 DEF HostDrop
  <2>2. RoomInv' /\ free' \in 0..Cap
    <3>1. PICK f \in Nat, a \in Nat, c \in Nat, q \in Nat :
            f = free /\ a = Cardinality(assigned) /\ c = Len(converting) /\ q = Len(queue)
      BY <1>0, Numbers
    <3>2. f + (0 + a + c + q) <= Cap
      BY <1>0, <2>1, <3>1 DEF RoomInv, Used
    <3>3. (f + q) + (0 + a + c + 0) <= Cap /\ f + q \in 0..Cap
      BY <3>1, <3>2
    <3>4. /\ freed' = 0 /\ free' = f + q /\ Cardinality(assigned') = a /\ Len(converting') = c /\ Len(queue') = 0
      BY <1>1, <2>1, <3>1 DEF HostStep, luaVars
    <3>5. free' + Used' <= Cap
      BY <3>3, <3>4 DEF Used
    <3> QED BY <1>1, <2>1, <3>3, <3>4, <3>5 DEF RoomInv, RoomConserved
  <2>3. EndInv'
    BY <1>0, <1>1, <2>1 DEF EndInv, NothingBehindEnd, NoSender, HostStep, luaVars, Waiting
  <2>4. /\ freed' \in 0..1 /\ {hostClosed', hostGone', ended'} \subseteq BOOLEAN
        /\ queue' \in Seq(Sends) /\ received' \in Seq(Sends)
    BY <1>0, <1>1, <2>1 DEF TypeOK
  <2> QED BY <1>1, <1>2, <2>2, <2>3, <2>4, HostStepKeeps
<1> QED BY <1>3, <1>4

(***************************************************************************)
(* The theorems.                                                           *)
(***************************************************************************)
LEMMA InitIInv == Init => IInv
<1> SUFFICES ASSUME Init PROVE IInv
  OBVIOUS
<1>1. IsFiniteSet({}) /\ Cardinality({}) = 0
  BY FS_EmptySet
<1>2. TypeOK
  <2>1. Waiting = {}
    BY DEF Init, Waiting
  <2>2. /\ queue \in Seq(Sends) /\ pushed \in Seq(Sends) /\ received \in Seq(Sends)
        /\ waiters \in Seq(Waiting) /\ converting \in Seq(Sends)
    BY EmptySeq DEF Init
  <2>3. free \in 0..Cap /\ freed \in 0..1
    BY DEF Init
  <2>4. /\ assigned \subseteq Waiting /\ woken \subseteq Waiting /\ sinkWaiters = Waiting
        /\ \A b \in {hostClosed, hostGone, ended, closed, collected} : b \in BOOLEAN
    BY <2>1 DEF Init
  <2>5. state \in [Sends -> {"new", "waiting", "converting", "sent", "closed", "failed", "full", "left"}]
    BY DEF Init
  <2> QED BY <2>2, <2>3, <2>4, <2>5 DEF TypeOK
<1>3. WaitInv /\ ConvInv
  BY <1>1 DEF Init, WaitInv, Lines, ConvInv
<1>4. RoomInv
  BY <1>1 DEF Init, RoomInv, RoomConserved, Used
<1>5. EndInv
  BY DEF Init, EndInv, NothingBehindEnd, Waiting
<1> QED BY <1>2, <1>3, <1>4, <1>5 DEF IInv

LEMMA Inductive == Spec => []IInv
<1>1. IInv /\ [Next]_vars => IInv'
  <2> SUFFICES ASSUME IInv, [Next]_vars PROVE IInv'
    OBVIOUS
  <2>1. CASE UNCHANGED vars
    <3>1. EndInv' /\ woken' \subseteq Waiting /\ {ended', closed', collected'} \subseteq BOOLEAN
      BY <2>1 DEF vars, tokioVars, hostVars, luaVars, IInv, EndInv, NothingBehindEnd, NoSender, Waiting, TypeOK
    <3> QED BY <2>1, <3>1, StillKeeps DEF vars, tokioVars, hostVars, luaVars
  <2>2. CASE \E s \in Sends : Send(s) \/ TrySend(s) \/ Poll(s) \/ Leave(s)
    BY <2>2, SendKeeps, PollKeeps
  <2> QED BY <2>1, <2>2, EndConvertKeeps, CloseKeeps, RecvKeeps, RecvGivesKeeps, HostCloseKeeps DEF Next
<1> QED BY <1>1, InitIInv, PTL DEF Spec

\* Every variable keeps its type; the permits that are free never outnumber the capacity, and
\* the registered wakers are those of the waiting sends (chan.rs poll_sink, wait_sink).
THEOREM TypeCorrect == Spec => []TypeOK
<1>1. IInv => TypeOK
  BY DEF IInv
<1> QED BY <1>1, Inductive, PTL

\* Room is neither lost nor made (chan.rs SinkPermit::send, Sending::withdraw).
THEOREM RoomIsConserved == Spec => []RoomConserved
<1>1. IInv => RoomConserved
  BY DEF IInv, RoomInv
<1> QED BY <1>1, Inductive, PTL

\* The host gets what was sent, in order, and None only behind it (chan.rs HostTx).
THEOREM NothingComesBehindEnd == Spec => []NothingBehindEnd
<1>1. IInv => NothingBehindEnd
  BY DEF IInv, EndInv
<1> QED BY <1>1, Inductive, PTL

-----------------------------------------------------------------------------
(***************************************************************************)
(* Isle.                                                                   *)
(***************************************************************************)
USE ShutdownAssumption, NoneAssumption, LoopsAssumption

(***************************************************************************)
(* The inductive strengthening.                                            *)
(***************************************************************************)
Queued(r) == \E i \in 1..Len(inbox) : inbox[i] = r

\* Shutdown is the last message, and comes from a handle that is given up.
LastInv ==
  \A i \in 1..Len(inbox) : inbox[i] = Shutdown => i = Len(inbox) /\ handle \notin {"spawning", "owned"}

\* What the handle knows of the thread.
PhaseInv ==
  /\ handle = "spawning" => inbox = <<>>
  /\ handle \in {"owned", "joining", "joined"} => report = "ok"
  /\ thread = "init" => report = None /\ handle = "spawning"
  /\ thread \in {"running", "closing", "unwinding"} => report = "ok"
  /\ report = "error" => thread = "done"
  /\ thread = "closing" => inbox = <<>>
  /\ thread \in {"closing", "done"} /\ report = "ok" => handle \notin {"spawning", "owned"}
  /\ handle = "joined" => thread = "done"

\* Where the request of a Task without an answer is.
Fallen == thread \in {"unwinding", "panicked"}
LiveInv ==
  \A r \in Requests :
    /\ task[r] # "none" /\ reply[r] = None /\ got[r] = None => current = r \/ Queued(r) \/ Fallen
    /\ got[r] = "recvFailed" => Fallen

\* A Task still held is released once its result was taken; one not made is as at first.
HeldInv ==
  \A r \in Requests :
    /\ task[r] = "held" => (r \in released <=> got[r] # None)
    /\ task[r] = "none" => r \notin released /\ got[r] = None /\ r \notin cancelled

IsleInv == IsleTypeOK /\ LastInv /\ PhaseInv /\ LiveInv /\ HeldInv /\ OnlyDropCancels

LEMMA InitIsleInv == IsleInit => IsleInv
BY DEF IsleInit, IsleInv, IsleTypeOK, LastInv, PhaseInv, LiveInv, Queued, Fallen, HeldInv, OnlyDropCancels, Results

(***************************************************************************)
(* Steps that only move Tasks.                                             *)
(***************************************************************************)
LEMMA QueueKept ==
  ASSUME LastInv, PhaseInv, TaskStep
  PROVE  LastInv' /\ PhaseInv' /\ (\A r : Queued(r)' <=> Queued(r)) /\ (Fallen' <=> Fallen)
<1> USE DEF TaskStep, threadVars
<1>1. LastInv'
  BY DEF LastInv
<1>2. PhaseInv'
  BY DEF PhaseInv
<1> QED BY <1>1, <1>2 DEF Queued, Fallen

LEMMA TaskKeeps ==
  ASSUME IsleInv, NEW t \in Requests,
         Cancel(t) \/ TryRecv(t) \/ Wait(t) \/ Detach(t) \/ DropTask(t)
  PROVE  IsleInv'
<1>1. TaskStep /\ (\A r : Queued(r)' <=> Queued(r)) /\ (Fallen' <=> Fallen) /\ LastInv' /\ PhaseInv'
  <2>1. TaskStep
    BY DEF Cancel, TryRecv, Wait, Detach, DropTask
  <2> QED BY <2>1, QueueKept DEF IsleInv
<1> USE DEF IsleInv, Cancel, TryRecv, Wait, Detach, DropTask
<1>2. IsleTypeOK'
  BY DEF IsleTypeOK, Results, TaskStep, threadVars, DropCancels, TriedReleases
<1>3. LiveInv'
  BY <1>1 DEF LiveInv, IsleTypeOK, TaskStep, threadVars, Results
<1>4. HeldInv'
  BY DEF HeldInv, IsleTypeOK, Results, TriedReleases, DropCancels
<1>5. OnlyDropCancels'
  BY DEF OnlyDropCancels, HeldInv, IsleTypeOK, Results, TriedReleases, DropCancels
<1> QED BY <1>1, <1>2, <1>3, <1>4, <1>5

LEMMA WaitReturnsKeeps ==
  ASSUME IsleInv, NEW t \in Requests, WaitReturns(t)
  PROVE  IsleInv'
<1>1. TaskStep /\ (\A r : Queued(r)' <=> Queued(r)) /\ (Fallen' <=> Fallen) /\ LastInv' /\ PhaseInv'
  <2>1. TaskStep
    BY DEF WaitReturns
  <2> QED BY <2>1, QueueKept DEF IsleInv
<1>2. SenderLives(t) <=> (current = t \/ Queued(t))
  BY DEF SenderLives, Queued, Range, IsleInv, IsleTypeOK
<1> USE DEF IsleInv, WaitReturns
<1>3. IsleTypeOK'
  BY DEF IsleTypeOK, Results, TaskStep, threadVars
<1>4. LiveInv'
  BY <1>1, <1>2 DEF LiveInv, IsleTypeOK, TaskStep, threadVars, Results
<1>5. HeldInv'
  BY DEF HeldInv, IsleTypeOK
<1>6. OnlyDropCancels'
  BY DEF OnlyDropCancels, IsleTypeOK
<1> QED BY <1>1, <1>3, <1>4, <1>5, <1>6

(***************************************************************************)
(* Steps of the thread.                                                    *)
(***************************************************************************)
LEMMA TasksKept ==
  ASSUME HeldInv, OnlyDropCancels, UNCHANGED taskVars
  PROVE  HeldInv' /\ OnlyDropCancels'
BY DEF HeldInv, OnlyDropCancels, taskVars

LEMMA InitVmKeeps == IsleInv /\ InitVm => IsleInv'
<1> SUFFICES ASSUME IsleInv, InitVm PROVE IsleInv'
  OBVIOUS
<1>0. HeldInv' /\ OnlyDropCancels'
  BY TasksKept DEF IsleInv, InitVm
<1> USE DEF IsleInv, InitVm, taskVars
<1>1. IsleTypeOK'
  BY DEF IsleTypeOK, Results, PhaseInv
<1>2. LastInv'
  BY DEF LastInv
<1>3. PhaseInv'
  BY DEF PhaseInv, IsleTypeOK
<1>4. LiveInv'
  BY DEF LiveInv, Queued, Fallen
<1> QED BY <1>0, <1>1, <1>2, <1>3, <1>4

LEMMA TakeKeeps == IsleInv /\ Take => IsleInv'
<1> SUFFICES ASSUME IsleInv, Take PROVE IsleInv'
  OBVIOUS
<1>a. HeldInv' /\ OnlyDropCancels'
  BY TasksKept DEF IsleInv, Take
<1>0. /\ inbox \in Seq(Requests \cup {Shutdown}) /\ inbox # <<>>
      /\ Len(inbox) \in Nat \ {0}
      /\ inbox' \in Seq(Requests \cup {Shutdown})
      /\ Len(inbox') = Len(inbox) - 1
      /\ \A i \in 1..Len(inbox') : inbox'[i] = inbox[i + 1]
      /\ Head(inbox) = inbox[1] /\ Head(inbox) \in Requests \cup {Shutdown}
  BY DEF IsleInv, Take, IsleTypeOK
<1>2. LastInv'
  <2>1. ASSUME NEW i \in 1..Len(inbox'), inbox'[i] = Shutdown
        PROVE  i = Len(inbox') /\ handle \notin {"spawning", "owned"}
    <3>1. i + 1 \in 1..Len(inbox) /\ inbox[i + 1] = Shutdown
      BY <2>1, <1>0
    <3>2. i + 1 = Len(inbox) /\ handle \notin {"spawning", "owned"}
      BY <3>1 DEF IsleInv, LastInv
    <3> QED BY <3>2, <1>0
  <2>2. handle' = handle
    BY DEF Take
  <2> QED BY <2>1, <2>2 DEF LastInv
<1>3. Head(inbox) = Shutdown => inbox' = <<>> /\ handle \notin {"spawning", "owned"}
  <2>1. 1 \in 1..Len(inbox)
    BY <1>0
  <2>2. Head(inbox) = Shutdown => Len(inbox) = 1 /\ handle \notin {"spawning", "owned"}
    BY <1>0, <2>1 DEF IsleInv, LastInv
  <2>3. Len(inbox') = 0 => inbox' = <<>>
    BY <1>0
  <2> QED BY <1>0, <2>2, <2>3
<1> USE DEF IsleInv, Take, taskVars
<1>1. IsleTypeOK'
  BY <1>0 DEF IsleTypeOK, Results
<1>4. PhaseInv'
  BY <1>3 DEF PhaseInv, IsleTypeOK
<1>5. LiveInv'
  <2>1. ASSUME NEW r \in Requests, Queued(r) PROVE Queued(r)' \/ Head(inbox) = r
    <3>1. PICK i \in 1..Len(inbox) : inbox[i] = r
      BY <2>1 DEF Queued
    <3>2. CASE i = 1
      BY <3>1, <3>2, <1>0
    <3>3. CASE i # 1
      <4>1. i - 1 \in 1..Len(inbox') /\ inbox'[i - 1] = r
        BY <3>1, <3>3, <1>0
      <4> QED BY <4>1 DEF Queued
    <3> QED BY <3>2, <3>3
  <2>2. Fallen' <=> Fallen
    BY DEF Fallen
  <2>3. \A r \in Requests : r # Shutdown /\ r # None
    OBVIOUS
  <2> QED BY <2>1, <2>2, <2>3 DEF LiveInv
<1> QED BY <1>a, <1>1, <1>2, <1>4, <1>5

LEMMA RunKeeps == IsleInv /\ (Finish \/ Panic) => IsleInv'
<1> SUFFICES ASSUME IsleInv, Finish \/ Panic PROVE IsleInv'
  OBVIOUS
<1>a. HeldInv' /\ OnlyDropCancels'
  BY TasksKept DEF IsleInv, Finish, Panic, taskVars
<1> USE DEF IsleInv, Finish, Panic, taskVars
<1>1. IsleTypeOK'
  BY DEF IsleTypeOK, Results
<1>2. LastInv'
  BY DEF LastInv
<1>3. PhaseInv'
  BY DEF PhaseInv, IsleTypeOK
<1>4. LiveInv'
  BY DEF LiveInv, Queued, Fallen, IsleTypeOK, Results
<1> QED BY <1>a, <1>1, <1>2, <1>3, <1>4

LEMMA EndThreadKeeps == IsleInv /\ EndThread => IsleInv'
<1> SUFFICES ASSUME IsleInv, EndThread PROVE IsleInv'
  OBVIOUS
<1>a. HeldInv' /\ OnlyDropCancels'
  BY TasksKept DEF IsleInv, EndThread
<1> USE DEF IsleInv, EndThread, taskVars
<1>1. IsleTypeOK'
  BY DEF IsleTypeOK, Results
<1>2. LastInv'
  BY DEF LastInv
<1>3. PhaseInv'
  BY DEF PhaseInv, IsleTypeOK
<1>4. LiveInv'
  BY DEF LiveInv, Queued, Fallen, PhaseInv, IsleTypeOK
<1> QED BY <1>a, <1>1, <1>2, <1>3, <1>4

(***************************************************************************)
(* Steps of the handle.                                                    *)
(***************************************************************************)
LEMMA HandleKeeps == IsleInv /\ (SpawnReturns \/ Join) => IsleInv'
<1> SUFFICES ASSUME IsleInv, SpawnReturns \/ Join PROVE IsleInv'
  OBVIOUS
<1>a. HeldInv' /\ OnlyDropCancels'
  BY TasksKept DEF IsleInv, SpawnReturns, Join
<1> USE DEF IsleInv, SpawnReturns, Join, taskVars, threadVars
<1>1. IsleTypeOK'
  BY DEF IsleTypeOK, Results
<1>2. LastInv'
  BY DEF LastInv, PhaseInv
<1>3. PhaseInv'
  BY DEF PhaseInv, IsleTypeOK
<1>4. LiveInv'
  BY DEF LiveInv, Queued, Fallen
<1> QED BY <1>a, <1>1, <1>2, <1>3, <1>4

\* What posting a message to the channel does.
LEMMA Posted ==
  ASSUME IsleTypeOK, NEW m \in Requests \cup {Shutdown}, Post(m)
  PROVE  /\ inbox' \in Seq(Requests \cup {Shutdown})
         /\ ~ChannelOpen => inbox' = inbox
         /\ ChannelOpen => /\ Len(inbox') = Len(inbox) + 1
                           /\ inbox'[Len(inbox) + 1] = m
                           /\ \A i \in 1..Len(inbox) : inbox'[i] = inbox[i]
         /\ \A r : Queued(r) => Queued(r)'
         /\ ChannelOpen => Queued(m)'
<1>1. CASE ChannelOpen
  <2>1. /\ inbox' \in Seq(Requests \cup {Shutdown})
        /\ Len(inbox) \in Nat /\ Len(inbox') = Len(inbox) + 1
        /\ inbox'[Len(inbox) + 1] = m
        /\ \A i \in 1..Len(inbox) : inbox'[i] = inbox[i]
    BY <1>1 DEF Post, IsleTypeOK
  <2> QED BY <1>1, <2>1 DEF Queued
<1>2. CASE ~ChannelOpen
  BY <1>2 DEF Post, IsleTypeOK, Queued
<1> QED BY <1>1, <1>2

LEMMA GiveUpKeeps == IsleInv /\ (ShutdownIsle \/ DropIsle) => IsleInv'
<1> SUFFICES ASSUME IsleInv, ShutdownIsle \/ DropIsle PROVE IsleInv'
  OBVIOUS
<1>a. HeldInv' /\ OnlyDropCancels'
  BY TasksKept DEF IsleInv, ShutdownIsle, DropIsle
<1> USE DEF IsleInv, ShutdownIsle, DropIsle, taskVars
<1>b. IsleTypeOK /\ Post(Shutdown)
  BY DEF PostShutdown
<1>1. IsleTypeOK'
  BY <1>b, Posted DEF IsleTypeOK, Results, ChannelOpen
<1>2. LastInv'
  <2>1. \A i \in 1..Len(inbox) : inbox[i] # Shutdown
    BY DEF LastInv
  <2>2. Len(inbox) \in Nat
    BY <1>b DEF IsleTypeOK
  <2> QED BY <1>b, <2>1, <2>2, Posted DEF LastInv
<1>3. PhaseInv'
  BY <1>b DEF PhaseInv, IsleTypeOK
<1>4. LiveInv'
  BY <1>b, Posted DEF LiveInv, Fallen
<1> QED BY <1>a, <1>1, <1>2, <1>3, <1>4

LEMMA SubmitKeeps ==
  ASSUME IsleInv, NEW t \in Requests, Submit(t)
  PROVE  IsleInv'
<1> USE DEF IsleInv, Submit
<1>b. IsleTypeOK /\ Post(t)
  OBVIOUS
<1>1. IsleTypeOK'
  BY <1>b, Posted DEF IsleTypeOK, Results, ChannelOpen
<1>2. LastInv'
  <2>1. \A i \in 1..Len(inbox) : inbox[i] # Shutdown
    BY DEF LastInv
  <2>2. Len(inbox) \in Nat /\ t # Shutdown
    BY <1>b DEF IsleTypeOK
  <2> QED BY <1>b, <2>1, <2>2, Posted DEF LastInv
<1>3. PhaseInv'
  BY <1>b DEF PhaseInv, IsleTypeOK
<1>4. LiveInv'
  BY <1>b, Posted DEF LiveInv, Fallen, IsleTypeOK, HeldInv
<1>5. HeldInv'
  BY DEF HeldInv, IsleTypeOK
<1>6. OnlyDropCancels'
  BY DEF OnlyDropCancels, HeldInv, IsleTypeOK
<1> QED BY <1>1, <1>2, <1>3, <1>4, <1>5, <1>6

(***************************************************************************)
(* The theorems.                                                           *)
(***************************************************************************)
LEMMA IsleInductive == IsleSpec => []IsleInv
<1>1. IsleInv /\ [IsleNext]_isleVars => IsleInv'
  <2> SUFFICES ASSUME IsleInv, [IsleNext]_isleVars PROVE IsleInv'
    OBVIOUS
  <2>1. CASE UNCHANGED isleVars
    BY <2>1 DEF isleVars, threadVars, taskVars, IsleInv, IsleTypeOK, LastInv, PhaseInv, LiveInv, Queued, Fallen,
                HeldInv, OnlyDropCancels
  <2>2. CASE \E r \in Requests : Submit(r)
    BY <2>2, SubmitKeeps
  <2>3. CASE \E r \in Requests : WaitReturns(r)
    BY <2>3, WaitReturnsKeeps
  <2>4. CASE \E r \in Requests : Cancel(r) \/ TryRecv(r) \/ Wait(r) \/ Detach(r) \/ DropTask(r)
    BY <2>4, TaskKeeps
  <2> QED BY <2>1, <2>2, <2>3, <2>4, InitVmKeeps, TakeKeeps, RunKeeps, EndThreadKeeps, HandleKeeps,
             GiveUpKeeps DEF IsleNext
<1> QED BY <1>1, InitIsleInv, PTL DEF IsleSpec

\* Every variable keeps its type, and a thread that is over has nothing queued (thread.rs run_loop).
THEOREM IsleTypeCorrect == IsleSpec => []IsleTypeOK
<1>1. IsleInv => IsleTypeOK
  BY DEF IsleInv
<1> QED BY <1>1, IsleInductive, PTL

\* Only a Task dropped without its result, or a call of cancel, cancels a request (task.rs Drop).
THEOREM CancelsOnlyWhatIsDropped == IsleSpec => []OnlyDropCancels
<1>1. IsleInv => OnlyDropCancels
  BY DEF IsleInv
<1> QED BY <1>1, IsleInductive, PTL

\* An answer is lost only to a panic: shutdown and drop run what was submitted before them
\* (handle.rs shutdown, thread.rs run_loop).
THEOREM AnswersLostOnlyByPanic == IsleSpec => []LostOnlyByPanic
<1>1. ASSUME IsleInv PROVE LostOnlyByPanic
  BY <1>1 DEF IsleInv, LostOnlyByPanic, LiveInv, PhaseInv, IsleTypeOK, Queued, Fallen
<1> QED BY <1>1, IsleInductive, PTL

-----------------------------------------------------------------------------
(***************************************************************************)
(* The isle implements Service.                                            *)
(***************************************************************************)
Alive(r) == current = r \/ Queued(r)

\* Each message is queued once, an unanswered request is in one place, and an answer is taken once.
OnceInv == \A i, j \in 1..Len(inbox) : inbox[i] = inbox[j] => i = j
PlaceInv ==
  \A r \in Requests :
    /\ current = r => ~Queued(r)
    /\ Alive(r) => task[r] # "none" /\ reply[r] = None /\ got[r] = None
    /\ task[r] = "none" \/ got[r] # None => reply[r] = None
PanicInv == handle = "threadPanic" => thread = "panicked"

ServeInv == IsleInv /\ OnceInv /\ PlaceInv /\ PanicInv

LEMMA InitServeInv == IsleInit => ServeInv
BY InitIsleInv DEF IsleInit, ServeInv, OnceInv, PlaceInv, PanicInv, Alive, Queued

LEMMA SenderIsAlive == IsleTypeOK => \A r : SenderLives(r) <=> Alive(r)
BY DEF SenderLives, Alive, Queued, Range, IsleTypeOK

\* What posting adds to the channel, and what taking leaves of it.
LEMMA PostedOne ==
  ASSUME ServeInv, NEW m \in Requests \cup {Shutdown}, Post(m), ChannelOpen
  PROVE  /\ \A r : Queued(r)' <=> Queued(r) \/ r = m
         /\ ~Queued(m) => OnceInv'
<1>1. /\ Len(inbox) \in Nat /\ Len(inbox') = Len(inbox) + 1
      /\ inbox'[Len(inbox) + 1] = m
      /\ \A i \in 1..Len(inbox) : inbox'[i] = inbox[i]
  BY Posted DEF ServeInv, IsleInv, IsleTypeOK
<1>2. \A i \in 1..Len(inbox') : i \in 1..Len(inbox) \/ i = Len(inbox) + 1
  BY <1>1
<1>3. \A i \in 1..Len(inbox) : i \in 1..Len(inbox')
  BY <1>1
<1>4. Len(inbox) + 1 \in 1..Len(inbox')
  BY <1>1
<1>5. ASSUME NEW r PROVE Queued(r)' <=> Queued(r) \/ r = m
  BY <1>1, <1>2, <1>3, <1>4 DEF Queued
<1>6. ASSUME ~Queued(m) PROVE OnceInv'
  <2>1. \A i, j \in 1..Len(inbox) : inbox[i] = inbox[j] => i = j
    BY DEF ServeInv, OnceInv
  <2>2. \A i \in 1..Len(inbox) : inbox[i] # m
    BY <1>6 DEF Queued
  <2>3. ASSUME NEW i \in 1..Len(inbox'), NEW j \in 1..Len(inbox'), inbox'[i] = inbox'[j] PROVE i = j
    BY <1>1, <1>2, <2>1, <2>2, <2>3
  <2> QED BY <2>3 DEF OnceInv
<1> QED BY <1>5, <1>6

LEMMA TookOne ==
  ASSUME ServeInv, Take
  PROVE  /\ Head(inbox) \in Requests \cup {Shutdown}
         /\ \A r : Queued(r) <=> Queued(r)' \/ r = Head(inbox)
         /\ \A r : r = Head(inbox) => ~Queued(r)'
         /\ OnceInv'
<1>1. /\ inbox \in Seq(Requests \cup {Shutdown}) /\ inbox # <<>>
      /\ Len(inbox) \in Nat \ {0}
      /\ Len(inbox') = Len(inbox) - 1
      /\ \A i \in 1..Len(inbox') : inbox'[i] = inbox[i + 1]
      /\ Head(inbox) = inbox[1] /\ Head(inbox) \in Requests \cup {Shutdown}
  BY DEF ServeInv, IsleInv, Take, IsleTypeOK
<1>2. \A i \in 1..Len(inbox') : i + 1 \in 1..Len(inbox) /\ i + 1 # 1
  BY <1>1
<1>3. \A i \in 1..Len(inbox) : i = 1 \/ (i - 1 \in 1..Len(inbox') /\ (i - 1) + 1 = i)
  BY <1>1
<1>4. 1 \in 1..Len(inbox)
  BY <1>1
<1>5. \A i, j \in 1..Len(inbox) : inbox[i] = inbox[j] => i = j
  BY DEF ServeInv, OnceInv
<1>6. ASSUME NEW r PROVE Queued(r) <=> Queued(r)' \/ r = Head(inbox)
  <2>1. ASSUME NEW i \in 1..Len(inbox), inbox[i] = r PROVE Queued(r)' \/ r = Head(inbox)
    <3>1. CASE i = 1
      BY <1>1, <2>1, <3>1
    <3>2. CASE i # 1
      <4>1. i - 1 \in 1..Len(inbox') /\ inbox'[i - 1] = inbox[(i - 1) + 1] /\ (i - 1) + 1 = i
        BY <1>1, <1>3, <3>2
      <4> QED BY <2>1, <4>1 DEF Queued
    <3> QED BY <3>1, <3>2
  <2>2. ASSUME NEW i \in 1..Len(inbox'), inbox'[i] = r PROVE Queued(r)
    BY <1>1, <1>2, <2>2 DEF Queued
  <2> QED BY <1>1, <1>4, <2>1, <2>2 DEF Queued
<1>7. ASSUME NEW r, r = Head(inbox) PROVE ~Queued(r)'
  <2>1. \A i \in 1..Len(inbox') : inbox'[i] # Head(inbox)
    BY <1>1, <1>2, <1>4, <1>5
  <2> QED BY <1>7, <2>1 DEF Queued
<1>8. OnceInv'
  <2>1. ASSUME NEW i \in 1..Len(inbox'), NEW j \in 1..Len(inbox'), inbox'[i] = inbox'[j] PROVE i = j
    <3>1. i + 1 = j + 1
      BY <1>1, <1>2, <1>5, <2>1
    <3> QED BY <1>1, <3>1
  <2> QED BY <2>1 DEF OnceInv
<1> QED BY <1>1, <1>6, <1>7, <1>8

LEMMA ServeTaskKeeps ==
  ASSUME ServeInv, NEW t \in Requests,
         Cancel(t) \/ TryRecv(t) \/ Wait(t) \/ WaitReturns(t) \/ Detach(t) \/ DropTask(t)
  PROVE  OnceInv' /\ PlaceInv' /\ PanicInv'
<1>1. TaskStep
  BY DEF Cancel, TryRecv, Wait, WaitReturns, Detach, DropTask
<1>2. OnceInv' /\ PanicInv' /\ \A r : (Queued(r)' <=> Queued(r)) /\ (Alive(r)' <=> Alive(r))
  BY <1>1 DEF TaskStep, threadVars, ServeInv, OnceInv, PanicInv, Queued, Alive
<1>3. IsleTypeOK /\ PlaceInv /\ current' = current
  BY <1>1 DEF ServeInv, IsleInv, TaskStep, threadVars
<1>4. WaitReturns(t) => reply[t] # None \/ ~Alive(t)
  BY SenderIsAlive, <1>3 DEF WaitReturns
<1>5. PlaceInv'
  BY <1>2, <1>3, <1>4
     DEF PlaceInv, IsleTypeOK, Cancel, TryRecv, Wait, WaitReturns, Detach, DropTask
<1> QED BY <1>2, <1>5

LEMMA ServeThreadKeeps ==
  ASSUME ServeInv, InitVm \/ Take \/ Finish \/ Panic \/ EndThread
  PROVE  OnceInv' /\ PlaceInv' /\ PanicInv'
<1>1. IsleTypeOK /\ OnceInv /\ PlaceInv /\ PanicInv /\ PhaseInv
  BY DEF ServeInv, IsleInv
<1>2. CASE InitVm
  BY <1>1, <1>2 DEF InitVm, OnceInv, PlaceInv, PanicInv, PhaseInv, Alive, Queued, taskVars
<1>3. CASE Take
  <2>1. \A r \in Requests : r # Shutdown /\ r # None
    OBVIOUS
  <2>2. Head(inbox) # Shutdown => current' = Head(inbox)
    BY <1>3 DEF Take
  <2>3. Head(inbox) = Shutdown => current' = current
    BY <1>3 DEF Take
  <2>4. current = None /\ UNCHANGED <<task, reply, got>>
    BY <1>3 DEF Take, taskVars
  <2>5. ASSUME NEW r \in Requests PROVE (Alive(r)' <=> Alive(r)) /\ (current' = r => ~Queued(r)')
    BY <1>3, <2>1, <2>2, <2>3, <2>4, TookOne DEF Alive
  <2>6. PlaceInv'
    BY <1>1, <2>4, <2>5 DEF PlaceInv
  <2>7. PanicInv'
    BY <1>1, <1>3 DEF Take, PanicInv
  <2> QED BY <1>3, <2>6, <2>7, TookOne
<1>4. CASE Finish \/ Panic
  <2>1. UNCHANGED inbox /\ current \in Requests /\ current' = None /\ UNCHANGED <<task, got>>
    BY <1>1, <1>4 DEF Finish, Panic, taskVars, IsleTypeOK
  <2>2. \A r \in Requests : (Queued(r)' <=> Queued(r)) /\ r # None
    BY <2>1 DEF Queued
  <2>3. \A r \in Requests : r # current => reply'[r] = reply[r]
    BY <1>1, <1>4 DEF Finish, Panic, IsleTypeOK
  <2>4. PlaceInv'
    BY <1>1, <2>1, <2>2, <2>3 DEF PlaceInv, Alive
  <2>5. OnceInv' /\ PanicInv'
    BY <1>1, <1>4, <2>1 DEF OnceInv, PanicInv, Finish, Panic, IsleTypeOK
  <2> QED BY <2>4, <2>5
<1>5. CASE EndThread
  <2>1. inbox' = <<>> /\ UNCHANGED <<current, task, reply, got, handle>>
    BY <1>5 DEF EndThread, taskVars
  <2>2. \A r : ~Queued(r)'
    BY <2>1 DEF Queued
  <2>3. PlaceInv'
    BY <1>1, <2>1, <2>2 DEF PlaceInv, Alive
  <2>4. OnceInv'
    BY <2>1 DEF OnceInv
  <2>5. PanicInv'
    BY <1>1, <1>5 DEF PanicInv, EndThread
  <2> QED BY <2>3, <2>4, <2>5
<1> QED BY <1>2, <1>3, <1>4, <1>5

LEMMA ServeHandleKeeps ==
  ASSUME ServeInv, SpawnReturns \/ Join \/ ShutdownIsle \/ DropIsle
  PROVE  OnceInv' /\ PlaceInv' /\ PanicInv'
<1>1. IsleTypeOK /\ OnceInv /\ PlaceInv /\ PanicInv /\ LastInv
  BY DEF ServeInv, IsleInv
<1>2. CASE SpawnReturns \/ Join
  BY <1>1, <1>2 DEF SpawnReturns, Join, threadVars, taskVars, OnceInv, PlaceInv, PanicInv, Alive, Queued
<1>3. CASE ShutdownIsle \/ DropIsle
  <2>1. Post(Shutdown) /\ handle = "owned" /\ UNCHANGED <<current, task, reply, got, thread>>
    BY <1>3 DEF ShutdownIsle, DropIsle, PostShutdown, taskVars
  <2>2. ~Queued(Shutdown)
    BY <1>1, <2>1 DEF LastInv, Queued
  <2>3. OnceInv' /\ \A r \in Requests : Queued(r)' <=> Queued(r)
    <3>1. CASE ChannelOpen
      BY <2>1, <2>2, <3>1, PostedOne
    <3>2. CASE ~ChannelOpen
      BY <1>1, <2>1, <3>2 DEF Post, OnceInv, Queued
    <3> QED BY <3>1, <3>2
  <2>4. PlaceInv'
    BY <1>1, <2>1, <2>3 DEF PlaceInv, Alive
  <2>5. PanicInv'
    BY <1>1, <1>3 DEF PanicInv, ShutdownIsle, DropIsle
  <2> QED BY <2>3, <2>4, <2>5
<1> QED BY <1>2, <1>3

LEMMA ServeSubmitKeeps ==
  ASSUME ServeInv, NEW t \in Requests, Submit(t)
  PROVE  OnceInv' /\ PlaceInv' /\ PanicInv'
<1>1. IsleTypeOK /\ OnceInv /\ PlaceInv /\ PanicInv /\ HeldInv
  BY DEF ServeInv, IsleInv
<1>2. /\ Post(t) /\ task[t] = "none" /\ UNCHANGED <<current, got, thread, handle>>
      /\ \A r \in Requests : r # t => reply'[r] = reply[r] /\ task'[r] = task[r]
      /\ task'[t] = "held" /\ (ChannelOpen => reply'[t] = None)
  BY <1>1 DEF Submit, IsleTypeOK
<1>3. ~Alive(t) /\ got[t] = None
  BY <1>1, <1>2 DEF PlaceInv, HeldInv
<1>4. OnceInv' /\ \A r \in Requests : Queued(r)' <=> Queued(r) \/ (r = t /\ ChannelOpen)
  <2>1. CASE ChannelOpen
    BY <1>2, <1>3, <2>1, PostedOne DEF Alive
  <2>2. CASE ~ChannelOpen
    BY <1>1, <1>2, <2>2 DEF Post, OnceInv, Queued
  <2> QED BY <2>1, <2>2
<1>5. PlaceInv'
  BY <1>1, <1>2, <1>3, <1>4 DEF PlaceInv, Alive
<1>6. PanicInv'
  BY <1>1, <1>2 DEF PanicInv
<1> QED BY <1>4, <1>5, <1>6

LEMMA ServeInductive == IsleSpec => []ServeInv
<1>1. ServeInv /\ [IsleNext]_isleVars => OnceInv' /\ PlaceInv' /\ PanicInv'
  <2> SUFFICES ASSUME ServeInv, [IsleNext]_isleVars PROVE OnceInv' /\ PlaceInv' /\ PanicInv'
    OBVIOUS
  <2>1. CASE UNCHANGED isleVars
    BY <2>1 DEF isleVars, threadVars, taskVars, ServeInv, OnceInv, PlaceInv, PanicInv, Alive, Queued
  <2>2. CASE \E r \in Requests : Submit(r)
    BY <2>2, ServeSubmitKeeps
  <2>3. CASE \E r \in Requests : Cancel(r) \/ TryRecv(r) \/ Wait(r) \/ WaitReturns(r) \/ Detach(r) \/ DropTask(r)
    BY <2>3, ServeTaskKeeps
  <2> QED BY <2>1, <2>2, <2>3, ServeThreadKeeps, ServeHandleKeeps DEF IsleNext
<1>2. ServeInv <=> IsleInv /\ OnceInv /\ PlaceInv /\ PanicInv
  BY DEF ServeInv
<1> QED BY <1>1, <1>2, InitServeInv, IsleInductive, PTL DEF IsleSpec

\* A request's fate by where it is.
LEMMA FateIs ==
  ASSUME IsleTypeOK, IsleTypeOK'
  PROVE  \A r \in Requests :
           /\ Fate(r) = IF task[r] = "none" THEN "new" ELSE IF Alive(r) THEN "open" ELSE Told(Answer(r))
           /\ Fate(r)' = IF task'[r] = "none" THEN "new"
                         ELSE IF Alive(r)' THEN "open" ELSE Told(Answer(r)')
<1>1. \A r : (SenderLives(r) <=> Alive(r)) /\ (SenderLives(r)' <=> Alive(r)')
  BY DEF SenderLives, Alive, Queued, Range, IsleTypeOK
<1> QED BY <1>1 DEF Fate, Told, Answer

\* What an answer tells.
LEMMA ToldIs ==
  /\ Told("shutdown") = "refused" /\ Told(None) = "lost" /\ Told("recvFailed") = "lost"
  /\ \A out \in {"ok", "error", "cancelled"} : Told(out) = "served"
BY DEF Told

\* A step that moves neither a request nor the thread is none of Service.
LEMMA NoMove ==
  ASSUME UNCHANGED <<inbox, current>>, Phase' = Phase, \A r \in Requests : Fate(r)' = Fate(r)
  PROVE  UNCHANGED Promised!vars
BY DEF Promised!vars

\* A wait, a poll and a drop of a Task leave its request's fate.
LEMMA TaskStays ==
  ASSUME ServeInv, IsleTypeOK', NEW t \in Requests,
         Cancel(t) \/ TryRecv(t) \/ Wait(t) \/ WaitReturns(t) \/ Detach(t) \/ DropTask(t)
  PROVE  UNCHANGED Promised!vars
<1>1. TaskStep
  BY DEF Cancel, TryRecv, Wait, WaitReturns, Detach, DropTask
<1>2. UNCHANGED <<inbox, current, thread, handle>>
  BY <1>1 DEF TaskStep, threadVars
<1>3. IsleTypeOK /\ PlaceInv /\ \A r : Alive(r)' <=> Alive(r)
  BY <1>2 DEF ServeInv, IsleInv, Alive, Queued
<1>4. WaitReturns(t) => reply[t] # None \/ ~Alive(t)
  BY <1>3, SenderIsAlive DEF WaitReturns
<1>5. \A r \in Requests : task'[r] = "none" <=> task[r] = "none"
  BY <1>3 DEF IsleTypeOK, Cancel, TryRecv, Wait, WaitReturns, Detach, DropTask
<1>6. ASSUME NEW r \in Requests, task[r] # "none", ~Alive(r) PROVE Told(Answer(r)') = Told(Answer(r))
  <2>1. CASE WaitReturns(t) /\ r = t /\ got[t] = None /\ reply[t] = None
    <3>1. Answer(r)' = "recvFailed" /\ Answer(r) = None
      BY <1>3, <2>1 DEF WaitReturns, Answer, IsleTypeOK
    <3> QED BY <3>1, ToldIs
  <2>2. CASE ~(WaitReturns(t) /\ r = t /\ got[t] = None /\ reply[t] = None)
    <3>1. Answer(r)' = Answer(r)
      BY <1>3, <2>2 DEF Answer, IsleTypeOK, PlaceInv, Results,
                        Cancel, TryRecv, Wait, WaitReturns, Detach, DropTask
    <3> QED BY <3>1
  <2> QED BY <2>1, <2>2
<1>7. \A r \in Requests : Fate(r)' = Fate(r)
  BY <1>3, <1>5, <1>6, FateIs
<1>8. Phase' = Phase
  BY <1>2 DEF Phase, Ended
<1> QED BY <1>2, <1>7, <1>8, NoMove

\* What the thread does is a step of Service, or none.
LEMMA ThreadServes ==
  ASSUME ServeInv, IsleTypeOK', InitVm \/ Take \/ Finish \/ Panic \/ EndThread
  PROVE  [Promised!Next]_(Promised!vars)
<1>0. /\ IsleTypeOK /\ PlaceInv /\ PhaseInv /\ PanicInv
      /\ \A r \in Requests : r # None /\ r # Shutdown
  BY DEF ServeInv, IsleInv
<1>1. CASE InitVm
  <2>1. /\ inbox = <<>> /\ current = None /\ UNCHANGED <<inbox, current, task, got, reply, handle>>
        /\ thread = "init" /\ handle = "spawning"
    BY <1>0, <1>1 DEF InitVm, PhaseInv, IsleTypeOK, taskVars
  <2>2. \A r \in Requests : Fate(r)' = Fate(r)
    BY <1>0, <2>1, FateIs DEF Alive, Queued, Answer
  <2>3. CASE thread' = "running"
    <3>1. Phase' = Phase
      BY <2>1, <2>3 DEF Phase
    <3> QED BY <2>1, <2>2, <3>1, NoMove
  <2>4. CASE thread' \in {"done", "panicked"}
    <3>1. Phase = "serving" /\ Phase' = "over"
      BY <2>1, <2>4 DEF Phase, Ended
    <3>2. Promised!Retire
      BY <2>1, <2>2, <3>1 DEF Promised!Retire, Promised!Free
    <3> QED BY <3>2 DEF Promised!Next
  <2> QED BY <1>1, <2>3, <2>4 DEF InitVm
<1>2. CASE Take
  <2>1. /\ thread = "running" /\ current = None /\ inbox # <<>> /\ inbox' = Tail(inbox)
        /\ UNCHANGED <<task, got, reply>> /\ Phase = "serving"
    BY <1>2 DEF Take, taskVars, Phase
  <2>2. ASSUME NEW r \in Requests PROVE Alive(r)' <=> Alive(r)
    BY <1>0, <1>2, TookOne DEF Alive, Take
  <2>3. \A r \in Requests : Fate(r)' = Fate(r)
    BY <1>0, <2>1, <2>2, FateIs DEF Answer
  <2>4. Promised!Advance
    BY <2>1, <2>3 DEF Promised!Advance, Promised!Free
  <2>5. CASE Head(inbox) = Shutdown
    <3>1. Phase' = "stopping" /\ current' = current
      BY <1>2, <2>5 DEF Take, Phase
    <3>2. Promised!TakeStop
      BY <2>4, <2>5, <3>1 DEF Promised!TakeStop
    <3> QED BY <3>2 DEF Promised!Next
  <2>6. CASE Head(inbox) # Shutdown
    <3>1. Phase' = Phase /\ current' = Head(inbox) /\ Head(inbox) \in Requests
      BY <1>2, <2>1, <2>6, TookOne DEF Take, Phase
    <3>2. {current'} \ {None} = ({current} \ {None}) \cup {Head(inbox)}
      BY <1>0, <2>1, <3>1
    <3>3. Promised!Begin
      BY <2>4, <2>6, <3>1, <3>2 DEF Promised!Begin
    <3> QED BY <3>3 DEF Promised!Next
  <2> QED BY <2>5, <2>6
<1>3. ASSUME Finish \/ Panic PROVE \E t \in Requests : Promised!Serve(t) \/ Promised!Crash(t)
  <2>1. PICK t \in Requests : t = current
    BY <1>0, <1>3 DEF Finish, Panic, IsleTypeOK
  <2>2. /\ thread = "running" /\ current' = None /\ inbox' = inbox /\ UNCHANGED <<task, got>>
        /\ task[t] # "none" /\ got[t] = None /\ reply[t] = None /\ ~Queued(t) /\ Phase = "serving"
    BY <1>0, <1>3, <2>1 DEF Finish, Panic, taskVars, IsleTypeOK, PlaceInv, Alive, Phase
  <2>3. \A r : Queued(r)' <=> Queued(r)
    BY <2>2 DEF Queued
  <2>4. \A r \in Requests : r # t => reply'[r] = reply[r]
    BY <1>0, <1>3, <2>1 DEF Finish, Panic, IsleTypeOK
  <2>5. \A r \in Requests : r # t => (Alive(r)' <=> Alive(r)) /\ Answer(r)' = Answer(r)
    BY <1>0, <2>1, <2>2, <2>3, <2>4 DEF Alive, Answer
  <2>6. \A r \in Requests : r # t => Fate(r)' = Fate(r)
    BY <1>0, <2>2, <2>5, FateIs
  <2>7. ~Alive(t)'
    BY <1>0, <2>2, <2>3 DEF Alive
  <2>8. Fate(t)' = Told(Answer(t)') /\ Answer(t)' = reply'[t]
    BY <1>0, <2>2, <2>7, FateIs DEF Answer
  <2>9. {current} \ {None} = {t} /\ {current'} \ {None} = ({current} \ {None}) \ {t}
    BY <1>0, <2>1, <2>2
  <2>10. ASSUME NEW f, Fate(t)' = f
         PROVE  [r \in Requests |-> Fate(r)]' = [[r \in Requests |-> Fate(r)] EXCEPT ![t] = f]
    BY <2>6, <2>10
  <2>11. CASE Finish
    <3>1. reply'[t] \in {"ok", "error", "cancelled"} /\ thread' = thread
      BY <1>0, <2>1, <2>11 DEF Finish, IsleTypeOK
    <3>2. Fate(t)' = "served" /\ Phase' = Phase
      BY <2>2, <2>8, <3>1, ToldIs DEF Phase
    <3>3. Promised!Serve(t)
      BY <2>2, <2>9, <2>10, <3>2 DEF Promised!Serve, Promised!Becomes
    <3> QED BY <3>3
  <2>12. CASE Panic
    <3>1. reply'[t] = None /\ thread' = "unwinding"
      BY <2>2, <2>12 DEF Panic
    <3>2. Fate(t)' = "lost" /\ Phase' = "stopping"
      BY <2>8, <3>1, ToldIs DEF Phase
    <3>3. Promised!Crash(t)
      BY <2>2, <2>9, <2>10, <3>2 DEF Promised!Crash, Promised!Becomes
    <3> QED BY <3>3
  <2> QED BY <1>3, <2>11, <2>12
<1>4. CASE EndThread
  <2>1. /\ current = None /\ inbox' = <<>> /\ UNCHANGED <<current, task, got, reply, handle>>
        /\ Phase = "stopping"
    BY <1>0, <1>4 DEF EndThread, taskVars, IsleTypeOK, Phase
  <2>2. Phase' = "over"
    BY <1>0, <1>4 DEF EndThread, Phase, Ended, PhaseInv, PanicInv
  <2>3. \A r \in Requests : ~Alive(r)' /\ (Alive(r) <=> \E i \in DOMAIN inbox : inbox[i] = r)
    BY <1>0, <2>1 DEF Alive, Queued, IsleTypeOK
  <2>4. ASSUME NEW r \in Requests
        PROVE  Fate(r)' = IF \E i \in DOMAIN inbox : inbox[i] = r THEN "lost" ELSE Fate(r)
    <3>1. CASE Alive(r)
      <4>1. task[r] # "none" /\ Answer(r)' = None
        BY <1>0, <2>1, <3>1 DEF PlaceInv, Answer
      <4>2. Fate(r)' = Told(Answer(r)')
        BY <1>0, <2>1, <2>3, <4>1, FateIs
      <4> QED BY <2>3, <3>1, <4>1, <4>2, ToldIs
    <3>2. CASE ~Alive(r)
      BY <1>0, <2>1, <2>3, <3>2, FateIs DEF Answer
    <3> QED BY <3>1, <3>2
  <2>5. Promised!Fall
    BY <2>1, <2>2, <2>4 DEF Promised!Fall, Promised!Free, Promised!Waits
  <2> QED BY <2>5 DEF Promised!Next
<1> QED BY <1>1, <1>2, <1>3, <1>4 DEF Promised!Next

\* What the handle does is a step of Service, or none.
LEMMA HandleServes ==
  ASSUME ServeInv, IsleTypeOK', SpawnReturns \/ Join \/ ShutdownIsle \/ DropIsle
  PROVE  [Promised!Next]_(Promised!vars)
<1>0. /\ IsleTypeOK /\ PlaceInv /\ PhaseInv /\ PanicInv
      /\ \A r \in Requests : r # None /\ r # Shutdown
  BY DEF ServeInv, IsleInv
<1>1. UNCHANGED <<thread, current, task, got, reply>>
  BY DEF SpawnReturns, Join, ShutdownIsle, DropIsle, threadVars, taskVars
<1>2. CASE SpawnReturns \/ Join
  <2>1. inbox' = inbox
    BY <1>2 DEF SpawnReturns, Join, threadVars
  <2>2. \A r \in Requests : Fate(r)' = Fate(r)
    BY <1>0, <1>1, <2>1, FateIs DEF Alive, Queued, Answer
  <2>3. CASE SpawnReturns
    <3>1. Phase' = Phase
      BY <1>1, <2>3 DEF SpawnReturns, Phase, Ended
    <3> QED BY <1>1, <2>1, <2>2, <3>1, NoMove
  <2>4. CASE Join
    <3>1. Phase = "over" /\ Phase' = "ended" /\ current = None
      BY <1>0, <1>1, <2>4 DEF Join, Phase, Ended, IsleTypeOK
    <3>2. Promised!Return
      BY <1>1, <2>1, <2>2, <3>1 DEF Promised!Return
    <3> QED BY <3>2 DEF Promised!Next
  <2> QED BY <1>2, <2>3, <2>4
<1>3. CASE ShutdownIsle \/ DropIsle
  <2>1. Post(Shutdown)
    BY <1>3 DEF ShutdownIsle, DropIsle, PostShutdown
  <2>2. Phase' = Phase
    BY <1>1, <1>3 DEF ShutdownIsle, DropIsle, Phase, Ended
  <2>3. \A r \in Requests : Queued(r)' <=> Queued(r)
    <3>1. CASE ChannelOpen
      BY <1>0, <2>1, <3>1, PostedOne
    <3>2. CASE ~ChannelOpen
      BY <2>1, <3>2 DEF Post, Queued
    <3> QED BY <3>1, <3>2
  <2>4. \A r \in Requests : Fate(r)' = Fate(r)
    BY <1>0, <1>1, <2>3, FateIs DEF Alive, Answer
  <2>5. CASE ChannelOpen
    <3>1. Phase \in {"serving", "stopping"} /\ inbox' = Append(inbox, Shutdown)
      BY <2>1, <2>5 DEF ChannelOpen, Phase, Post
    <3>2. Promised!AskStop
      BY <1>1, <2>2, <2>4, <3>1 DEF Promised!AskStop, Promised!Takes
    <3> QED BY <3>2 DEF Promised!Next
  <2>6. CASE ~ChannelOpen
    BY <1>1, <2>1, <2>2, <2>4, <2>6, NoMove DEF Post
  <2> QED BY <2>5, <2>6
<1> QED BY <1>2, <1>3

LEMMA SubmitServes ==
  ASSUME ServeInv, IsleTypeOK', NEW t \in Requests, Submit(t)
  PROVE  [Promised!Next]_(Promised!vars)
<1>0. IsleTypeOK /\ PlaceInv /\ HeldInv
  BY DEF ServeInv, IsleInv
<1>1. /\ Post(t) /\ task[t] = "none" /\ UNCHANGED <<current, got, thread, handle>>
      /\ \A r \in Requests : r # t => reply'[r] = reply[r] /\ task'[r] = task[r]
      /\ task'[t] = "held" /\ reply'[t] = IF ChannelOpen THEN None ELSE "shutdown"
  BY <1>0 DEF Submit, IsleTypeOK
<1>2. ~Alive(t) /\ got[t] = None
  BY <1>0, <1>1 DEF PlaceInv, HeldInv
<1>3. \A r \in Requests : Queued(r)' <=> Queued(r) \/ (r = t /\ ChannelOpen)
  <2>1. CASE ChannelOpen
    BY <1>1, <2>1, PostedOne
  <2>2. CASE ~ChannelOpen
    BY <1>1, <2>2 DEF Post, Queued
  <2> QED BY <2>1, <2>2
<1>4. \A r \in Requests : r # t => Fate(r)' = Fate(r)
  BY <1>0, <1>1, <1>3, FateIs DEF Alive, Answer
<1>5. Fate(t) = "new"
  BY <1>0, <1>1, FateIs
<1>6. Phase' = Phase
  BY <1>1 DEF Phase, Ended
<1>7. ASSUME NEW f, Fate(t)' = f
      PROVE  [r \in Requests |-> Fate(r)]' = [[r \in Requests |-> Fate(r)] EXCEPT ![t] = f]
  BY <1>4, <1>7
<1>8. CASE ChannelOpen
  <2>1. Alive(t)'
    BY <1>3, <1>8 DEF Alive
  <2>2. Fate(t)' = "open"
    BY <1>0, <1>1, <2>1, FateIs
  <2>3. Phase \in {"serving", "stopping"} /\ inbox' = Append(inbox, t)
    BY <1>1, <1>8 DEF ChannelOpen, Phase, Post
  <2>4. Promised!Accept(t)
    BY <1>1, <1>5, <1>6, <1>7, <2>2, <2>3 DEF Promised!Accept, Promised!Takes, Promised!Becomes
  <2> QED BY <2>4 DEF Promised!Next
<1>9. CASE ~ChannelOpen
  <2>1. ~Alive(t)' /\ Answer(t)' = "shutdown" /\ inbox' = inbox
    BY <1>1, <1>2, <1>3, <1>9 DEF Alive, Answer, Post
  <2>2. Fate(t)' = "refused"
    BY <1>0, <1>1, <2>1, FateIs, ToldIs
  <2>3. Promised!Refuse(t)
    BY <1>1, <1>5, <1>6, <1>7, <2>1, <2>2 DEF Promised!Refuse, Promised!Becomes
  <2> QED BY <2>3 DEF Promised!Next
<1> QED BY <1>8, <1>9

\* The isle implements the abstract service: requests are begun in their turn and alone, and none is
\* lost but to a panic or behind the stop (thread.rs run_loop, handle.rs shutdown).
THEOREM IsleImplementsService == IsleSpec => ImplementsService
<1>1. IsleInit => Promised!Init
  BY DEF IsleInit, Promised!Init, Fate, Phase
<1>2. ServeInv /\ ServeInv' /\ [IsleNext]_isleVars => [Promised!Next]_(Promised!vars)
  <2> SUFFICES ASSUME ServeInv, IsleTypeOK', [IsleNext]_isleVars PROVE [Promised!Next]_(Promised!vars)
    BY DEF ServeInv, IsleInv
  <2>1. CASE UNCHANGED isleVars
    <3>1. /\ UNCHANGED <<inbox, current>> /\ Phase' = Phase
          /\ \A r \in Requests : Fate(r)' = Fate(r)
      BY <2>1 DEF isleVars, threadVars, taskVars, Phase, Ended, Fate, Answer, Told, SenderLives
    <3> QED BY <3>1, NoMove
  <2>2. CASE \E r \in Requests : Submit(r)
    BY <2>2, SubmitServes
  <2>3. CASE \E r \in Requests : Cancel(r) \/ TryRecv(r) \/ Wait(r) \/ WaitReturns(r) \/ Detach(r) \/ DropTask(r)
    BY <2>3, TaskStays
  <2> QED BY <2>1, <2>2, <2>3, ThreadServes, HandleServes DEF IsleNext
<1> QED BY <1>1, <1>2, ServeInductive, PTL DEF IsleSpec, ImplementsService, Promised!Spec
=============================================================================
