--------------------------- MODULE AsyncIsleProofs ---------------------------
(***************************************************************************)
(* Proofs about AsyncIsle: the safety properties TLC checks for two        *)
(* requests hold for any requests, any capacity and any number of handles. *)
(***************************************************************************)
EXTENDS AsyncIsle, SequenceTheorems, TLAPS

-----------------------------------------------------------------------------
(* The inductive strengthening.  The channel is spoken of by positions.    *)

Waits(r)  == \E i \in taken + 1 .. Len(sent) : sent[i] = r
Taken(m)  == \E i \in 1 .. taken : sent[i] = m
Within(m) == \E i \in 1 .. Len(sent) : sent[i] = m

(* A request is sent once; before that nobody knows it. *)
OnceInv ==
  \A i, j \in 1 .. Len(sent) : sent[i] = sent[j] /\ sent[i] # Shutdown => i = j
FreshInv ==
  \A r \in Requests : task[r] = "none" => ~Within(r) /\ answer[r] = "none"

Active == {"running", "ready", "parked", "woken"}

(* Where an unanswered request is. *)
PlaceInv ==
  \A r \in Requests :
    /\ Waits(r) => stage[r] = "new" /\ answer[r] = "none"
    /\ stage[r] \in Active => Within(r) /\ answer[r] = "none"
    /\ stage[r] = "over" => answer[r] # "none"
    /\ Within(r) /\ answer[r] = "none" => Waits(r) \/ stage[r] \in Active

(* Who occupies the thread. *)
BusyInv ==
  /\ \A r \in Requests :
       /\ stage[r] = "running" => busy = r
       /\ stage[r] \in {"ready", "parked", "woken"} => r \in Coroutines
  /\ busy # None =>
       /\ thread = "serving"
       /\ IF busy \in Coroutines
          THEN stage[busy] \in {"ready", "woken"} /\ loop \in {"recv", "ended"}
          ELSE stage[busy] = "running" /\ loop = "running"
  /\ loop = "running" => busy # None

(* When the receive loop and the thread end. *)
EndInv ==
  /\ loop = "ended" => taken = Len(sent)
  /\ thread \in {"done", "exited"} => LocalSetDone /\ busy = None
  /\ driver = "joined" => thread = "exited"

(* Why the receive loop ends, and who put Shutdown into the channel. *)
Stopped == {"signalled", "joining", "joined", "abandoned"}
Reason == Taken(Shutdown) \/ LoopPanicked \/ (NoSenders /\ taken = Len(sent))

StopInv ==
  /\ Within(Shutdown) => driver \in Stopped
  /\ loop \in {"leaving", "ended"} => Reason
  /\ EarlierAreServed

Core == OnceInv /\ FreshInv /\ PlaceInv /\ BusyInv /\ EndInv

IInv == TypeOK /\ Core /\ StopInv

-----------------------------------------------------------------------------
(* Lemmas about the log.                                                   *)

(* What SubSeq leaves of a log of which a prefix has been taken. *)
LEMMA Suffix ==
  ASSUME NEW S, NEW s \in Seq(S), NEW t \in 0 .. Len(s)
  PROVE  /\ ToSet(SubSeq(s, t + 1, Len(s))) = {s[i] : i \in t + 1 .. Len(s)}
         /\ SubSeq(s, t + 1, Len(s)) = <<>> <=> t = Len(s)
         /\ t # Len(s) => Head(SubSeq(s, t + 1, Len(s))) = s[t + 1]
<1> DEFINE q == SubSeq(s, t + 1, Len(s))
<1>1. q \in Seq(S) /\ Len(q) = Len(s) - t /\ \A i \in 1 .. Len(s) - t : q[i] = s[i + t]
  OBVIOUS
<1>2. DOMAIN q = 1 .. Len(s) - t
  BY <1>1
<1>3. ToSet(q) = {q[i] : i \in 1 .. Len(s) - t}
  BY <1>2 DEF ToSet
<1>4. ASSUME NEW x PROVE x \in ToSet(q) <=> x \in {s[i] : i \in t + 1 .. Len(s)}
  <2>1. ASSUME NEW i \in 1 .. Len(s) - t, x = q[i] PROVE \E j \in t + 1 .. Len(s) : s[j] = x
    <3>1. i + t \in t + 1 .. Len(s) /\ s[i + t] = x
      BY <1>1, <2>1
    <3> QED BY <3>1
  <2>2. ASSUME NEW j \in t + 1 .. Len(s), x = s[j] PROVE \E i \in 1 .. Len(s) - t : q[i] = x
    <3>1. j - t \in 1 .. Len(s) - t /\ q[j - t] = s[(j - t) + t] /\ (j - t) + t = j
      BY <1>1, <2>2
    <3> QED BY <3>1, <2>2
  <2> QED BY <1>3, <2>1, <2>2
<1>5. q = <<>> <=> t = Len(s)
  <2>1. Len(q) = 0 => q = <<>>
    BY <1>1
  <2>2. q = <<>> => Len(q) = 0
    OBVIOUS
  <2> HIDE DEF q
  <2> QED BY <1>1, <2>1, <2>2
<1>6. t # Len(s) => Head(q) = s[t + 1]
  BY <1>1
<1> QED BY <1>4, <1>5, <1>6

(* The channel's operators in terms of positions. *)
LEMMA Positions ==
  ASSUME TypeOK
  PROVE  /\ \A r : Queued(r) <=> Waits(r)
         /\ \A r : Accepted(r) <=> Within(r)
         /\ queue = <<>> <=> taken = Len(sent)
         /\ queue # <<>> => Head(queue) = sent[taken + 1] /\ taken + 1 \in 1 .. Len(sent)
<1>1. sent \in Seq(Requests \cup {Shutdown}) /\ taken \in 0 .. Len(sent)
  BY DEF TypeOK
<1>2. /\ ToSet(queue) = {sent[i] : i \in taken + 1 .. Len(sent)}
      /\ queue = <<>> <=> taken = Len(sent)
      /\ taken # Len(sent) => Head(queue) = sent[taken + 1]
  BY <1>1, Suffix DEF queue
<1>3. DOMAIN sent = 1 .. Len(sent)
  BY <1>1
<1>4. ToSet(sent) = {sent[i] : i \in 1 .. Len(sent)}
  BY <1>3 DEF ToSet
<1>5. \A r : Queued(r) <=> Waits(r)
  BY <1>2 DEF Queued, Waits
<1>6. \A r : Accepted(r) <=> Within(r)
  BY <1>4 DEF Accepted, Within
<1>7. taken # Len(sent) => taken + 1 \in 1 .. Len(sent)
  BY <1>1
<1> QED BY <1>2, <1>5, <1>6, <1>7

(* What an append adds to a log. *)
LEMMA Appended ==
  ASSUME TypeOK, NEW m \in Requests \cup {Shutdown}, Accept(m)
  PROVE  /\ sent' \in Seq(Requests \cup {Shutdown})
         /\ Len(sent') = Len(sent) + 1
         /\ sent'[Len(sent) + 1] = m
         /\ \A i \in 1 .. Len(sent) : sent'[i] = sent[i]
         /\ Len(sent) \in Nat /\ taken \in 0 .. Len(sent)
  BY DEF TypeOK, Accept

-----------------------------------------------------------------------------
(* Type correctness.                                                       *)

(* The steps that touch neither the channel nor the requests' progress.    *)
Idling ==
  \/ Starting \/ Spawning \/ Handles \/ Ending
  \/ DropDriver \/ AwaitDone \/ JoinThread \/ ShutdownDropped
  \/ \E r \in Requests : PollTask(r) \/ Detach(r) \/ Cancel(r) \/ DropTask(r)

LEMMA Steps ==
  ASSUME Next
  PROVE  \/ Idling \/ CallShutdown \/ SendShutdown
         \/ Receive \/ StopReceiving \/ DropReceiver
         \/ \E r \in Requests : Submit(r) \/ SubmitForeign(r) \/ PollCoroutine(r)
                                  \/ Await(r) \/ Wake(r) \/ Finish(r) \/ Panic(r)
  BY DEF Next, Idling, Driver, Receiver, Caller, Job

LEMMA IdlingType ==
  ASSUME TypeOK, Idling
  PROVE  /\ TypeOK'
         /\ UNCHANGED <<channelVars, loop, busy, stage, answer>>
         /\ \A r \in Requests : task'[r] = "none" <=> task[r] = "none"
<1> USE BoundsAssumption DEF TypeOK, channelVars, threadVars, taskVars, vars
<1>1. CASE Starting
  BY <1>1 DEF Starting, InitSucceeds, InitFails, InitPanics, Unwinds, Threads
<1>2. CASE Spawning
  BY <1>2 DEF Spawning, SpawnReturns, SpawnReaps, SpawnDropped, InitResult, Drivers
<1>3. CASE Handles
  BY <1>3 DEF Handles, CloneHandle, DropHandle
<1>4. CASE Ending
  BY <1>4 DEF Ending, SendDone, Exit, Threads
<1>5. CASE DropDriver \/ AwaitDone \/ JoinThread \/ ShutdownDropped
  BY <1>5 DEF DropDriver, AwaitDone, JoinThread, ShutdownDropped, Drivers
<1>6. ASSUME NEW r \in Requests, PollTask(r) \/ Detach(r) \/ Cancel(r) \/ DropTask(r)
      PROVE  /\ TypeOK'
             /\ UNCHANGED <<channelVars, loop, busy, stage, answer>>
             /\ \A q \in Requests : task'[q] = "none" <=> task[q] = "none"
  BY <1>6 DEF PollTask, Detach, Cancel, DropTask, OnDrop, Tasks
<1> QED BY <1>1, <1>2, <1>3, <1>4, <1>5, <1>6 DEF Idling

LEMMA TypeStep ==
  ASSUME TypeOK, [Next]_vars
  PROVE  TypeOK'
<1> USE DEF TypeOK, channelVars, threadVars, taskVars
<1>1. CASE UNCHANGED vars
  BY <1>1 DEF vars
<1>2. CASE Idling
  BY <1>2, IdlingType
<1>3. CASE CallShutdown
  BY SMTT(30), <1>3 DEF CallShutdown, Accept, Drivers
<1>4. CASE SendShutdown
  BY SMTT(30), <1>4 DEF SendShutdown, Accept, Drivers
<1>5. CASE Receive
  <2>1. queue # <<>> /\ Head(queue) # Shutdown /\ taken' = taken + 1 /\ sent' = sent
    BY <1>5 DEF Receive
  <2>2. Head(queue) = sent[taken + 1] /\ taken + 1 \in 1 .. Len(sent)
    BY <2>1, Positions
  <2>3. Head(queue) \in Requests
    BY <2>1, <2>2
  <2> HIDE DEF queue
  <2> QED BY <1>5, <2>1, <2>2, <2>3 DEF Receive, Reach, Loops, Stages
<1>6. CASE StopReceiving
  <2>1. queue # <<>> => taken + 1 \in 1 .. Len(sent)
    BY Positions
  <2> QED BY <1>6, <2>1 DEF StopReceiving, Loops
<1>7. CASE DropReceiver
  <2>1. taken' \in 0 .. Len(sent') /\ sent' \in Seq(Requests \cup {Shutdown})
    BY <1>7 DEF DropReceiver
  <2>2. \A r \in Requests : (IF Queued(r) THEN "dropped" ELSE answer[r]) \in Answers
    BY DEF Answers
  <2>3. answer' \in [Requests -> Answers]
    BY <1>7, <2>2 DEF DropReceiver
  <2>4. loop' = "ended" /\ UNCHANGED <<busy, stage, thread, task, token, handles, driver>>
    BY <1>7 DEF DropReceiver
  <2> QED BY <2>1, <2>3, <2>4 DEF Loops
<1>8. ASSUME NEW r \in Requests, Submit(r) PROVE TypeOK'
  <2>1. /\ sent' = sent \/ Accept(r)
        /\ answer' = answer \/ Resolve(r, "ChannelFull") \/ Resolve(r, "Shutdown")
        /\ taken' = taken /\ task' = [task EXCEPT ![r] = "pending"]
        /\ UNCHANGED <<threadVars, token, handles, driver>>
    BY <1>8 DEF Submit
  <2>2. sent' \in Seq(Requests \cup {Shutdown}) /\ taken' \in 0 .. Len(sent')
    BY <2>1, Appended
  <2>3. answer' \in [Requests -> Answers]
    BY <2>1 DEF Resolve, Answers, Refusals
  <2> QED BY <2>1, <2>2, <2>3 DEF Tasks
<1>9. ASSUME NEW r \in Requests, SubmitForeign(r) PROVE TypeOK'
  BY <1>9 DEF SubmitForeign, Resolve, Tasks, Answers, Refusals
<1>10. ASSUME NEW r \in Requests, PollCoroutine(r) \/ Await(r) \/ Wake(r) PROVE TypeOK'
  BY <1>10 DEF PollCoroutine, Await, Wake, Reach, Stages
<1>11. ASSUME NEW r \in Requests, Finish(r) PROVE TypeOK'
  BY <1>11 DEF Finish, Outcomes, Resolve, Reach, Stages, Answers, Loops
<1>12. ASSUME NEW r \in Requests, Panic(r) PROVE TypeOK'
  BY <1>12 DEF Panic, LoopAfterPanic, Resolve, Reach, Stages, Answers, Loops
<1> QED BY <1>1, <1>2, <1>3, <1>4, <1>5, <1>6, <1>7, <1>8, <1>9, <1>10, <1>11, <1>12, Steps

-----------------------------------------------------------------------------
(* What sending and receiving do to the positions.                         *)

LEMMA SendEffect ==
  ASSUME TypeOK, NEW m \in Requests \cup {Shutdown}, Accept(m), taken' = taken
  PROVE  /\ \A r : Within(r)' <=> Within(r) \/ r = m
         /\ \A r : Waits(r)' <=> Waits(r) \/ r = m
         /\ \A r : Taken(r)' <=> Taken(r)
         /\ OnceInv /\ (m = Shutdown \/ ~Within(m)) => OnceInv'
<1>1. /\ Len(sent') = Len(sent) + 1
      /\ sent'[Len(sent) + 1] = m
      /\ \A i \in 1 .. Len(sent) : sent'[i] = sent[i]
      /\ Len(sent) \in Nat /\ taken \in 0 .. Len(sent)
  BY Appended
<1>2. \A r : Within(r)' <=> Within(r) \/ r = m
  BY <1>1 DEF Within
<1>3. \A r : Waits(r)' <=> Waits(r) \/ r = m
  BY <1>1 DEF Waits
<1>4. \A r : Taken(r)' <=> Taken(r)
  BY <1>1 DEF Taken
<1>5. ASSUME OnceInv, m = Shutdown \/ ~Within(m) PROVE OnceInv'
  BY <1>1, <1>5 DEF OnceInv, Within
<1> QED BY <1>2, <1>3, <1>4, <1>5

LEMMA TakeEffect ==
  ASSUME TypeOK, OnceInv, queue # <<>>, sent' = sent, taken' = taken + 1
  PROVE  /\ OnceInv'
         /\ Waits(Head(queue)) /\ Within(Head(queue))
         /\ \A r : Within(r)' <=> Within(r)
         /\ \A r : Waits(r) => Waits(r)' \/ r = Head(queue)
         /\ \A r : Waits(r)' => Waits(r)
         /\ \A r : r = Head(queue) /\ r # Shutdown => ~Waits(r)'
         /\ \A r : Taken(r)' <=> Taken(r) \/ r = Head(queue)
<1> DEFINE h == Head(queue)
<1>1. h = sent[taken + 1] /\ taken + 1 \in 1 .. Len(sent)
  BY Positions
<1>2. taken \in Nat /\ Len(sent) \in Nat
  BY DEF TypeOK
<1> HIDE DEF h
<1>3. OnceInv'
  BY DEF OnceInv
<1>4. Waits(h) /\ Within(h)
  BY <1>1, <1>2 DEF Waits, Within
<1>5. \A r : Within(r)' <=> Within(r)
  BY DEF Within
<1>6. \A r : Waits(r) => Waits(r)' \/ r = h
  BY <1>1, <1>2 DEF Waits
<1>7. \A r : Waits(r)' => Waits(r)
  BY <1>1, <1>2 DEF Waits
<1>8. ASSUME NEW r, r = h, r # Shutdown PROVE ~Waits(r)'
  <2>1. SUFFICES ASSUME NEW i \in taken' + 1 .. Len(sent'), sent'[i] = r PROVE FALSE
    BY DEF Waits
  <2>2. i \in 1 .. Len(sent) /\ i # taken + 1
    BY <1>2
  <2> QED BY <1>1, <1>8, <2>1, <2>2 DEF OnceInv
<1>9. \A r : Taken(r)' <=> Taken(r) \/ r = h
  BY <1>1, <1>2 DEF Taken
<1> QED BY <1>3, <1>4, <1>5, <1>6, <1>7, <1>8, <1>9 DEF h

(* The receiver's drop takes everything. *)
LEMMA DropEffect ==
  ASSUME TypeOK, sent' = sent, taken' = Len(sent)
  PROVE  /\ \A r : Within(r)' <=> Within(r)
         /\ \A r : ~Waits(r)'
         /\ OnceInv => OnceInv'
<1>1. Len(sent) \in Nat
  BY DEF TypeOK
<1> QED BY <1>1 DEF Within, Waits, OnceInv

-----------------------------------------------------------------------------
(* Where the requests are.                                                 *)

LEMMA IdlingThread ==
  ASSUME Idling, EndInv
  PROVE  /\ (thread = "serving" /\ thread' # "serving") => busy = None
         /\ thread \in {"done", "exited"} => thread' \in {"done", "exited"}
         /\ thread' \in {"done", "exited"} =>
              thread \in {"done", "exited"} \/ (LocalSetDone /\ busy = None)
         /\ thread = "exited" => thread' = "exited"
         /\ driver' = "joined" => driver = "joined" \/ thread = "exited"
<1> USE DEF threadVars
<1>1. CASE Starting
  BY <1>1 DEF Starting, InitSucceeds, InitFails, InitPanics, Unwinds
<1>2. CASE Spawning
  BY <1>2 DEF Spawning, SpawnReturns, SpawnReaps, SpawnDropped, InitResult
<1>3. CASE Handles
  BY <1>3 DEF Handles, CloneHandle, DropHandle
<1>4. CASE Ending
  BY <1>4 DEF Ending, SendDone, Exit, Idle
<1>5. CASE DropDriver \/ AwaitDone \/ JoinThread \/ ShutdownDropped
  BY <1>5 DEF DropDriver, AwaitDone, JoinThread, ShutdownDropped
<1>6. ASSUME NEW r \in Requests, PollTask(r) \/ Detach(r) \/ Cancel(r) \/ DropTask(r)
      PROVE  thread' = thread /\ driver' = driver
  BY <1>6 DEF PollTask, Detach, Cancel, DropTask
<1> QED BY <1>1, <1>2, <1>3, <1>4, <1>5, <1>6 DEF Idling

LEMMA IdlingCore ==
  ASSUME TypeOK, Core, Idling
  PROVE  Core'
<1>1. /\ sent' = sent /\ taken' = taken /\ loop' = loop /\ busy' = busy
      /\ stage' = stage /\ answer' = answer
      /\ \A r \in Requests : task'[r] = "none" <=> task[r] = "none"
  BY IdlingType DEF channelVars
<1>2. OnceInv' /\ FreshInv' /\ PlaceInv'
  BY <1>1 DEF Core, OnceInv, FreshInv, PlaceInv, Waits, Within
<1>3. BusyInv'
  BY <1>1, IdlingThread DEF Core, BusyInv
<1>4. EndInv'
  BY <1>1, IdlingThread DEF Core, EndInv, LocalSetDone, Spawned
<1> QED BY <1>2, <1>3, <1>4 DEF Core

(* A message accepted leaves the thread alone. *)
LEMMA SendCore ==
  ASSUME TypeOK, Core, loop # "ended", NEW m \in Requests \cup {Shutdown}, Accept(m),
         m \in Requests => task[m] = "none",
         task' = IF m \in Requests THEN [task EXCEPT ![m] = "pending"] ELSE task,
         UNCHANGED <<taken, threadVars, answer>>,
         driver' = "joined" => driver = "joined"
  PROVE  Core'
<1>1. /\ loop' = loop /\ busy' = busy /\ stage' = stage /\ thread' = thread
      /\ answer' = answer /\ taken' = taken
  BY DEF threadVars
<1>2. /\ \A r : Within(r)' <=> Within(r) \/ r = m
      /\ \A r : Waits(r)' <=> Waits(r) \/ r = m
      /\ OnceInv /\ (m = Shutdown \/ ~Within(m)) => OnceInv'
  BY <1>1, SendEffect
<1>3. m \in Requests => ~Within(m) /\ answer[m] = "none" /\ ~Waits(m)
  <2>1. ASSUME Waits(m) PROVE Within(m)
    BY <2>1 DEF Waits, Within, TypeOK
  <2> QED BY <2>1 DEF Core, FreshInv
<1>4. OnceInv'
  BY <1>2, <1>3 DEF Core
<1>5. FreshInv'
  <2>1. \A r \in Requests : task'[r] = "none" => task[r] = "none" /\ r # m
    <3>1. CASE m \in Requests
      BY <3>1 DEF TypeOK
    <3>2. CASE m \notin Requests
      BY <3>2
    <3> QED BY <3>1, <3>2
  <2> QED BY <1>1, <1>2, <2>1 DEF Core, FreshInv
<1>6. m \in Requests => stage[m] = "new"
  <2>1. m \in Requests => stage[m] \notin Active /\ stage[m] # "over"
    BY <1>3 DEF Core, PlaceInv
  <2> QED BY <2>1 DEF TypeOK, Stages, Active
<1>7. PlaceInv'
  BY <1>1, <1>2, <1>3, <1>6 DEF Core, PlaceInv, Active
<1>8. BusyInv'
  BY <1>1 DEF Core, BusyInv
<1>9. EndInv'
  BY <1>1 DEF Core, EndInv, LocalSetDone, Spawned
<1> QED BY <1>4, <1>5, <1>7, <1>8, <1>9 DEF Core

(* A refusal answers a request nobody else has seen. *)
LEMMA RefuseCore ==
  ASSUME TypeOK, Core, NEW r \in Requests, NEW o \in Answers \ {"none"}, task[r] = "none",
         task' = [task EXCEPT ![r] = "pending"], Resolve(r, o),
         UNCHANGED <<channelVars, threadVars, driver>>
  PROVE  Core'
<1>1. /\ loop' = loop /\ busy' = busy /\ stage' = stage /\ thread' = thread
      /\ sent' = sent /\ taken' = taken /\ driver' = driver
  BY DEF threadVars, channelVars
<1>2. /\ \A q \in Requests : answer'[q] = IF q = r THEN o ELSE answer[q]
      /\ \A q \in Requests : task'[q] = "none" => task[q] = "none" /\ q # r
  BY DEF Resolve, TypeOK
<1>3. ~Within(r) /\ answer[r] = "none" /\ ~Waits(r)
  <2>1. ASSUME Waits(r) PROVE Within(r)
    BY <2>1 DEF Waits, Within, TypeOK
  <2> QED BY <2>1 DEF Core, FreshInv
<1>4. OnceInv'
  BY <1>1 DEF Core, OnceInv
<1>5. \A q : (Within(q)' <=> Within(q)) /\ (Waits(q)' <=> Waits(q))
  BY <1>1 DEF Within, Waits
<1>6. FreshInv'
  BY <1>2, <1>5 DEF Core, FreshInv
<1>7. PlaceInv'
  <2>1. \A q \in Requests : q # r => answer'[q] = answer[q]
    BY <1>2
  <2>2. answer'[r] # "none"
    BY <1>2
  <2>3. stage[r] \notin Active
    BY <1>3 DEF Core, PlaceInv
  <2> QED BY <1>1, <1>3, <1>5, <2>1, <2>2, <2>3 DEF Core, PlaceInv
<1>8. BusyInv'
  BY <1>1 DEF Core, BusyInv
<1>9. EndInv'
  BY <1>1 DEF Core, EndInv, LocalSetDone, Spawned
<1> QED BY <1>4, <1>6, <1>7, <1>8, <1>9 DEF Core

(* The receiver takes a request. *)
LEMMA ReceiveCore ==
  ASSUME TypeOK, Core, Receive
  PROVE  Core'
<1> DEFINE h == Head(queue)
<1>1. /\ thread = "serving" /\ busy = None /\ loop = "recv"
      /\ queue # <<>> /\ h # Shutdown
      /\ taken' = taken + 1 /\ sent' = sent /\ thread' = thread
      /\ answer' = answer /\ task' = task /\ driver' = driver
  BY DEF Receive, Idle, taskVars
<1>2. /\ OnceInv'
      /\ Waits(h) /\ Within(h)
      /\ \A r : Within(r)' <=> Within(r)
      /\ \A r : Waits(r) => Waits(r)' \/ r = h
      /\ \A r : Waits(r)' => Waits(r)
      /\ \A r : r = h /\ r # Shutdown => ~Waits(r)'
  BY <1>1, TakeEffect DEF Core
<1>3. h \in Requests
  <2>1. h = sent[taken + 1] /\ taken + 1 \in 1 .. Len(sent)
    BY <1>1, Positions
  <2> QED BY <1>1, <2>1 DEF TypeOK
<1>4. \/ /\ h \in Coroutines
         /\ stage' = [stage EXCEPT ![h] = "ready"] /\ loop' = loop /\ busy' = busy
      \/ /\ h \notin Coroutines
         /\ stage' = [stage EXCEPT ![h] = "running"] /\ loop' = "running" /\ busy' = h
  BY DEF Receive, Reach
<1>5. h # None
  BY <1>3, MessagesAssumption
<1> HIDE DEF h
<1>6. /\ \A r \in Requests : r # h => stage'[r] = stage[r]
      /\ stage'[h] = IF h \in Coroutines THEN "ready" ELSE "running"
  BY <1>3, <1>4 DEF TypeOK
<1>7. FreshInv'
  BY <1>1, <1>2 DEF Core, FreshInv
<1>8. stage[h] = "new" /\ answer[h] = "none"
  BY <1>2, <1>3 DEF Core, PlaceInv
<1>9. PlaceInv'
  <2>1. SUFFICES ASSUME NEW r \in Requests
                 PROVE /\ Waits(r)' => stage'[r] = "new" /\ answer[r] = "none"
                       /\ stage'[r] \in Active => Within(r) /\ answer[r] = "none"
                       /\ stage'[r] = "over" => answer[r] # "none"
                       /\ Within(r) /\ answer[r] = "none" => Waits(r)' \/ stage'[r] \in Active
    BY <1>1, <1>2 DEF PlaceInv
  <2>2. CASE r = h
    <3>1. stage'[r] \in Active /\ stage'[r] # "over" /\ ~Waits(r)'
      BY <1>1, <1>2, <1>6, <2>2 DEF Active
    <3> QED BY <1>2, <1>8, <2>2, <3>1
  <2>3. CASE r # h
    BY <1>2, <1>6, <2>3 DEF Core, PlaceInv
  <2> QED BY <2>2, <2>3
<1>10. BusyInv'
  <2>1. ASSUME NEW r \in Requests
        PROVE  /\ stage'[r] = "running" => busy' = r
               /\ stage'[r] \in {"ready", "parked", "woken"} => r \in Coroutines
    <3>1. r # None
      BY MessagesAssumption
    <3>2. CASE r = h
      BY <1>4, <1>6, <3>2
    <3>3. CASE r # h
      BY <1>1, <1>6, <3>1, <3>3 DEF Core, BusyInv
    <3> QED BY <3>2, <3>3
  <2>2. busy' # None =>
          /\ thread' = "serving" /\ loop' = "running"
          /\ busy' \notin Coroutines /\ stage'[busy'] = "running"
    BY <1>1, <1>4, <1>6
  <2>3. loop' = "running" => busy' # None
    BY <1>1, <1>4, <1>5
  <2> QED BY <2>1, <2>2, <2>3 DEF BusyInv
<1>11. EndInv'
  <2>1. loop' # "ended" /\ thread' = "serving"
    BY <1>1, <1>4
  <2> QED BY <1>1, <2>1 DEF Core, EndInv
<1> QED BY <1>2, <1>7, <1>9, <1>10, <1>11 DEF Core

(* The receiver takes Shutdown, or nothing is left to take. *)
LEMMA StopCore ==
  ASSUME TypeOK, Core, StopReceiving
  PROVE  Core'
<1>1. /\ thread = "serving" /\ busy = None /\ loop = "recv" /\ loop' = "leaving"
      /\ sent' = sent /\ thread' = thread /\ busy' = busy /\ stage' = stage
      /\ answer' = answer /\ task' = task /\ driver' = driver
      /\ \/ queue # <<>> /\ Head(queue) = Shutdown /\ taken' = taken + 1
         \/ taken' = taken
  BY DEF StopReceiving, Idle, taskVars
<1>2. /\ OnceInv'
      /\ \A r : Within(r)' <=> Within(r)
      /\ \A r \in Requests : Waits(r)' <=> Waits(r)
  <2>1. CASE queue # <<>> /\ Head(queue) = Shutdown /\ taken' = taken + 1
    <3>1. \A r \in Requests : r # Shutdown
      BY MessagesAssumption
    <3> QED BY <1>1, <2>1, <3>1, TakeEffect DEF Core
  <2>2. CASE taken' = taken
    BY <1>1, <2>2 DEF Core, OnceInv, Within, Waits
  <2> QED BY <1>1, <2>1, <2>2
<1>3. FreshInv' /\ PlaceInv'
  BY <1>1, <1>2 DEF Core, FreshInv, PlaceInv
<1>4. BusyInv' /\ EndInv'
  BY <1>1 DEF Core, BusyInv, EndInv
<1> QED BY <1>2, <1>3, <1>4 DEF Core

(* The receiver is dropped with what is left in the channel. *)
LEMMA DropCore ==
  ASSUME TypeOK, Core, DropReceiver
  PROVE  Core'
<1>1. /\ loop = "leaving" /\ loop' = "ended" /\ taken' = Len(sent)
      /\ sent' = sent /\ thread' = thread /\ busy' = busy /\ stage' = stage
      /\ task' = task /\ driver' = driver
  BY DEF DropReceiver, taskVars
<1>2. \A r \in Requests : answer'[r] = IF Waits(r) THEN "dropped" ELSE answer[r]
  BY Positions DEF DropReceiver
<1>3. /\ OnceInv'
      /\ \A r : Within(r)' <=> Within(r)
      /\ \A r : ~Waits(r)'
  BY <1>1, DropEffect DEF Core
<1>4. \A r \in Requests : Waits(r) => Within(r) /\ stage[r] = "new"
  <2>1. ASSUME NEW r \in Requests, Waits(r) PROVE Within(r)
    BY <2>1 DEF Waits, Within, TypeOK
  <2> QED BY <2>1 DEF Core, PlaceInv
<1>5. FreshInv'
  BY <1>1, <1>2, <1>3, <1>4 DEF Core, FreshInv
<1>6. PlaceInv'
  <2>1. SUFFICES ASSUME NEW r \in Requests
                 PROVE /\ stage[r] \in Active => Within(r) /\ answer'[r] = "none"
                       /\ stage[r] = "over" => answer'[r] # "none"
                       /\ Within(r) /\ answer'[r] = "none" => stage[r] \in Active
    BY <1>1, <1>3 DEF PlaceInv
  <2>2. "new" \notin Active
    BY DEF Active
  <2> QED BY <1>2, <1>4, <2>2 DEF Core, PlaceInv
<1>7. busy = None
  BY <1>1 DEF Core, BusyInv
<1>8. BusyInv'
  BY <1>1, <1>7 DEF Core, BusyInv
<1>9. EndInv'
  BY <1>1 DEF Core, EndInv, LocalSetDone
<1> QED BY <1>3, <1>5, <1>6, <1>8, <1>9 DEF Core

(* A job takes the thread, parks or wakes: it stays where it is. *)
LEMMA CoroutineCore ==
  ASSUME TypeOK, Core, NEW r \in Requests, PollCoroutine(r) \/ Await(r) \/ Wake(r)
  PROVE  Core'
<1>1. UNCHANGED <<sent, taken, loop, thread, answer, task, driver>>
  BY DEF PollCoroutine, Await, Wake, channelVars, taskVars
<1>2. /\ stage[r] \in {"ready", "parked", "woken"}
      /\ stage'[r] \in {"ready", "parked", "woken"}
      /\ \A q \in Requests : q # r => stage'[q] = stage[q]
  BY DEF PollCoroutine, Await, Wake, Reach, TypeOK
<1>3. r \in Coroutines /\ r # None
  BY <1>2, MessagesAssumption DEF Core, BusyInv
<1>4. \A q : (Within(q)' <=> Within(q)) /\ (Waits(q)' <=> Waits(q))
  BY <1>1 DEF Within, Waits
<1>5. OnceInv' /\ FreshInv'
  BY <1>1, <1>4 DEF Core, OnceInv, FreshInv
<1>6. PlaceInv'
  <2>1. \A q \in Requests : /\ stage'[q] \in Active <=> stage[q] \in Active
                            /\ stage'[q] = "new" <=> stage[q] = "new"
                            /\ stage'[q] = "over" <=> stage[q] = "over"
    BY <1>2 DEF Active
  <2> QED BY <1>1, <1>4, <2>1 DEF Core, PlaceInv
<1>7. \A q \in Requests : /\ stage'[q] = "running" <=> stage[q] = "running"
                          /\ stage'[q] \in {"ready", "parked", "woken"}
                               <=> stage[q] \in {"ready", "parked", "woken"}
  BY <1>2
<1>8. BusyInv'
  <2>1. CASE PollCoroutine(r)
    <3>1. /\ thread = "serving" /\ busy = None /\ loop \in {"recv", "ended"}
          /\ stage[r] \in {"ready", "woken"} /\ busy' = r /\ stage' = stage
      BY <2>1 DEF PollCoroutine, Idle
    <3>2. \A q \in Requests : stage[q] # "running"
      BY <3>1, MessagesAssumption DEF Core, BusyInv
    <3> QED BY <1>1, <1>3, <3>1, <3>2 DEF Core, BusyInv
  <2>2. CASE Await(r)
    <3>1. busy = r /\ busy' = None
      BY <2>2 DEF Await
    <3>2. loop # "running" /\ \A q \in Requests : stage[q] # "running"
      BY <1>2, <1>3, <3>1 DEF Core, BusyInv
    <3> QED BY <1>1, <1>7, <3>1, <3>2 DEF Core, BusyInv
  <2>3. CASE Wake(r)
    <3>1. busy' = busy /\ stage[r] = "parked"
      BY <2>3 DEF Wake
    <3>2. busy # r
      BY <1>3, <3>1 DEF Core, BusyInv
    <3>3. busy # None => busy \in Requests /\ stage'[busy] = stage[busy]
      BY <1>2, <3>2 DEF TypeOK
    <3> QED BY <1>1, <1>7, <3>1, <3>3 DEF Core, BusyInv
  <2> QED BY <2>1, <2>2, <2>3
<1>9. EndInv'
  <2>1. ~LocalSetDone
    BY <1>2 DEF LocalSetDone, Spawned
  <2> QED BY <1>1, <2>1 DEF Core, EndInv
<1> QED BY <1>5, <1>6, <1>8, <1>9 DEF Core

(* A job is over, with an answer: it leaves the thread free. *)
LEMMA OverCore ==
  ASSUME TypeOK, Core, NEW r \in Requests, Finish(r) \/ Panic(r)
  PROVE  Core'
<1>1. UNCHANGED <<sent, taken, thread, task, driver>>
  BY DEF Finish, Panic, channelVars, taskVars
<1>2. busy = r /\ busy' = None /\ r # None
  BY MessagesAssumption DEF Finish, Panic
<1>3. PICK o \in Answers \ {"none"} : Resolve(r, o)
  BY DEF Finish, Panic, Outcomes, Answers
<1>4. /\ stage'[r] = "over"
      /\ \A q \in Requests : q # r => stage'[q] = stage[q]
  BY DEF Finish, Panic, Reach, TypeOK
<1>5. /\ answer'[r] # "none"
      /\ \A q \in Requests : q # r => answer'[q] = answer[q]
  BY <1>3 DEF Resolve, TypeOK
<1>6. stage[r] \in Active
  BY <1>2 DEF Core, BusyInv, Active
<1>7. Within(r) /\ ~Waits(r) /\ task[r] # "none"
  BY <1>6 DEF Core, PlaceInv, FreshInv, Active
<1>8. \A q : (Within(q)' <=> Within(q)) /\ (Waits(q)' <=> Waits(q))
  BY <1>1 DEF Within, Waits
<1>9. OnceInv' /\ FreshInv'
  BY <1>1, <1>5, <1>7, <1>8 DEF Core, OnceInv, FreshInv
<1>10. PlaceInv'
  <2>1. "over" \notin Active
    BY DEF Active
  <2> QED BY <1>1, <1>4, <1>5, <1>7, <1>8, <2>1 DEF Core, PlaceInv
<1>11. IF r \in Coroutines THEN loop' = loop /\ loop # "running" ELSE loop' # "running" /\ loop' # "ended"
  BY <1>2 DEF Finish, Panic, LoopAfterPanic, Core, BusyInv
<1>12. BusyInv'
  <2>1. \A q \in Requests : q # r => stage[q] # "running"
    BY <1>2 DEF Core, BusyInv
  <2>2. ASSUME NEW q \in Requests
        PROVE  /\ stage'[q] = "running" => busy' = q
               /\ stage'[q] \in {"ready", "parked", "woken"} => q \in Coroutines
    BY <1>4, <2>1 DEF Core, BusyInv
  <2> QED BY <1>2, <1>11, <2>2 DEF BusyInv
<1>13. EndInv'
  <2>1. thread = "serving"
    BY <1>2 DEF Core, BusyInv
  <2> QED BY <1>1, <1>11, <2>1 DEF Core, EndInv
<1> QED BY <1>9, <1>10, <1>12, <1>13 DEF Core

LEMMA CoreStep ==
  ASSUME TypeOK, Core, [Next]_vars
  PROVE  Core'
<1>1. CASE UNCHANGED vars
  BY <1>1 DEF vars, channelVars, threadVars, taskVars, Core, OnceInv, FreshInv, PlaceInv,
       BusyInv, EndInv, LocalSetDone, Spawned, Waits, Within
<1>2. CASE CallShutdown \/ SendShutdown
  <2>1. UNCHANGED <<taken, threadVars, answer, task>> /\ driver' # "joined"
    BY <1>2 DEF CallShutdown, SendShutdown, taskVars
  <2>2. CASE loop # "ended" /\ Accept(Shutdown)
    <3>1. Shutdown \notin Requests
      BY MessagesAssumption
    <3> QED BY <2>1, <2>2, <3>1, SendCore
  <2>3. CASE sent' = sent
    BY <2>1, <2>3 DEF threadVars, Core, OnceInv, FreshInv, PlaceInv, BusyInv, EndInv,
         LocalSetDone, Spawned, Waits, Within
  <2> QED BY <1>2, <2>2, <2>3 DEF CallShutdown, SendShutdown, Closed
<1>3. ASSUME NEW r \in Requests, Submit(r) PROVE Core'
  <2>1. /\ task[r] = "none" /\ task' = [task EXCEPT ![r] = "pending"]
        /\ UNCHANGED <<taken, threadVars, driver>>
        /\ \/ loop # "ended" /\ Accept(r) /\ answer' = answer
           \/ Resolve(r, "ChannelFull") /\ sent' = sent
           \/ Resolve(r, "Shutdown") /\ sent' = sent
    BY <1>3 DEF Submit, Closed
  <2>2. CASE loop # "ended" /\ Accept(r) /\ answer' = answer
    BY <2>1, <2>2, SendCore
  <2>3. CASE Resolve(r, "ChannelFull") /\ sent' = sent
    BY <2>1, <2>3, RefuseCore DEF Answers, Refusals, channelVars
  <2>4. CASE Resolve(r, "Shutdown") /\ sent' = sent
    BY <2>1, <2>4, RefuseCore DEF Answers, Refusals, channelVars
  <2> QED BY <2>1, <2>2, <2>3, <2>4
<1>4. ASSUME NEW r \in Requests, SubmitForeign(r) PROVE Core'
  BY <1>4, RefuseCore DEF SubmitForeign, Answers, Refusals
<1> QED BY <1>1, <1>2, <1>3, <1>4, Steps, IdlingCore, ReceiveCore, StopCore, DropCore,
          CoroutineCore, OverCore

-----------------------------------------------------------------------------
(* Why the receive loop ends, and whom that costs an answer.               *)

(* An answer is final. *)
LEMMA AnswersStay ==
  ASSUME TypeOK, Core, [Next]_vars
  PROVE  \A r \in Requests : answer[r] # "none" => answer'[r] = answer[r]
<1> SUFFICES ASSUME NEW q \in Requests, answer[q] # "none" PROVE answer'[q] = answer[q]
  OBVIOUS
<1>1. CASE answer' = answer
  BY <1>1
<1>2. CASE DropReceiver
  <2>1. ~Queued(q)
    BY Positions DEF Core, PlaceInv
  <2> QED BY <1>2, <2>1 DEF DropReceiver
<1>3. ASSUME NEW r \in Requests, Submit(r) \/ SubmitForeign(r) PROVE answer'[q] = answer[q]
  <2>1. answer[r] = "none"
    BY <1>3 DEF Submit, SubmitForeign, Core, FreshInv
  <2> QED BY <1>3, <2>1 DEF Submit, SubmitForeign, Resolve, TypeOK
<1>4. ASSUME NEW r \in Requests, Finish(r) \/ Panic(r) PROVE answer'[q] = answer[q]
  <2>1. stage[r] \in Active
    BY <1>4, MessagesAssumption DEF Finish, Panic, Core, BusyInv, Active
  <2>2. answer[r] = "none"
    BY <2>1 DEF Core, PlaceInv
  <2> QED BY <1>4, <2>2 DEF Finish, Panic, Resolve, TypeOK
<1>5. CASE UNCHANGED vars
  BY <1>5 DEF vars
<1>6. CASE Idling
  BY <1>6, IdlingType
<1>7. CASE CallShutdown \/ SendShutdown \/ Receive \/ StopReceiving
  BY <1>7 DEF CallShutdown, SendShutdown, Receive, StopReceiving
<1>8. ASSUME NEW r \in Requests, PollCoroutine(r) \/ Await(r) \/ Wake(r) PROVE answer'[q] = answer[q]
  BY <1>8 DEF PollCoroutine, Await, Wake
<1> QED BY <1>2, <1>3, <1>4, <1>5, <1>6, <1>7, <1>8, Steps

LEMMA PanicStays ==
  ASSUME TypeOK, Core, [Next]_vars, LoopPanicked
  PROVE  LoopPanicked'
  BY AnswersStay DEF LoopPanicked

LEMMA NoSenderComesBack ==
  ASSUME TypeOK, [Next]_vars, NoSenders
  PROVE  NoSenders'
<1>1. handles = 0 /\ driver \notin ShuttingDown \cup {"spawning", "held"}
  BY DEF NoSenders
<1>2. SUFFICES handles' = 0 /\ driver' \notin ShuttingDown \cup {"spawning", "held"}
  BY DEF NoSenders, ShuttingDown
<1> USE DEF ShuttingDown
<1>3. CASE UNCHANGED vars
  BY <1>1, <1>3 DEF vars
<1>4. CASE Starting \/ Ending
  BY <1>1, <1>4 DEF Starting, InitSucceeds, InitFails, InitPanics, Unwinds, Ending, SendDone, Exit
<1>5. CASE Spawning
  BY <1>1, <1>5 DEF Spawning, SpawnReturns, SpawnReaps, SpawnDropped
<1>6. CASE Handles
  BY <1>1, <1>6 DEF Handles, CloneHandle, DropHandle
<1>7. CASE Driver
  BY <1>1, <1>7 DEF Driver, DropDriver, CallShutdown, SendShutdown, AwaitDone, JoinThread, ShutdownDropped
<1>8. CASE Receiver
  BY <1>1, <1>8 DEF Receiver, Receive, StopReceiving, DropReceiver
<1>9. ASSUME NEW r \in Requests, Caller(r) \/ Job(r)
      PROVE handles' = handles /\ driver' = driver
  BY <1>9 DEF Caller, Submit, SubmitForeign, PollTask, Detach, Cancel, DropTask,
       Job, PollCoroutine, Await, Wake, Finish, Panic
<1> QED BY <1>1, <1>3, <1>4, <1>5, <1>6, <1>7, <1>8, <1>9 DEF Next

(* Shutdown is in the log only if the driver put it there. *)
LEMMA StoppedByDriver ==
  ASSUME TypeOK, [Next]_vars, Within(Shutdown) => driver \in Stopped
  PROVE  Within(Shutdown)' => driver' \in Stopped
<1> USE DEF Stopped
<1>1. CASE CallShutdown \/ SendShutdown
  <2>1. CASE driver' = "signalled"
    BY <2>1
  <2>2. CASE sent' = sent /\ driver = "held"
    BY <2>2 DEF Within
  <2> QED BY <1>1, <2>1, <2>2 DEF CallShutdown, SendShutdown
<1>2. ASSUME NEW r \in Requests, Submit(r) PROVE Within(Shutdown)' => driver' \in Stopped
  <2>1. driver' = driver /\ taken' = taken /\ (sent' = sent \/ Accept(r))
    BY <1>2 DEF Submit
  <2>2. r # Shutdown
    BY MessagesAssumption
  <2>3. CASE Accept(r)
    BY <2>1, <2>2, <2>3, SendEffect
  <2>4. CASE sent' = sent
    BY <2>1, <2>4 DEF Within
  <2> QED BY <2>1, <2>3, <2>4
<1>3. CASE Idling
  <2>1. sent' = sent
    BY <1>3, IdlingType DEF channelVars
  <2>2. driver \in Stopped => driver' \in Stopped
    <3>1. CASE Starting \/ Ending
      BY <3>1 DEF Starting, InitSucceeds, InitFails, InitPanics, Unwinds, Ending, SendDone, Exit
    <3>2. CASE Spawning
      BY <3>2 DEF Spawning, SpawnReturns, SpawnReaps, SpawnDropped
    <3>3. CASE Handles
      BY <3>3 DEF Handles, CloneHandle, DropHandle
    <3>4. CASE DropDriver \/ AwaitDone \/ JoinThread \/ ShutdownDropped
      BY <3>4 DEF DropDriver, AwaitDone, JoinThread, ShutdownDropped
    <3>5. ASSUME NEW r \in Requests, PollTask(r) \/ Detach(r) \/ Cancel(r) \/ DropTask(r)
          PROVE driver' = driver
      BY <3>5 DEF PollTask, Detach, Cancel, DropTask
    <3> QED BY <1>3, <3>1, <3>2, <3>3, <3>4, <3>5 DEF Idling
  <2> QED BY <2>1, <2>2 DEF Within
<1>4. CASE UNCHANGED vars \/ Receive \/ StopReceiving \/ DropReceiver
  <2>1. sent' = sent /\ driver' = driver
    BY <1>4 DEF vars, channelVars, Receive, StopReceiving, DropReceiver
  <2> QED BY <2>1 DEF Within
<1>5. ASSUME NEW r \in Requests,
             SubmitForeign(r) \/ PollCoroutine(r) \/ Await(r) \/ Wake(r) \/ Finish(r) \/ Panic(r)
      PROVE  Within(Shutdown)' => driver' \in Stopped
  <2>1. sent' = sent /\ driver' = driver
    BY <1>5 DEF channelVars, SubmitForeign, PollCoroutine, Await, Wake, Finish, Panic
  <2> QED BY <2>1 DEF Within
<1> QED BY <1>1, <1>2, <1>3, <1>4, <1>5, Steps

(* The log only grows, and only while there is a sender. *)
LEMMA LogGrows ==
  ASSUME TypeOK, [Next]_vars
  PROVE  \/ sent' = sent
         \/ /\ ~NoSenders /\ loop # "ended" /\ loop' = loop /\ taken' = taken /\ answer' = answer
            /\ \E m \in Requests \cup {Shutdown} : Accept(m)
<1>1. CASE CallShutdown \/ SendShutdown
  BY <1>1 DEF CallShutdown, SendShutdown, Closed, NoSenders, ShuttingDown, threadVars
<1>2. ASSUME NEW r \in Requests, Submit(r), sent' # sent
      PROVE  /\ ~NoSenders /\ loop # "ended" /\ loop' = loop /\ taken' = taken /\ answer' = answer
             /\ Accept(r)
  <2>1. handles > 0 /\ handles # 0
    BY <1>2 DEF Submit, TypeOK
  <2> QED BY <1>2, <2>1 DEF Submit, Closed, NoSenders, threadVars
<1>3. CASE UNCHANGED vars \/ Receive \/ StopReceiving \/ DropReceiver
  BY <1>3 DEF vars, channelVars, Receive, StopReceiving, DropReceiver
<1>4. CASE Idling
  BY <1>4, IdlingType DEF channelVars
<1>5. ASSUME NEW r \in Requests,
             SubmitForeign(r) \/ PollCoroutine(r) \/ Await(r) \/ Wake(r) \/ Finish(r) \/ Panic(r)
      PROVE  sent' = sent
  BY <1>5 DEF channelVars, SubmitForeign, PollCoroutine, Await, Wake, Finish, Panic
<1> QED BY <1>1, <1>2, <1>3, <1>4, <1>5, Steps

LEMMA BehindStays ==
  ASSUME TypeOK, [Next]_vars, NEW r, BehindShutdown(r)
  PROVE  BehindShutdown(r)'
<1>1. PICK i, j \in 1 .. Len(sent) : i < j /\ sent[i] = Shutdown /\ sent[j] = r
  BY DEF BehindShutdown, TypeOK
<1>2. CASE sent' = sent
  BY <1>2 DEF BehindShutdown
<1>3. ASSUME NEW m \in Requests \cup {Shutdown}, Accept(m), taken' = taken
      PROVE  BehindShutdown(r)'
  <2>1. /\ sent' \in Seq(Requests \cup {Shutdown}) /\ Len(sent') = Len(sent) + 1
        /\ \A k \in 1 .. Len(sent) : sent'[k] = sent[k]
        /\ Len(sent) \in Nat
    BY <1>3, Appended
  <2>2. i \in DOMAIN sent' /\ j \in DOMAIN sent' /\ i < j /\ sent'[i] = Shutdown /\ sent'[j] = r
    BY <1>1, <2>1
  <2> QED BY <2>2 DEF BehindShutdown
<1> QED BY <1>2, <1>3, LogGrows

(* A reason to end stays one, and the loop does not end without. *)
LEMMA ReasonStays ==
  ASSUME TypeOK, Core, [Next]_vars, taken' = taken, Reason
  PROVE  Reason'
<1>1. CASE LoopPanicked
  BY <1>1, PanicStays DEF Reason
<1>2. CASE Taken(Shutdown)
  <2>1. CASE sent' = sent
    BY <1>2, <2>1 DEF Taken, Reason
  <2>2. ASSUME NEW m \in Requests \cup {Shutdown}, Accept(m) PROVE Reason'
    BY <1>2, <2>2, SendEffect DEF Reason
  <2> QED BY <2>1, <2>2, LogGrows
<1>3. CASE NoSenders /\ taken = Len(sent)
  <2>1. sent' = sent
    BY <1>3, LogGrows
  <2> QED BY <1>3, <2>1, NoSenderComesBack DEF Reason
<1> QED BY <1>1, <1>2, <1>3 DEF Reason

LEMMA LoopEndsForReason ==
  ASSUME TypeOK, Core, [Next]_vars, loop \in {"leaving", "ended"} => Reason
  PROVE  loop' \in {"leaving", "ended"} => Reason'
<1>1. ASSUME taken' = taken, loop' = loop PROVE loop' \in {"leaving", "ended"} => Reason'
  BY <1>1, ReasonStays
<1>2. CASE CallShutdown \/ SendShutdown \/ \E r \in Requests : Submit(r) \/ SubmitForeign(r)
  BY <1>1, <1>2 DEF CallShutdown, SendShutdown, Submit, SubmitForeign, threadVars, channelVars
<1>3. CASE UNCHANGED vars
  BY <1>1, <1>3 DEF vars, channelVars, threadVars
<1>4. CASE Idling
  BY <1>1, <1>4, IdlingType DEF channelVars
<1>5. CASE \E r \in Requests : PollCoroutine(r) \/ Await(r) \/ Wake(r)
  BY <1>1, <1>5 DEF PollCoroutine, Await, Wake, channelVars
<1>6. CASE Receive
  BY <1>6 DEF Receive
<1>7. CASE StopReceiving
  <2>1. CASE queue # <<>> /\ Head(queue) = Shutdown /\ taken' = taken + 1
    <3>1. Taken(Shutdown)'
      <4>1. taken + 1 \in 1 .. taken' /\ sent'[taken + 1] = Shutdown
        BY <1>7, <2>1, Positions DEF StopReceiving, TypeOK
      <4> QED BY <4>1 DEF Taken
    <3> QED BY <3>1 DEF Reason
  <2>2. CASE Disconnected /\ taken' = taken
    <3>1. NoSenders /\ taken = Len(sent)
      BY <2>2, Positions DEF Disconnected
    <3> QED BY <2>2, <3>1, ReasonStays DEF Reason
  <2> QED BY <1>7, <2>1, <2>2 DEF StopReceiving
<1>8. CASE DropReceiver
  <2>1. loop = "leaving" /\ taken' = Len(sent) /\ sent' = sent
    BY <1>8 DEF DropReceiver
  <2>2. Taken(Shutdown) => Taken(Shutdown)'
    BY <2>1 DEF Taken, TypeOK
  <2> QED BY <2>1, <2>2, PanicStays, NoSenderComesBack DEF Reason
<1>9. ASSUME NEW r \in Requests, Finish(r) \/ Panic(r)
      PROVE  loop' \in {"leaving", "ended"} => Reason'
  <2>1. taken' = taken
    BY <1>9 DEF Finish, Panic, channelVars
  <2>2. CASE loop' = loop
    BY <1>1, <2>1, <2>2
  <2>3. CASE Finish(r) /\ loop' # loop
    BY <2>3 DEF Finish
  <2>4. CASE Panic(r) /\ loop' # loop
    <3>1. r \in Requests \ Coroutines /\ answer'[r] = "panicked"
      BY <2>4 DEF Panic, LoopAfterPanic, Resolve, TypeOK
    <3> QED BY <3>1 DEF LoopPanicked, Reason
  <2> QED BY <1>9, <2>2, <2>3, <2>4
<1> QED BY <1>2, <1>3, <1>4, <1>5, <1>6, <1>7, <1>8, <1>9, Steps

LEMMA EarlierStep ==
  ASSUME TypeOK, Core, [Next]_vars, loop \in {"leaving", "ended"} => Reason, EarlierAreServed
  PROVE  EarlierAreServed'
<1> SUFFICES ASSUME NEW q \in Requests, answer'[q] = "dropped"
             PROVE  BehindShutdown(q)' \/ LoopPanicked'
  BY DEF EarlierAreServed
<1>1. CASE answer[q] = "dropped"
  BY <1>1, BehindStays, PanicStays DEF EarlierAreServed
<1>2. CASE answer[q] # "dropped"
  <2>1. DropReceiver
    <3>1. CASE answer' = answer
      BY <1>2, <3>1
    <3>2. ASSUME NEW r \in Requests, Submit(r) \/ SubmitForeign(r) PROVE FALSE
      BY <1>2, <3>2 DEF Submit, SubmitForeign, Resolve, TypeOK
    <3>3. ASSUME NEW r \in Requests, Finish(r) \/ Panic(r) PROVE FALSE
      BY <1>2, <3>3 DEF Finish, Outcomes, Panic, Resolve, TypeOK
    <3>4. CASE UNCHANGED vars
      BY <1>2, <3>4 DEF vars
    <3>5. CASE Idling
      BY <1>2, <3>5, IdlingType
    <3>6. CASE CallShutdown \/ SendShutdown \/ Receive \/ StopReceiving
      BY <1>2, <3>6 DEF CallShutdown, SendShutdown, Receive, StopReceiving
    <3>7. ASSUME NEW r \in Requests, PollCoroutine(r) \/ Await(r) \/ Wake(r) PROVE FALSE
      BY <1>2, <3>7 DEF PollCoroutine, Await, Wake
    <3> QED BY <3>2, <3>3, <3>4, <3>5, <3>6, <3>7, Steps
  <2>2. Waits(q) /\ loop = "leaving"
    BY <1>2, <2>1, Positions DEF DropReceiver
  <2>3. taken # Len(sent)
    BY <2>2 DEF Waits, TypeOK
  <2>4. CASE LoopPanicked
    BY <2>4, PanicStays
  <2>5. CASE Taken(Shutdown)
    <3>1. PICK i \in 1 .. taken : sent[i] = Shutdown
      BY <2>5 DEF Taken
    <3>2. PICK j \in taken + 1 .. Len(sent) : sent[j] = q
      BY <2>2 DEF Waits
    <3>3. i \in DOMAIN sent /\ j \in DOMAIN sent /\ i < j
      BY DEF TypeOK
    <3>4. BehindShutdown(q)
      BY <3>1, <3>2, <3>3 DEF BehindShutdown
    <3> QED BY <3>4, BehindStays
  <2> QED BY <2>2, <2>3, <2>4, <2>5 DEF Reason
<1> QED BY <1>1, <1>2

-----------------------------------------------------------------------------
(* The theorems.                                                           *)

LEMMA InitIInv ==
  ASSUME Init
  PROVE  IInv
<1>1. TypeOK
  BY BoundsAssumption DEF Init, TypeOK, Loops, Stages, Tasks, Threads, Drivers, Answers
<1>2. sent = <<>> /\ Len(sent) = 0 /\ taken = 0
  BY DEF Init
<1>3. \A r : ~Within(r) /\ ~Waits(r)
  BY <1>2 DEF Within, Waits
<1>4. OnceInv /\ FreshInv
  BY <1>2, <1>3 DEF Init, OnceInv, FreshInv
<1>5. PlaceInv
  BY <1>3 DEF Init, PlaceInv, Active
<1>6. BusyInv /\ EndInv
  BY DEF Init, BusyInv, EndInv
<1>7. StopInv
  BY <1>3 DEF Init, StopInv, EarlierAreServed
<1> QED BY <1>1, <1>4, <1>5, <1>6, <1>7 DEF IInv, Core

LEMMA StepIInv ==
  ASSUME IInv, [Next]_vars
  PROVE  IInv'
<1>1. TypeOK' /\ Core'
  BY TypeStep, CoreStep DEF IInv
<1>2. Within(Shutdown)' => driver' \in Stopped
  BY StoppedByDriver DEF IInv, StopInv
<1>3. loop' \in {"leaving", "ended"} => Reason'
  BY LoopEndsForReason DEF IInv, StopInv
<1>4. EarlierAreServed'
  BY EarlierStep DEF IInv, StopInv
<1> QED BY <1>1, <1>2, <1>3, <1>4 DEF IInv, StopInv, Stopped

(* What the safety properties need is inductive: where each unanswered     *)
(* request is, who occupies the thread, why the receive loop ends          *)
(* (submit, run_async_loop, AsyncIsleDriver::shutdown).                    *)
THEOREM InductiveInvariant == Spec => []IInv
<1>1. Init => IInv
  BY InitIInv
<1>2. IInv /\ [Next]_vars => IInv'
  BY StepIInv
<1> QED BY <1>1, <1>2, PTL DEF Spec

(* Type correctness: every variable keeps to the states the code has.      *)
THEOREM TypeCorrect == Spec => []TypeOK
<1>1. IInv => TypeOK
  BY DEF IInv
<1> QED BY <1>1, InductiveInvariant, PTL

(* A request whose code has not come to its end is on the thread. *)
LEMMA WorkingIsActive ==
  ASSUME IInv, NEW r \in Requests
  PROVE  Working(r) <=> stage[r] \in Active
  BY MessagesAssumption DEF IInv, Core, BusyInv, Working, Spawned, Active

(* Every request that submit enqueued is in one place until it is answered, *)
(* for any number of requests and any capacity (submit, run_async_loop).    *)
THEOREM OnePlaceEachAlways == Spec => []OnePlaceEach
<1>1. ASSUME IInv PROVE OnePlaceEach
  <2>1. SUFFICES ASSUME NEW r \in Requests
                 PROVE  /\ Queued(r) => ~Working(r)
                        /\ (Queued(r) \/ Working(r)) <=> (Accepted(r) /\ answer[r] = "none")
    BY DEF OnePlaceEach
  <2>2. /\ Queued(r) <=> Waits(r)
        /\ Accepted(r) <=> Within(r)
        /\ Working(r) <=> stage[r] \in Active
    BY <1>1, Positions, WorkingIsActive DEF IInv
  <2>3. Waits(r) => Within(r)
    BY <1>1 DEF Waits, Within, IInv, TypeOK
  <2>4. "new" \notin Active
    BY DEF Active
  <2> QED BY <1>1, <2>2, <2>3, <2>4 DEF IInv, Core, PlaceInv
<1> QED BY <1>1, InductiveInvariant, PTL

(* Only a request accepted behind Shutdown, or a sync panic, costs an      *)
(* accepted request its answer (run_async_loop).                           *)
THEOREM EarlierAreServedAlways == Spec => []EarlierAreServed
<1>1. IInv => EarlierAreServed
  BY DEF IInv, StopInv
<1> QED BY <1>1, InductiveInvariant, PTL

(* While a handle lives, only shutdown or a sync panic ends the receive    *)
(* loop: the driver has no Drop that would (AsyncIsleDriver).              *)
THEOREM HandlesAreServedAlways == Spec => []HandlesAreServed
<1>1. ASSUME IInv PROVE HandlesAreServed
  <2>1. SUFFICES ASSUME loop \in {"leaving", "ended"}, handles > 0
                 PROVE  driver \in Stopped \/ LoopPanicked
    BY DEF HandlesAreServed, Stopped
  <2>2. Reason
    BY <1>1, <2>1 DEF IInv, StopInv
  <2>3. ~NoSenders
    BY <1>1, <2>1 DEF NoSenders, IInv, TypeOK
  <2>4. Taken(Shutdown) => Within(Shutdown)
    BY <1>1 DEF Taken, Within, IInv, TypeOK
  <2> QED BY <1>1, <2>2, <2>3, <2>4 DEF Reason, IInv, StopInv
<1> QED BY <1>1, InductiveInvariant, PTL

(* When shutdown returns, and when the done signal is sent, every accepted *)
(* request is settled: pending coroutines were drained (run_async_loop).   *)
THEOREM ShutdownSettlesAllAlways == Spec => []ShutdownSettlesAll
<1>1. ASSUME IInv PROVE ShutdownSettlesAll
  <2>1. SUFFICES ASSUME thread \in {"done", "exited"}, NEW r \in Requests, Accepted(r)
                 PROVE  answer[r] # "none"
    BY <1>1 DEF ShutdownSettlesAll, IInv, Core, EndInv
  <2>2. LocalSetDone /\ busy = None /\ taken = Len(sent)
    BY <1>1, <2>1 DEF IInv, Core, EndInv, LocalSetDone
  <2>3. ~Waits(r)
    BY <1>1, <2>2 DEF Waits, IInv, TypeOK
  <2>4. ~Working(r)
    BY <2>2, MessagesAssumption DEF LocalSetDone, Working
  <2>5. stage[r] \notin Active
    BY <1>1, <2>4, WorkingIsActive
  <2>6. Within(r)
    BY <1>1, <2>1, Positions DEF IInv
  <2> QED BY <1>1, <2>3, <2>5, <2>6 DEF IInv, Core, PlaceInv
<1> QED BY <1>1, InductiveInvariant, PTL

-----------------------------------------------------------------------------
(* The async isle implements Service.                                      *)

(* The receive loop leaves for good at the first Shutdown it takes and at  *)
(* the panic of a sync request.                                            *)
ServingInv == loop \in {"recv", "running"} => ~Taken(Shutdown) /\ ~LoopPanicked

PromiseInv == IInv /\ ServingInv

(* Only the panic of a sync request makes LoopPanicked true. *)
LEMMA PanickedByPanic ==
  ASSUME TypeOK, [Next]_vars, \A r \in Requests \ Coroutines : ~Panic(r)
  PROVE  LoopPanicked' => LoopPanicked
<1> SUFFICES ASSUME NEW q \in Requests \ Coroutines, answer'[q] = "panicked" PROVE answer[q] = "panicked"
  BY DEF LoopPanicked
<1>1. ASSUME NEW r \in Requests, Submit(r) \/ SubmitForeign(r) PROVE answer[q] = "panicked"
  BY <1>1 DEF Submit, SubmitForeign, Resolve, TypeOK
<1>2. ASSUME NEW r \in Requests, Finish(r) PROVE answer[q] = "panicked"
  BY <1>2 DEF Finish, Outcomes, Resolve, TypeOK
<1>3. ASSUME NEW r \in Requests, Panic(r) PROVE answer[q] = "panicked"
  <2>1. r # q
    BY <1>3
  <2> QED BY <1>3, <2>1 DEF Panic, Resolve, TypeOK
<1>4. CASE DropReceiver
  BY <1>4 DEF DropReceiver
<1>5. CASE UNCHANGED vars
  BY <1>5 DEF vars
<1>6. CASE Idling
  BY <1>6, IdlingType
<1>7. CASE CallShutdown \/ SendShutdown \/ Receive \/ StopReceiving
  BY <1>7 DEF CallShutdown, SendShutdown, Receive, StopReceiving
<1>8. ASSUME NEW r \in Requests, PollCoroutine(r) \/ Await(r) \/ Wake(r) PROVE answer[q] = "panicked"
  BY <1>8 DEF PollCoroutine, Await, Wake
<1> QED BY <1>1, <1>2, <1>3, <1>4, <1>5, <1>6, <1>7, <1>8, Steps

LEMMA ServingStep ==
  ASSUME IInv, ServingInv, [Next]_vars
  PROVE  ServingInv'
<1> SUFFICES ASSUME loop' \in {"recv", "running"} PROVE ~Taken(Shutdown)' /\ ~LoopPanicked'
  BY DEF ServingInv
<1>0. TypeOK /\ OnceInv /\ BusyInv
  BY DEF IInv, Core
<1>1. \A r \in Requests \ Coroutines : ~Panic(r)
  BY DEF Panic, LoopAfterPanic
<1>2. LoopPanicked' => LoopPanicked
  BY <1>0, <1>1, PanickedByPanic
<1>3. ASSUME loop \in {"recv", "running"}, UNCHANGED channelVars PROVE ~Taken(Shutdown)' /\ ~LoopPanicked'
  BY <1>2, <1>3 DEF channelVars, ServingInv, Taken
<1>4. CASE UNCHANGED vars
  BY <1>3, <1>4 DEF vars, threadVars
<1>5. CASE Idling
  BY <1>0, <1>3, <1>5, IdlingType
<1>6. ASSUME loop' = loop, taken' = taken, sent' = sent \/ \E m \in Requests \cup {Shutdown} : Accept(m)
      PROVE  ~Taken(Shutdown)' /\ ~LoopPanicked'
  <2>1. CASE sent' = sent
    BY <1>3, <1>6, <2>1 DEF channelVars
  <2>2. ASSUME NEW m \in Requests \cup {Shutdown}, Accept(m) PROVE Taken(Shutdown)' <=> Taken(Shutdown)
    BY <1>0, <1>6, <2>2, SendEffect
  <2> QED BY <1>2, <1>6, <2>1, <2>2 DEF ServingInv
<1>7. CASE CallShutdown \/ SendShutdown
  BY <1>6, <1>7 DEF CallShutdown, SendShutdown, threadVars
<1>8. ASSUME NEW r \in Requests, Submit(r) \/ SubmitForeign(r) PROVE ~Taken(Shutdown)' /\ ~LoopPanicked'
  BY <1>6, <1>8 DEF Submit, SubmitForeign, threadVars, channelVars
<1>9. CASE Receive
  <2>1. queue # <<>> /\ Head(queue) # Shutdown /\ sent' = sent /\ taken' = taken + 1 /\ loop = "recv"
    BY <1>9 DEF Receive
  <2>2. Taken(Shutdown)' <=> Taken(Shutdown)
    BY <1>0, <2>1, TakeEffect
  <2> QED BY <1>2, <2>1, <2>2 DEF ServingInv
<1>10. CASE StopReceiving \/ DropReceiver
  BY <1>10 DEF StopReceiving, DropReceiver
<1>11. ASSUME NEW r \in Requests, PollCoroutine(r) \/ Await(r) \/ Wake(r) PROVE ~Taken(Shutdown)' /\ ~LoopPanicked'
  BY <1>3, <1>11 DEF PollCoroutine, Await, Wake
<1>12. ASSUME NEW r \in Requests, Finish(r) \/ Panic(r) PROVE ~Taken(Shutdown)' /\ ~LoopPanicked'
  <2>1. UNCHANGED channelVars
    BY <1>12 DEF Finish, Panic
  <2>2. CASE r \in Coroutines
    BY <1>3, <1>12, <2>1, <2>2 DEF Finish, Panic, LoopAfterPanic
  <2>3. CASE r \notin Coroutines
    <3>1. loop = "running"
      BY <1>0, <1>12, <2>3, MessagesAssumption DEF Finish, Panic, BusyInv
    <3> QED BY <1>3, <2>1, <3>1
  <2> QED BY <2>2, <2>3
<1> QED BY <1>4, <1>5, <1>7, <1>8, <1>9, <1>10, <1>11, <1>12, Steps

LEMMA PromiseInvariant == Spec => []PromiseInv
<1>1. Init => ServingInv
  BY InitIInv DEF Init, ServingInv, Taken, LoopPanicked
<1>2. IInv /\ ServingInv /\ [Next]_vars => ServingInv'
  BY ServingStep
<1> QED BY <1>1, <1>2, InductiveInvariant, PTL DEF Spec, PromiseInv

(* What the channel holds after a send, a receive and the receiver's drop. *)
LEMMA Rest ==
  ASSUME NEW S, NEW s \in Seq(S), NEW t \in 0 .. Len(s)
  PROVE  /\ SubSeq(s, t + 1, Len(s)) \in Seq(S)
         /\ Len(SubSeq(s, t + 1, Len(s))) = Len(s) - t
         /\ \A i \in 1 .. Len(s) - t : SubSeq(s, t + 1, Len(s))[i] = s[i + t]
OBVIOUS

LEMMA RestAppended ==
  ASSUME NEW S, NEW s \in Seq(S), NEW t \in 0 .. Len(s), NEW m \in S
  PROVE  SubSeq(Append(s, m), t + 1, Len(Append(s, m))) = Append(SubSeq(s, t + 1, Len(s)), m)
<1> DEFINE a == Append(s, m)
           q == SubSeq(s, t + 1, Len(s))
           n == SubSeq(a, t + 1, Len(a))
           p == Append(q, m)
<1>1. /\ a \in Seq(S) /\ Len(a) = Len(s) + 1 /\ a[Len(s) + 1] = m
      /\ \A i \in 1 .. Len(s) : a[i] = s[i]
      /\ Len(s) \in Nat
  BY AppendProperties, LenProperties
<1>2. q \in Seq(S) /\ Len(q) = Len(s) - t /\ \A i \in 1 .. Len(s) - t : q[i] = s[i + t]
  BY Rest
<1>3. t \in 0 .. Len(a)
  BY <1>1
<1>4. n \in Seq(S) /\ Len(n) = Len(a) - t /\ \A i \in 1 .. Len(a) - t : n[i] = a[i + t]
  BY <1>1, <1>3, Rest
<1> HIDE DEF q
<1>5. /\ p \in Seq(S) /\ Len(p) = Len(q) + 1 /\ p[Len(q) + 1] = m
      /\ \A i \in 1 .. Len(q) : p[i] = q[i]
  BY <1>2, AppendProperties
<1> HIDE DEF a, n, p
<1>6. Len(n) = Len(p)
  BY <1>1, <1>2, <1>4, <1>5
<1>7. ASSUME NEW i \in 1 .. Len(n) PROVE n[i] = p[i]
  <2>1. CASE i \in 1 .. Len(s) - t
    <3>1. i + t \in 1 .. Len(s)
      BY <1>1, <2>1
    <3> QED BY <1>1, <1>2, <1>4, <1>5, <2>1, <3>1
  <2>2. CASE i = Len(s) - t + 1
    <3>1. i + t = Len(s) + 1 /\ i = Len(q) + 1
      BY <1>1, <1>2, <2>2
    <3> QED BY <1>1, <1>4, <1>5, <3>1
  <2> QED BY <1>1, <1>4, <1>7, <2>1, <2>2
<1>8. n = p
  BY <1>4, <1>5, <1>6, <1>7, SeqEqual
<1> QED BY <1>8 DEF a, q, n, p

LEMMA RestTail ==
  ASSUME NEW S, NEW s \in Seq(S), NEW t \in 0 .. Len(s), t # Len(s)
  PROVE  SubSeq(s, (t + 1) + 1, Len(s)) = Tail(SubSeq(s, t + 1, Len(s)))
<1> DEFINE q == SubSeq(s, t + 1, Len(s))
           n == SubSeq(s, (t + 1) + 1, Len(s))
<1>1. Len(s) \in Nat /\ t + 1 \in 0 .. Len(s)
  BY LenProperties
<1>2. q \in Seq(S) /\ Len(q) = Len(s) - t /\ \A i \in 1 .. Len(s) - t : q[i] = s[i + t]
  BY Rest
<1>3. /\ n \in Seq(S) /\ Len(n) = Len(s) - (t + 1)
      /\ \A i \in 1 .. Len(s) - (t + 1) : n[i] = s[i + (t + 1)]
  BY <1>1, Rest
<1> HIDE DEF q, n
<1>4. q # <<>>
  BY <1>1, <1>2, EmptySeq
<1>5. Tail(q) \in Seq(S) /\ Len(Tail(q)) = Len(q) - 1 /\ \A i \in 1 .. Len(Tail(q)) : Tail(q)[i] = q[i + 1]
  BY <1>2, <1>4, HeadTailProperties
<1>6. Len(n) = Len(Tail(q))
  BY <1>1, <1>2, <1>3, <1>5
<1>7. ASSUME NEW i \in 1 .. Len(n) PROVE n[i] = Tail(q)[i]
  <2>1. i + 1 \in 1 .. Len(s) - t /\ (i + 1) + t = i + (t + 1)
    BY <1>1, <1>3
  <2> QED BY <1>2, <1>3, <1>5, <1>6, <2>1
<1>8. n = Tail(q)
  BY <1>3, <1>5, <1>6, <1>7, SeqEqual
<1> QED BY <1>8 DEF q, n

LEMMA QueueAfter ==
  ASSUME TypeOK
  PROVE  /\ \A m \in Requests \cup {Shutdown} : Accept(m) /\ taken' = taken => queue' = Append(queue, m)
         /\ queue # <<>> /\ sent' = sent /\ taken' = taken + 1 => queue' = Tail(queue)
         /\ sent' = sent /\ taken' = Len(sent) => queue' = <<>>
<1>1. sent \in Seq(Requests \cup {Shutdown}) /\ taken \in 0 .. Len(sent) /\ Len(sent) \in Nat
  BY DEF TypeOK
<1>2. queue = <<>> <=> taken = Len(sent)
  BY Positions
<1>3. ASSUME NEW m \in Requests \cup {Shutdown}, Accept(m), taken' = taken
      PROVE  queue' = Append(queue, m)
  BY <1>1, <1>3, RestAppended DEF queue, Accept
<1>4. ASSUME queue # <<>>, sent' = sent, taken' = taken + 1 PROVE queue' = Tail(queue)
  BY <1>1, <1>2, <1>4, RestTail DEF queue
<1>5. ASSUME sent' = sent, taken' = Len(sent) PROVE queue' = <<>>
  BY <1>1, <1>5, SubSeqEmpty DEF queue
<1> QED BY <1>3, <1>4, <1>5

(* What the phase, the running requests and their fates depend on. *)
LEMMA PhaseKept ==
  ASSUME loop' = loop, driver' = "joined" <=> driver = "joined", taken' = taken,
         loop = "leaving" => (LoopPanicked' <=> LoopPanicked),
         StopTaken' <=> StopTaken
  PROVE  Phase' = Phase
BY DEF Phase

LEMMA WorkKept ==
  ASSUME UNCHANGED <<busy, stage>>
  PROVE  \A r : Working(r)' <=> Working(r)
BY DEF Working, Spawned

LEMMA FateKept ==
  ASSUME answer' = answer, \A r \in Requests : task'[r] = "none" <=> task[r] = "none"
  PROVE  \A r \in Requests : Fate(r)' = Fate(r)
BY DEF Fate, Told

(* A step that moves neither a request nor the loop is none of Service. *)
LEMMA NoMove ==
  ASSUME UNCHANGED channelVars, Phase' = Phase,
         \A r \in Requests : (Working(r)' <=> Working(r)) /\ Fate(r)' = Fate(r)
  PROVE  UNCHANGED Promised!vars
<1>1. queue' = queue
  BY DEF queue, channelVars
<1> QED BY <1>1 DEF Promised!vars

(* What the handles, the driver and the thread do beside the requests.     *)
LEMMA IdlingServes ==
  ASSUME PromiseInv, Idling
  PROVE  [Promised!Next]_(Promised!vars)
<1>1. /\ UNCHANGED channelVars /\ UNCHANGED <<loop, busy, stage, answer>>
      /\ \A r \in Requests : task'[r] = "none" <=> task[r] = "none"
  BY IdlingType DEF PromiseInv, IInv
<1>2. /\ (LoopPanicked' <=> LoopPanicked) /\ (StopTaken' <=> StopTaken)
      /\ taken' = taken /\ queue' = queue
  BY <1>1 DEF LoopPanicked, StopTaken, channelVars, queue
<1>3. \A r \in Requests : (Working(r)' <=> Working(r)) /\ Fate(r)' = Fate(r)
  BY <1>1, WorkKept, FateKept
<1>4. CASE JoinThread
  <2>1. thread = "exited" /\ driver = "joining" /\ driver' = "joined"
    BY <1>4 DEF JoinThread
  <2>2. LocalSetDone /\ busy = None
    BY <2>1 DEF PromiseInv, IInv, Core, EndInv
  <2>3. Phase = "over" /\ Phase' = "ended"
    BY <1>1, <2>1, <2>2 DEF Phase, LocalSetDone
  <2>4. {r \in Requests : Working(r)} = {}
    BY <2>2, MessagesAssumption DEF LocalSetDone, Working
  <2>5. Promised!Return
    BY <1>2, <1>3, <2>3, <2>4 DEF Promised!Return
  <2> QED BY <2>5 DEF Promised!Next
<1>5. CASE ~JoinThread
  <2>1. driver' = "joined" <=> driver = "joined"
    <3>1. CASE Starting \/ Handles \/ Ending
      BY <3>1 DEF Starting, InitSucceeds, InitFails, InitPanics, Unwinds, Handles, CloneHandle, DropHandle,
                  Ending, SendDone, Exit
    <3>2. CASE Spawning
      BY <3>2 DEF Spawning, SpawnReturns, SpawnReaps, SpawnDropped, InitResult
    <3>3. CASE DropDriver \/ AwaitDone \/ ShutdownDropped
      BY <3>3 DEF DropDriver, AwaitDone, ShutdownDropped
    <3>4. ASSUME NEW r \in Requests, PollTask(r) \/ Detach(r) \/ Cancel(r) \/ DropTask(r)
          PROVE  driver' = driver
      BY <3>4 DEF PollTask, Detach, Cancel, DropTask
    <3> QED BY <1>5, <3>1, <3>2, <3>3, <3>4 DEF Idling
  <2>2. Phase' = Phase
    BY <1>1, <1>2, <2>1, PhaseKept
  <2> QED BY <1>1, <1>3, <2>2, NoMove
<1> QED BY <1>4, <1>5

(* A step that sends m, or sends nothing. *)
LEMMA SendStays ==
  ASSUME TypeOK, UNCHANGED <<taken, loop, busy, stage>>, driver' = "joined" <=> driver = "joined",
         LoopPanicked' <=> LoopPanicked,
         sent' = sent \/ \E m \in Requests \cup {Shutdown} : Accept(m)
  PROVE  /\ Phase' = Phase
         /\ {r \in Requests : Working(r)}' = {r \in Requests : Working(r)}
<1>1. StopTaken' <=> StopTaken
  <2>1. CASE sent' = sent
    BY <2>1 DEF StopTaken
  <2>2. ASSUME NEW m \in Requests \cup {Shutdown}, Accept(m) PROVE StopTaken' <=> StopTaken
    BY <2>2, SendEffect DEF StopTaken, Taken
  <2> QED BY <2>1, <2>2
<1> QED BY <1>1, PhaseKept, WorkKept

LEMMA OpenTakes == ~Closed => Phase \in {"serving", "stopping"}
BY DEF Closed, Phase

LEMMA DriverServes ==
  ASSUME PromiseInv, CallShutdown \/ SendShutdown
  PROVE  [Promised!Next]_(Promised!vars)
<1>1. /\ TypeOK
      /\ UNCHANGED <<taken, loop, busy, stage, answer, task>>
      /\ driver' = "joined" <=> driver = "joined"
      /\ sent' = sent \/ (~Closed /\ Accept(Shutdown))
  BY DEF PromiseInv, IInv, CallShutdown, SendShutdown, threadVars, taskVars
<1>2. LoopPanicked' <=> LoopPanicked
  BY <1>1 DEF LoopPanicked
<1>3. Phase' = Phase /\ {r \in Requests : Working(r)}' = {r \in Requests : Working(r)}
  BY <1>1, <1>2, SendStays
<1>4. \A r \in Requests : Fate(r)' = Fate(r)
  BY <1>1, FateKept
<1>5. CASE sent' = sent
  <2>1. queue' = queue
    BY <1>1, <1>5 DEF queue
  <2> QED BY <1>3, <1>4, <2>1 DEF Promised!vars
<1>6. CASE ~Closed /\ Accept(Shutdown)
  <2>1. queue' = Append(queue, Shutdown)
    BY <1>1, <1>6, QueueAfter
  <2>2. Promised!AskStop
    BY <1>3, <1>4, <1>6, <2>1, OpenTakes DEF Promised!AskStop, Promised!Takes
  <2> QED BY <2>2 DEF Promised!Next
<1> QED BY <1>1, <1>5, <1>6

LEMMA SubmitServes ==
  ASSUME PromiseInv, NEW t \in Requests, Submit(t) \/ SubmitForeign(t)
  PROVE  [Promised!Next]_(Promised!vars)
<1>1. TypeOK /\ FreshInv
  BY DEF PromiseInv, IInv, Core
<1>2. /\ UNCHANGED <<taken, loop, busy, stage, driver>>
      /\ task[t] = "none" /\ task'[t] = "pending" /\ answer[t] = "none"
      /\ \A r \in Requests : r # t => task'[r] = task[r]
      /\ \/ ~Closed /\ Accept(t) /\ answer' = answer
         \/ sent' = sent /\ \E refusal \in Refusals : Resolve(t, refusal)
  BY <1>1 DEF Submit, SubmitForeign, threadVars, channelVars, TypeOK, FreshInv, Refusals
<1>3. LoopPanicked' <=> LoopPanicked
  BY <1>1, <1>2 DEF LoopPanicked, Resolve, Refusals, TypeOK
<1>4. Phase' = Phase /\ {r \in Requests : Working(r)}' = {r \in Requests : Working(r)}
  BY <1>1, <1>2, <1>3, SendStays
<1>5. Fate(t) = "new" /\ Fate(t)' = Told(answer'[t])
  BY <1>2 DEF Fate, Told
<1>6. \A r \in Requests : r # t => Fate(r)' = Fate(r)
  BY <1>1, <1>2 DEF Fate, Told, Resolve, TypeOK
<1>7. ASSUME NEW f, Fate(t)' = f
      PROVE  [r \in Requests |-> Fate(r)]' = [[r \in Requests |-> Fate(r)] EXCEPT ![t] = f]
  BY <1>6, <1>7
<1>8. CASE ~Closed /\ Accept(t) /\ answer' = answer
  <2>1. queue' = Append(queue, t)
    BY <1>1, <1>2, <1>8, QueueAfter
  <2>2. Fate(t)' = "open"
    BY <1>2, <1>5, <1>8 DEF Told, Refusals
  <2>3. Promised!Accept(t)
    BY <1>4, <1>5, <1>7, <1>8, <2>1, <2>2, OpenTakes DEF Promised!Accept, Promised!Takes, Promised!Becomes
  <2> QED BY <2>3 DEF Promised!Next
<1>9. ASSUME sent' = sent, NEW refusal \in Refusals, Resolve(t, refusal) PROVE Promised!Next
  <2>1. queue' = queue
    BY <1>2, <1>9 DEF queue
  <2>2. answer'[t] = refusal
    BY <1>1, <1>9 DEF Resolve, TypeOK
  <2>3. Fate(t)' = "refused"
    BY <1>5, <2>2 DEF Told, Refusals
  <2>4. Promised!Refuse(t)
    BY <1>4, <1>5, <1>7, <2>1, <2>3 DEF Promised!Refuse, Promised!Becomes
  <2> QED BY <2>4 DEF Promised!Next
<1> QED BY <1>2, <1>8, <1>9

(* Only a sync request that runs keeps the receive loop from its next step. *)
LEMMA FreeLoop ==
  ASSUME PromiseInv, busy = None \/ loop = "leaving"
  PROVE  busy = None /\ {r \in Requests : Working(r)} \cap (Requests \ Coroutines) = {}
<1>1. BusyInv
  BY DEF PromiseInv, IInv, Core
<1>2. busy = None
  BY <1>1 DEF BusyInv
<1>3. \A r \in Requests : Working(r) => r \in Coroutines
  BY <1>1, <1>2, MessagesAssumption DEF BusyInv, Working, Spawned
<1> QED BY <1>2, <1>3

(* What the receive loop does. *)
LEMMA ReceiverServes ==
  ASSUME PromiseInv, Receive \/ StopReceiving \/ DropReceiver
  PROVE  [Promised!Next]_(Promised!vars)
<1>0. TypeOK /\ OnceInv /\ FreshInv /\ PlaceInv /\ BusyInv /\ EndInv /\ StopInv
  BY DEF PromiseInv, IInv, Core
<1>1. CASE Receive
  <2>1. /\ Idle /\ loop = "recv" /\ queue # <<>> /\ Head(queue) # Shutdown /\ sent' = sent
        /\ taken' = taken + 1 /\ UNCHANGED <<answer, task, driver>>
    BY <1>1 DEF Receive, taskVars
  <2>2. queue' = Tail(queue)
    BY <1>0, <2>1, QueueAfter
  <2>3. \A r \in Requests : Fate(r)' = Fate(r)
    BY <2>1, FateKept
  <2>4. Phase = "serving"
    BY <2>1 DEF Phase
  <2>5. busy = None /\ Promised!Free
    BY <2>1, FreeLoop DEF Idle, Promised!Free
  <2>6. Promised!Advance
    BY <2>1, <2>2, <2>3, <2>4, <2>5 DEF Promised!Advance
  <2>7. PICK h \in Requests : h = Head(queue)
    <3>1. Head(queue) = sent[taken + 1] /\ taken + 1 \in 1 .. Len(sent)
      BY <1>0, <2>1, Positions
    <3> QED BY <1>0, <2>1, <3>1 DEF TypeOK
  <2>8. \/ h \in Coroutines /\ Reach(h, "ready") /\ loop' = loop /\ busy' = busy
        \/ h \notin Coroutines /\ Reach(h, "running") /\ loop' = "running" /\ busy' = h
    BY <1>1, <2>7 DEF Receive
  <2>9. Phase' = "serving"
    BY <2>1, <2>8 DEF Phase
  <2>10. stage[h] = "new"
    <3>1. Waits(h)
      BY <1>0, <2>1, <2>7, TakeEffect
    <3> QED BY <1>0, <3>1 DEF PlaceInv
  <2>11. ASSUME NEW r \in Requests PROVE Working(r)' <=> Working(r) \/ r = h
    <3>1. stage'[r] = IF r = h THEN (IF h \in Coroutines THEN "ready" ELSE "running") ELSE stage[r]
      BY <1>0, <2>8 DEF Reach, TypeOK
    <3> QED BY <2>5, <2>8, <3>1, MessagesAssumption DEF Working, Spawned
  <2>12. {r \in Requests : Working(r)}' = {r \in Requests : Working(r)} \cup {h}
    BY <2>11
  <2>13. Promised!Begin
    BY <2>1, <2>4, <2>6, <2>7, <2>9, <2>12 DEF Promised!Begin
  <2> QED BY <2>13 DEF Promised!Next
<1>2. CASE StopReceiving
  <2>1. /\ Idle /\ loop = "recv" /\ loop' = "leaving" /\ UNCHANGED <<sent, busy, stage, answer, task, driver>>
    BY <1>2 DEF StopReceiving, taskVars
  <2>2. \A r \in Requests : Fate(r)' = Fate(r)
    BY <2>1, FateKept
  <2>3. {r \in Requests : Working(r)}' = {r \in Requests : Working(r)}
    BY <2>1, WorkKept
  <2>4. Phase = "serving"
    BY <2>1 DEF Phase
  <2>5. CASE queue # <<>> /\ Head(queue) = Shutdown /\ taken' = taken + 1
    <3>1. queue' = Tail(queue)
      BY <1>0, <2>1, <2>5, QueueAfter
    <3>2. Taken(Shutdown)'
      BY <1>0, <2>1, <2>5, TakeEffect
    <3>3. Phase' = "stopping"
      BY <2>1, <3>2 DEF Phase, StopTaken, Taken
    <3>4. Promised!Free
      BY <2>1, FreeLoop DEF Idle, Promised!Free
    <3>5. Promised!TakeStop
      BY <2>2, <2>3, <2>4, <2>5, <3>1, <3>3, <3>4 DEF Promised!TakeStop, Promised!Advance
    <3> QED BY <3>5 DEF Promised!Next
  <2>6. CASE taken' = taken
    <3>1. ~StopTaken' /\ ~LoopPanicked'
      <4>1. ~Taken(Shutdown) /\ ~LoopPanicked
        BY <2>1 DEF PromiseInv, ServingInv
      <4> QED BY <2>1, <2>6, <4>1 DEF StopTaken, Taken, LoopPanicked
    <3>2. Phase' = Phase
      BY <2>1, <2>4, <3>1 DEF Phase
    <3>3. queue' = queue
      BY <2>1, <2>6 DEF queue
    <3> QED BY <2>2, <2>3, <3>2, <3>3 DEF Promised!vars
  <2> QED BY <1>2, <2>5, <2>6 DEF StopReceiving
<1>3. CASE DropReceiver
  <2>1. /\ loop = "leaving" /\ loop' = "ended" /\ sent' = sent /\ taken' = Len(sent)
        /\ UNCHANGED <<busy, stage, task, driver>>
        /\ \A r \in Requests : answer'[r] = IF Queued(r) THEN "dropped" ELSE answer[r]
    BY <1>3 DEF DropReceiver, taskVars
  <2>2. queue' = <<>>
    BY <1>0, <2>1, QueueAfter
  <2>3. {r \in Requests : Working(r)}' = {r \in Requests : Working(r)} /\ Promised!Free
    BY <2>1, WorkKept, FreeLoop DEF Promised!Free
  <2>4. driver # "joined"
    BY <1>0, <2>1 DEF EndInv, LocalSetDone
  <2>5. Phase' = "over"
    BY <2>1, <2>4 DEF Phase
  <2>6. ASSUME NEW r \in Requests PROVE Fate(r)' = IF Queued(r) THEN "lost" ELSE Fate(r)
    <3>1. CASE Queued(r)
      <4>1. Waits(r)
        BY <1>0, <3>1, Positions
      <4>2. Within(r)
        BY <1>0, <4>1 DEF Waits, Within, TypeOK
      <4>3. task'[r] # "none"
        BY <1>0, <2>1, <4>2 DEF FreshInv
      <4> QED BY <2>1, <3>1, <4>3 DEF Fate, Told, Refusals
    <3>2. CASE ~Queued(r)
      BY <2>1, <3>2 DEF Fate, Told
    <3> QED BY <3>1, <3>2
  <2>7. \A r : Queued(r) <=> Promised!Waits(r)
    BY DEF Queued, Promised!Waits, ToSet
  <2>8. CASE StopTaken \/ LoopPanicked
    <3>1. Phase = "stopping"
      BY <2>1, <2>8 DEF Phase
    <3>2. Promised!Fall
      BY <2>2, <2>3, <2>5, <2>6, <2>7, <3>1 DEF Promised!Fall
    <3> QED BY <3>2 DEF Promised!Next
  <2>9. CASE ~(StopTaken \/ LoopPanicked)
    <3>1. Phase = "serving"
      BY <2>1, <2>9 DEF Phase
    <3>2. taken = Len(sent)
      BY <1>0, <2>1, <2>9 DEF StopInv, Reason, StopTaken, Taken
    <3>3. queue = <<>>
      BY <1>0, <3>2, Positions
    <3>4. \A r \in Requests : ~Queued(r)
      BY <3>3 DEF Queued, ToSet
    <3>5. Promised!Retire
      BY <2>2, <2>3, <2>5, <2>6, <3>1, <3>3, <3>4 DEF Promised!Retire
    <3> QED BY <3>5 DEF Promised!Next
  <2> QED BY <2>8, <2>9
<1> QED BY <1>1, <1>2, <1>3

(* What a request's code does. *)
LEMMA JobServes ==
  ASSUME PromiseInv, [Next]_vars, NEW t \in Requests,
         PollCoroutine(t) \/ Await(t) \/ Wake(t) \/ Finish(t) \/ Panic(t)
  PROVE  [Promised!Next]_(Promised!vars)
<1>0. TypeOK /\ FreshInv /\ PlaceInv /\ BusyInv /\ t # None
  BY MessagesAssumption DEF PromiseInv, IInv, Core
<1>1. UNCHANGED channelVars /\ UNCHANGED <<task, driver>>
  BY DEF PollCoroutine, Await, Wake, Finish, Panic, taskVars
<1>2. queue' = queue /\ (StopTaken' <=> StopTaken) /\ taken' = taken
  BY <1>1 DEF queue, channelVars, StopTaken
<1>3. CASE PollCoroutine(t) \/ Await(t) \/ Wake(t)
  <2>1. answer' = answer /\ loop' = loop
    BY <1>3 DEF PollCoroutine, Await, Wake
  <2>2. Phase' = Phase
    BY <1>1, <1>2, <2>1, PhaseKept DEF LoopPanicked
  <2>3. \A r \in Requests : Fate(r)' = Fate(r)
    BY <1>1, <2>1, FateKept
  <2>4. ASSUME NEW r \in Requests PROVE Working(r)' <=> Working(r)
    <3>1. CASE PollCoroutine(t)
      BY <1>0, <3>1, MessagesAssumption DEF PollCoroutine, Idle, Working, Spawned
    <3>2. CASE Await(t)
      BY <1>0, <3>2, MessagesAssumption DEF Await, Reach, Working, Spawned, TypeOK
    <3>3. CASE Wake(t)
      BY <1>0, <3>3 DEF Wake, Reach, Working, Spawned, TypeOK
    <3> QED BY <1>3, <3>1, <3>2, <3>3
  <2> QED BY <1>1, <2>2, <2>3, <2>4, NoMove
<1>4. ASSUME Finish(t) \/ Panic(t) PROVE Promised!Next
  <2>1. /\ busy = t /\ busy' = None /\ Reach(t, "over")
        /\ \E out \in {"ok", "err", "Cancelled", "panicked"} : Resolve(t, out)
    BY <1>4 DEF Finish, Panic, Outcomes
  <2>2. ASSUME NEW r \in Requests PROVE Working(r)' <=> Working(r) /\ r # t
    <3>1. stage'[r] = IF r = t THEN "over" ELSE stage[r]
      BY <1>0, <2>1 DEF Reach, TypeOK
    <3> QED BY <1>0, <2>1, <3>1, MessagesAssumption DEF Working, Spawned
  <2>3. Working(t) /\ {r \in Requests : Working(r)}' = {r \in Requests : Working(r)} \ {t}
    BY <2>1, <2>2 DEF Working
  <2>4. \A r \in Requests : r # t => Fate(r)' = Fate(r)
    BY <1>0, <1>1, <2>1 DEF Fate, Told, Resolve, TypeOK
  <2>5. task[t] # "none"
    <3>1. stage[t] \in Active
      BY <1>0, <2>1 DEF BusyInv, Active
    <3> QED BY <1>0, <3>1 DEF PlaceInv, FreshInv
  <2>6. Fate(t)' = Told(answer'[t])
    BY <1>1, <2>5 DEF Fate, Told
  <2>7. ASSUME NEW f, Fate(t)' = f
        PROVE  [r \in Requests |-> Fate(r)]' = [[r \in Requests |-> Fate(r)] EXCEPT ![t] = f]
    BY <2>4, <2>7
  <2>8. LoopPanicked => LoopPanicked'
    BY PanicStays DEF PromiseInv, IInv
  <2>9. CASE Finish(t)
    <3>1. answer'[t] \in {"ok", "err", "Cancelled"}
      BY <1>0, <2>9 DEF Finish, Outcomes, Resolve, TypeOK
    <3>2. Fate(t)' = "served"
      BY <2>6, <3>1 DEF Told, Refusals
    <3>3. LoopPanicked' <=> LoopPanicked
      <4>1. \A r \in Requests : r # t => answer'[r] = answer[r]
        BY <1>0, <2>1 DEF Resolve, TypeOK
      <4> QED BY <2>8, <3>1, <4>1 DEF LoopPanicked
    <3>4. Phase' = Phase
      <4>1. CASE t \in Coroutines
        <5>1. loop' = loop
          BY <2>9, <4>1 DEF Finish
        <5> QED BY <1>1, <1>2, <3>3, <5>1, PhaseKept
      <4>2. CASE t \notin Coroutines
        <5>1. loop = "running" /\ loop' = "recv"
          BY <1>0, <2>1, <2>9, <4>2 DEF Finish, BusyInv
        <5> QED BY <5>1 DEF Phase
      <4> QED BY <4>1, <4>2
    <3>5. Promised!Serve(t)
      BY <1>2, <2>3, <2>7, <3>2, <3>4 DEF Promised!Serve, Promised!Becomes
    <3> QED BY <3>5 DEF Promised!Next
  <2>10. CASE Panic(t)
    <3>1. answer'[t] = "panicked"
      BY <1>0, <2>10 DEF Panic, Resolve, TypeOK
    <3>2. Fate(t)' = "lost"
      BY <2>6, <3>1 DEF Told, Refusals
    <3>3. CASE t \in Coroutines
      <4>1. loop' = loop
        BY <2>10, <3>3 DEF Panic, LoopAfterPanic
      <4>2. loop \in {"recv", "ended"}
        BY <1>0, <2>1, <3>3 DEF BusyInv
      <4>3. Phase' = Phase
        BY <1>1, <4>1, <4>2 DEF Phase
      <4>4. Promised!Crash(t)
        BY <1>2, <2>3, <2>7, <3>2, <3>3, <4>3 DEF Promised!Crash, Promised!Becomes
      <4> QED BY <4>4 DEF Promised!Next
    <3>4. CASE t \notin Coroutines
      <4>1. loop' = "leaving" /\ LoopPanicked'
        BY <2>10, <3>1, <3>4 DEF Panic, LoopAfterPanic, LoopPanicked
      <4>2. Phase' = "stopping"
        BY <4>1 DEF Phase
      <4>3. Promised!Crash(t)
        BY <1>2, <2>3, <2>7, <3>2, <3>4, <4>2 DEF Promised!Crash, Promised!Becomes
      <4> QED BY <4>3 DEF Promised!Next
    <3> QED BY <3>3, <3>4
  <2> QED BY <1>4, <2>9, <2>10
<1> QED BY <1>3, <1>4

(* The async isle implements the abstract service: requests are begun in   *)
(* the order they were accepted, a sync one alone, and none is lost but to *)
(* a panic or behind Shutdown; shutdown returns when nothing runs any more *)
(* (run_async_loop, AsyncIsleDriver::shutdown).                            *)
THEOREM Refinement == Spec => ImplementsService
<1>1. Init => Promised!Init
  <2>1. ASSUME Init PROVE Promised!Init
    <3>1. queue = <<>>
      BY <2>1, SubSeqEmpty DEF Init, queue
    <3>2. \A r \in Requests : ~Working(r)
      BY <2>1, MessagesAssumption DEF Init, Working, Spawned
    <3>3. Phase = "serving" /\ [r \in Requests |-> Fate(r)] = [r \in Requests |-> "new"]
      BY <2>1 DEF Init, Phase, Fate
    <3> QED BY <3>1, <3>2, <3>3 DEF Promised!Init
  <2> QED BY <2>1
<1>2. PromiseInv /\ [Next]_vars => [Promised!Next]_(Promised!vars)
  <2> SUFFICES ASSUME PromiseInv, [Next]_vars PROVE [Promised!Next]_(Promised!vars)
    OBVIOUS
  <2>1. CASE UNCHANGED vars
    <3>1. UNCHANGED <<sent, taken, loop, busy, stage, answer, task, driver>>
      BY <2>1 DEF vars, channelVars, threadVars, taskVars
    <3>2. Phase' = Phase /\ UNCHANGED channelVars
      BY <3>1 DEF Phase, StopTaken, LoopPanicked, channelVars
    <3> QED BY <3>1, <3>2, NoMove, WorkKept, FateKept
  <2>2. ASSUME NEW r \in Requests, Submit(r) \/ SubmitForeign(r) PROVE [Promised!Next]_(Promised!vars)
    BY <2>2, SubmitServes
  <2>3. ASSUME NEW r \in Requests, PollCoroutine(r) \/ Await(r) \/ Wake(r) \/ Finish(r) \/ Panic(r)
        PROVE  [Promised!Next]_(Promised!vars)
    BY <2>3, JobServes
  <2>4. CASE Idling
    BY <2>4, IdlingServes
  <2>5. CASE CallShutdown \/ SendShutdown
    BY <2>5, DriverServes
  <2>6. CASE Receive \/ StopReceiving \/ DropReceiver
    BY <2>6, ReceiverServes
  <2> QED BY <2>1, <2>2, <2>3, <2>4, <2>5, <2>6, Steps
<1> QED BY <1>1, <1>2, PromiseInvariant, PTL DEF Spec, ImplementsService, Promised!Spec
=============================================================================
