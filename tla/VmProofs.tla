------------------------------ MODULE VmProofs ------------------------------
(***************************************************************************)
(* Proofs about two ways in which the VM thread is met from outside:       *)
(* VmCalls, the calls and their cancel checks, and HostChan, the channel   *)
(* that host threads send requests through.  For any calls and threads: the*)
(* types, that a traceback is the failure's own, and that preemption yields*)
(* roots only.  For any senders, receivers, values and capacity: the types *)
(* and the room of the channel, that no receiver sleeps beside what it is  *)
(* to be told of (ToTell), that requests are taken in the order of their   *)
(* sends, and that the two sides of a request agree on its answer.         *)
(***************************************************************************)
EXTENDS VmCalls, HostChan, FiniteSetTheorems, SequenceTheorems, TLAPS

(***************************************************************************)
(* VmCalls.                                                                *)
(***************************************************************************)


(***************************************************************************)
(* The inductive strengthening.                                            *)
(***************************************************************************)
\* A call in progress has a thread to itself; a sync call holds the VM from start to end.
ThreadInv ==
  /\ \A c \in Calls : Live(c) =>
       IF c \in Sync THEN thread[c] = Main /\ running = c ELSE thread[c] \in Threads
  /\ \A c, d \in Calls : Live(c) /\ Live(d) /\ thread[c] = thread[d] => c = d
  /\ inner # Nil => \A c \in Calls : thread[c] # inner

\* What the table has for the thread of a call in progress was recorded in that call.
TraceInv ==
  \A c \in Calls : Live(c) => traces[thread[c]] = Nil \/ traces[thread[c]][2] = c

\* A call that unwinds has its error.
ErrorInv == \A c \in Calls : phase[c] = "unwind" => error[c] \in Errors

VmInv == VmTypeOK /\ ThreadInv /\ TraceInv /\ ErrorInv /\ TraceIsOwn /\ NoSpuriousYield

\* A set of roots other than the thread that runs, when that is a coroutine of the Lua code's own.
LEMMA RootsOnly ==
  ASSUME VmTypeOK, ThreadInv, running # Nil, IsRoot
  PROVE  inner = Nil /\ running \notin Sync
<1>1. running \in Calls /\ Live(running)
  BY DEF VmTypeOK
<1>2. PICK c \in Calls \ Sync : Live(c) /\ thread[c] = LuaThread
  BY DEF VmTypeOK, IsRoot
<1>3. inner = Nil
  BY <1>2 DEF ThreadInv, LuaThread
<1>4. thread[c] = thread[running]
  BY <1>2, <1>3 DEF LuaThread
<1> QED BY <1>1, <1>2, <1>3, <1>4 DEF ThreadInv

LEMMA InitVmInv == VmInit => VmInv
<1> SUFFICES ASSUME VmInit PROVE VmInv
  OBVIOUS
<1>1. \A c \in Calls : ~Live(c) /\ thread[c] = Nil /\ failure[c] = Nil
  BY DEF VmInit, Live
<1>2. ThreadInv /\ TraceInv /\ ErrorInv /\ TraceIsOwn /\ NoSpuriousYield
  BY <1>1 DEF VmInit, ThreadInv, TraceInv, ErrorInv, TraceIsOwn, NoSpuriousYield
<1>3. marks = {thread[c] : c \in {x \in Calls \ Sync : Live(x)}}
  BY <1>1 DEF VmInit
<1>4. VmTypeOK
  <2>1. /\ phase \in [Calls -> {"new", "body", "unwind", "done"}]
        /\ thread \in [Calls -> AllThreads \cup {Nil}]
        /\ traces \in [AllThreads -> (Errors \X Calls) \cup {Nil}]
        /\ error \in [Calls -> Errors \cup {Nil}]
        /\ failure \in [Calls -> (Errors \X ((Errors \X Calls) \cup {Nil})) \cup {Nil}]
    BY DEF VmInit
  <2>2. /\ running = Nil /\ current = Nil /\ inner = Nil /\ cancelled = {} /\ raised = {}
        /\ spurious \in BOOLEAN
    BY DEF VmInit
  <2>3. deferred \in 0..MaxDeferred
    BY ThreadsAssumption, DeferredAssumption DEF VmInit
  <2> QED BY <1>1, <1>3, <2>1, <2>2, <2>3 DEF VmTypeOK
<1> QED BY <1>2, <1>4 DEF VmInv

(***************************************************************************)
(* Polls.                                                                  *)
(***************************************************************************)
LEMMA StartCallKeeps ==
  ASSUME VmInv, NEW c \in Calls, StartCall(c)
  PROVE  VmInv'
<1>0. VmTypeOK /\ ThreadInv /\ TraceInv /\ ErrorInv /\ TraceIsOwn /\ NoSpuriousYield
  BY DEF VmInv
<1>1. PICK t \in AllThreads :
        /\ IF c \in Sync THEN t = Main ELSE t \in Free
        /\ thread' = [thread EXCEPT ![c] = t] /\ traces' = Cleared(t)
        /\ marks' = IF c \in Sync THEN marks ELSE marks \cup {t}
  BY DEF StartCall, Free, AllThreads
<1>2. /\ running = Nil /\ phase[c] = "new" /\ phase' = [phase EXCEPT ![c] = "body"]
      /\ running' = c /\ current' = c /\ inner = Nil /\ thread[c] = Nil /\ t # Nil
      /\ UNCHANGED <<inner, error, failure, hubVars>>
  BY <1>0, ThreadsAssumption DEF StartCall, Enter, VmTypeOK, Live, AllThreads
<1>3. \A x \in Calls : /\ Live(x)' <=> Live(x) \/ x = c
                       /\ thread'[x] = IF x = c THEN t ELSE thread[x]
  BY <1>0, <1>1, <1>2 DEF Live, VmTypeOK
<1>4. \A x \in Calls : Live(x) => x \notin Sync /\ thread[x] \in Threads /\ thread[x] # t
  BY <1>0, <1>1, <1>2, ThreadsAssumption DEF ThreadInv, Free
<1>5. ThreadInv'
  BY <1>0, <1>1, <1>2, <1>3, <1>4 DEF ThreadInv, Free
<1>6. TraceInv'
  BY <1>0, <1>1, <1>2, <1>3, <1>4 DEF TraceInv, Cleared, VmTypeOK, AllThreads
<1>7. marks' = {thread'[x] : x \in {y \in Calls \ Sync : Live(y)'}}
  BY <1>0, <1>1, <1>2, <1>3, <1>4 DEF VmTypeOK
<1>8. VmTypeOK'
  <2>1. thread' \in [Calls -> AllThreads \cup {Nil}] /\ \A x \in Calls : thread'[x] # Nil <=> Live(x)'
    BY <1>0, <1>1, <1>2, <1>3 DEF VmTypeOK
  <2>2. traces' \in [AllThreads -> (Errors \X Calls) \cup {Nil}]
    BY <1>0, <1>1 DEF VmTypeOK, Cleared
  <2>3. running' \in {x \in Calls : Live(x)'} \cup {Nil} /\ current' = running'
    BY <1>2, <1>3
  <2>4. phase' \in [Calls -> {"new", "body", "unwind", "done"}]
    BY <1>0, <1>2 DEF VmTypeOK
  <2> QED BY <1>0, <1>2, <1>7, <2>1, <2>2, <2>3, <2>4 DEF VmTypeOK, hubVars
<1>9. ErrorInv' /\ TraceIsOwn' /\ NoSpuriousYield'
  BY <1>0, <1>2 DEF ErrorInv, TraceIsOwn, NoSpuriousYield, hubVars, VmTypeOK
<1> QED BY <1>5, <1>6, <1>8, <1>9 DEF VmInv

\* A poll begins or ends.
LEMMA CallPollKeeps ==
  ASSUME VmInv, UNCHANGED <<phase, thread, inner, marks, traces, error, failure, hubVars>>,
         current' = running',
         \/ inner = Nil /\ running' = Nil /\ running \notin Sync
         \/ running = Nil /\ running' \in Calls /\ Live(running')
  PROVE  VmInv'
<1>0. VmTypeOK /\ ThreadInv /\ TraceInv /\ ErrorInv /\ TraceIsOwn /\ NoSpuriousYield
  BY DEF VmInv
<1>1. \A x \in Calls : Live(x)' <=> Live(x)
  BY DEF Live
<1>2. ThreadInv' /\ TraceInv'
  BY <1>0, <1>1, ThreadsAssumption DEF ThreadInv, TraceInv
<1>3. VmTypeOK'
  BY <1>0, <1>1 DEF VmTypeOK, hubVars
<1>4. ErrorInv' /\ TraceIsOwn' /\ NoSpuriousYield'
  BY <1>0 DEF ErrorInv, TraceIsOwn, NoSpuriousYield, hubVars
<1> QED BY <1>2, <1>3, <1>4 DEF VmInv

LEMMA ResumeKeeps ==
  ASSUME VmInv, (\E c \in Calls : Resume(c)) \/ Await \/ Preempt
  PROVE  VmInv'
<1>0. VmTypeOK /\ ThreadInv
  BY DEF VmInv
<1>1. CASE \E c \in Calls : Resume(c)
  BY <1>1, CallPollKeeps DEF Resume, Enter, Suspended
<1>2. CASE Await
  BY <1>2, CallPollKeeps DEF Await, Exit
<1>3. CASE Preempt
  <2>1. running # Nil /\ inner = Nil /\ running \notin Sync
    BY <1>0, <1>3, RootsOnly DEF Preempt
  <2> QED BY <1>3, <2>1, CallPollKeeps DEF Preempt, Exit, hubVars
<1> QED BY <1>1, <1>2, <1>3

LEMMA InnerKeeps ==
  ASSUME VmInv, ResumeInner \/ LeaveInner
  PROVE  VmInv'
<1>0. VmTypeOK /\ ThreadInv /\ TraceInv /\ ErrorInv /\ TraceIsOwn /\ NoSpuriousYield
  BY DEF VmInv
<1>1. UNCHANGED <<runVars, marks, error, failure, hubVars>>
  BY DEF ResumeInner, LeaveInner
<1>2. \/ inner' = Nil /\ traces' = traces
      \/ running # Nil /\ \E t \in Free : inner' = t /\ traces' = Cleared(t)
  BY DEF ResumeInner, LeaveInner
<1>3. \A x \in Calls : (Live(x)' <=> Live(x)) /\ thread'[x] = thread[x]
  BY <1>1 DEF Live, runVars
<1>4. ThreadInv'
  BY <1>0, <1>1, <1>2, <1>3 DEF ThreadInv, Free, runVars
<1>5. TraceInv'
  BY <1>0, <1>1, <1>2, <1>3 DEF TraceInv, Cleared, VmTypeOK, Free
<1>6. VmTypeOK'
  <2>1. traces' \in [AllThreads -> (Errors \X Calls) \cup {Nil}]
    BY <1>0, <1>2 DEF VmTypeOK, Cleared
  <2>2. inner' \in Threads \cup {Nil} /\ (inner' # Nil => running # Nil)
    BY <1>2 DEF Free
  <2> QED BY <1>0, <1>1, <1>3, <2>1, <2>2 DEF VmTypeOK, runVars, hubVars
<1>7. ErrorInv' /\ TraceIsOwn' /\ NoSpuriousYield'
  BY <1>0, <1>1 DEF ErrorInv, TraceIsOwn, NoSpuriousYield, hubVars, runVars
<1> QED BY <1>4, <1>5, <1>6, <1>7 DEF VmInv

(***************************************************************************)
(* Errors.                                                                 *)
(***************************************************************************)
\* The running call goes on, or an error unwinds it; a coroutine that it resumed may end.
LEMMA RunKeeps ==
  ASSUME VmInv, running # Nil, NEW e \in Errors,
         UNCHANGED <<thread, running, current, marks, failure, cancelled, spurious>>,
         inner' \in {inner, Nil}, deferred' \in 0..MaxDeferred, raised' \in SUBSET cancelled,
         \/ UNCHANGED <<phase, error>>
         \/ phase' = [phase EXCEPT ![running] = "unwind"] /\ error' = [error EXCEPT ![running] = e],
         UNCHANGED traces \/ Record(e)
  PROVE  VmInv'
<1>0. /\ VmTypeOK /\ ThreadInv /\ TraceInv /\ ErrorInv /\ TraceIsOwn /\ NoSpuriousYield
      /\ running \in Calls /\ Live(running)
  BY DEF VmInv, VmTypeOK
<1>1. \A x \in Calls : (Live(x)' <=> Live(x)) /\ thread'[x] = thread[x]
  BY <1>0 DEF Live, VmTypeOK
<1>2. ThreadInv'
  BY <1>0, <1>1 DEF ThreadInv
<1>3. thread[running] \in AllThreads
  BY <1>0 DEF VmTypeOK
<1>4. TraceInv'
  <2> SUFFICES ASSUME NEW x \in Calls, Live(x)
               PROVE  traces'[thread[x]] = Nil \/ traces'[thread[x]][2] = x
    BY <1>1 DEF TraceInv
  <2>1. CASE UNCHANGED traces
    BY <1>0, <2>1 DEF TraceInv
  <2>2. CASE Record(e)
    <3>1. traces' = [traces EXCEPT ![thread[running]] = <<e, running>>] /\ thread[x] \in AllThreads
      BY <1>0, <2>2 DEF Record, Key, VmTypeOK
    <3>2. CASE x = running
      BY <1>0, <1>3, <3>1, <3>2 DEF VmTypeOK
    <3>3. CASE x # running
      BY <1>0, <1>3, <3>1, <3>3 DEF VmTypeOK, ThreadInv, TraceInv
    <3> QED BY <3>2, <3>3
  <2> QED BY <2>1, <2>2
<1>5. VmTypeOK'
  <2>1. traces' \in [AllThreads -> (Errors \X Calls) \cup {Nil}]
    <3>1. CASE Record(e)
      <4>1. <<e, running>> \in (Errors \X Calls) \cup {Nil}
        BY <1>0
      <4>2. traces' = [traces EXCEPT ![thread[running]] = <<e, running>>]
        BY <3>1 DEF Record, Key
      <4> QED BY <1>0, <4>1, <4>2 DEF VmTypeOK
    <3>2. CASE UNCHANGED traces
      BY <1>0, <3>2 DEF VmTypeOK
    <3> QED BY <3>1, <3>2
  <2>2. /\ phase' \in [Calls -> {"new", "body", "unwind", "done"}]
        /\ error' \in [Calls -> Errors \cup {Nil}]
    BY <1>0 DEF VmTypeOK
  <2> QED BY <1>0, <1>1, <2>1, <2>2 DEF VmTypeOK
<1>6. ErrorInv' /\ TraceIsOwn' /\ NoSpuriousYield'
  BY <1>0 DEF ErrorInv, TraceIsOwn, NoSpuriousYield, VmTypeOK
<1> QED BY <1>2, <1>4, <1>5, <1>6 DEF VmInv

LEMMA RaiseKeeps ==
  ASSUME VmInv, Raise \/ RaiseMemory
  PROVE  VmInv'
<1>1. "memory" \in Errors /\ deferred \in 0..MaxDeferred /\ raised \in SUBSET cancelled
  BY DEF Errors, VmInv, VmTypeOK
<1> QED BY <1>1, RunKeeps DEF Raise, RaiseMemory, Unwind, hubVars

LEMMA CheckKeeps ==
  ASSUME VmInv, NEW inChunk, Check(inChunk)
  PROVE  VmInv'
<1>0. /\ deferred \in 0..MaxDeferred /\ raised \in SUBSET cancelled /\ "cancel" \in Errors
      /\ current = running
  BY DEF Errors, VmInv, VmTypeOK
<1>1. running # Nil /\ running \in cancelled /\ UNCHANGED <<cancelled, spurious>>
  BY <1>0 DEF Check
<1>2. CASE /\ Defers(inChunk) /\ deferred' = IF deferred < MaxDeferred THEN deferred + 1 ELSE deferred
           /\ UNCHANGED <<runVars, inner, marks, traces, error, failure, raised>>
  <2>1. deferred' \in 0..MaxDeferred
    BY <1>0, <1>2, DeferredAssumption
  <2> QED BY <1>0, <1>1, <1>2, <2>1, RunKeeps DEF runVars
<1>3. CASE /\ deferred' = 0 /\ raised' = raised \cup {running}
           /\ \/ Unwind("cancel") /\ Record("cancel")
              \/ inner' = Nil /\ UNCHANGED <<runVars, marks, traces, error, failure>>
  <2>1. deferred' \in 0..MaxDeferred /\ raised' \in SUBSET cancelled
    BY <1>0, <1>1, <1>3, DeferredAssumption
  <2> QED BY <1>0, <1>1, <1>3, <2>1, RunKeeps DEF Unwind, runVars
<1> QED BY <1>2, <1>3 DEF Check

(***************************************************************************)
(* The end of a call.                                                      *)
(***************************************************************************)
LEMMA EndKeeps ==
  ASSUME VmInv, NEW c \in Calls, Live(c), End(c), marks' = Unmarked(c), UNCHANGED <<inner, hubVars>>,
         inner = Nil, running \in {c, Nil}, running' = Nil, current' = Nil,
         \/ UNCHANGED traces
         \/ \E t \in AllThreads : traces' = Cleared(t),
         TraceIsOwn', failure' \in [Calls -> (Errors \X ((Errors \X Calls) \cup {Nil})) \cup {Nil}]
  PROVE  VmInv'
<1>0. VmTypeOK /\ ThreadInv /\ TraceInv /\ ErrorInv /\ NoSpuriousYield
  BY DEF VmInv
<1>1. /\ phase' = [phase EXCEPT ![c] = "done"] /\ thread' = [thread EXCEPT ![c] = Nil]
      /\ error' = [error EXCEPT ![c] = Nil]
  BY DEF End
<1>2. \A x \in Calls : /\ Live(x)' <=> Live(x) /\ x # c
                       /\ thread'[x] = IF x = c THEN Nil ELSE thread[x]
  BY <1>0, <1>1 DEF Live, VmTypeOK
<1>3. ThreadInv'
  BY <1>0, <1>2 DEF ThreadInv
<1>4. TraceInv'
  BY <1>0, <1>2 DEF TraceInv, Cleared, VmTypeOK, AllThreads
<1>5. marks' = {thread'[x] : x \in {y \in Calls \ Sync : Live(y)'}}
  <2>1. marks = {thread[x] : x \in {y \in Calls \ Sync : Live(y)}} /\ marks' = marks \ {thread[c]}
    BY <1>0 DEF VmTypeOK, Unmarked
  <2>2. \A x \in Calls : Live(x) /\ x # c => thread[x] # thread[c]
    BY <1>0 DEF ThreadInv
  <2> QED BY <1>2, <2>1, <2>2
<1>6. VmTypeOK'
  <2>1. thread' \in [Calls -> AllThreads \cup {Nil}] /\ \A x \in Calls : thread'[x] # Nil <=> Live(x)'
    BY <1>0, <1>1, <1>2 DEF VmTypeOK
  <2>2. traces' \in [AllThreads -> (Errors \X Calls) \cup {Nil}]
    BY <1>0 DEF VmTypeOK, Cleared
  <2>3. phase' \in [Calls -> {"new", "body", "unwind", "done"}] /\ error' \in [Calls -> Errors \cup {Nil}]
    BY <1>0, <1>1 DEF VmTypeOK
  <2> QED BY <1>0, <1>5, <2>1, <2>2, <2>3 DEF VmTypeOK, hubVars
<1>7. ErrorInv' /\ NoSpuriousYield'
  BY <1>0, <1>1 DEF ErrorInv, NoSpuriousYield, hubVars, VmTypeOK
<1> QED BY <1>3, <1>4, <1>6, <1>7 DEF VmInv

LEMMA FinishCallKeeps ==
  ASSUME VmInv, FinishCall
  PROVE  VmInv'
<1>0. VmTypeOK /\ TraceInv /\ ErrorInv /\ TraceIsOwn
  BY DEF VmInv
<1>1. /\ running \in Calls /\ Live(running) /\ inner = Nil /\ End(running) /\ running' = Nil /\ current' = Nil
      /\ marks' = Unmarked(running) /\ UNCHANGED <<inner, hubVars>>
      /\ thread[running] \in AllThreads
  BY <1>0 DEF FinishCall, Exit, VmTypeOK
<1> DEFINE entry == traces[thread[running]]
           own == IF OwnEntry(entry, error[running]) THEN entry ELSE Nil
<1>2. CASE phase[running] = "body"
  <2>1. UNCHANGED <<traces, failure>>
    BY <1>2 DEF FinishCall
  <2>2. TraceIsOwn' /\ failure' \in [Calls -> (Errors \X ((Errors \X Calls) \cup {Nil})) \cup {Nil}]
    BY <1>0, <2>1 DEF TraceIsOwn, VmTypeOK
  <2> QED BY <1>1, <2>1, <2>2, EndKeeps
<1>3. CASE phase[running] # "body"
  <2>1. traces' = Cleared(thread[running]) /\ failure' = [failure EXCEPT ![running] = <<error[running], own>>]
    BY <1>3 DEF FinishCall, Key
  <2>2. own # Nil => own = <<error[running], running>>
    <3>1. entry = Nil \/ entry \in Errors \X Calls
      BY <1>0, <1>1 DEF VmTypeOK
    <3>2. entry = Nil \/ entry[2] = running
      BY <1>0, <1>1 DEF TraceInv
    <3> QED BY <3>1, <3>2 DEF OwnEntry
  <2>3. TraceIsOwn'
    <3> HIDE DEF own
    <3> SUFFICES ASSUME NEW x \in Calls, failure'[x] # Nil, failure'[x][2] # Nil
                 PROVE  failure'[x][2] = <<failure'[x][1], x>>
      BY DEF TraceIsOwn
    <3>1. CASE x = running
      BY <1>0, <1>1, <2>1, <2>2, <3>1 DEF VmTypeOK
    <3>2. CASE x # running
      BY <1>0, <1>1, <2>1, <3>2 DEF VmTypeOK, TraceIsOwn
    <3> QED BY <3>1, <3>2
  <2>4. failure' \in [Calls -> (Errors \X ((Errors \X Calls) \cup {Nil})) \cup {Nil}]
    <3>1. error[running] \in Errors
      BY <1>0, <1>1, <1>3 DEF ErrorInv, Live
    <3>2. own \in (Errors \X Calls) \cup {Nil}
      BY <1>0, <1>1 DEF VmTypeOK
    <3> HIDE DEF own
    <3> QED BY <1>0, <2>1, <3>1, <3>2 DEF VmTypeOK
  <2> QED BY <1>1, <2>1, <2>3, <2>4, EndKeeps
<1> QED BY <1>2, <1>3

LEMMA DropCallKeeps ==
  ASSUME VmInv, NEW c \in Calls, DropCall(c)
  PROVE  VmInv'
<1>0. VmTypeOK /\ TraceIsOwn
  BY DEF VmInv
<1>1. TraceIsOwn' /\ failure' \in [Calls -> (Errors \X ((Errors \X Calls) \cup {Nil})) \cup {Nil}]
  BY <1>0 DEF DropCall, TraceIsOwn, VmTypeOK
<1>2. CASE c \in Sync
  <2>1. running = c /\ Live(c) /\ inner = Nil /\ running' = Nil /\ current' = Nil
    BY <1>0, <1>2, ThreadsAssumption DEF DropCall, Exit, VmTypeOK
  <2> QED BY <1>1, <2>1, EndKeeps DEF DropCall
<1>3. CASE c \notin Sync
  <2>1. running = Nil /\ Live(c) /\ running' = Nil /\ current' = Nil /\ inner = Nil
    BY <1>0, <1>3 DEF DropCall, Suspended, VmTypeOK
  <2> QED BY <1>1, <2>1, EndKeeps DEF DropCall
<1> QED BY <1>2, <1>3

LEMMA CancelCallKeeps ==
  ASSUME VmInv, NEW c \in Calls, CancelCall(c)
  PROVE  VmInv'
<1> USE DEF CancelCall, runVars, VmInv
<1>1. \A x \in Calls : (Live(x)' <=> Live(x)) /\ thread'[x] = thread[x]
  BY DEF Live
<1>2. ThreadInv' /\ TraceInv' /\ ErrorInv' /\ TraceIsOwn' /\ NoSpuriousYield'
  BY <1>1 DEF ThreadInv, TraceInv, ErrorInv, TraceIsOwn, NoSpuriousYield
<1>3. VmTypeOK'
  BY <1>1 DEF VmTypeOK
<1> QED BY <1>2, <1>3

(***************************************************************************)
(* The theorems.                                                           *)
(***************************************************************************)
LEMMA VmInductive == VmSpec => []VmInv
<1>1. VmInv /\ [VmNext]_vmVars => VmInv'
  <2> SUFFICES ASSUME VmInv, [VmNext]_vmVars PROVE VmInv'
    OBVIOUS
  <2>1. CASE UNCHANGED vmVars
    <3> USE <2>1 DEF vmVars, runVars, hubVars, VmInv
    <3>1. \A x \in Calls : (Live(x)' <=> Live(x)) /\ thread'[x] = thread[x]
      BY DEF Live
    <3>2. ThreadInv' /\ TraceInv' /\ ErrorInv' /\ TraceIsOwn' /\ NoSpuriousYield'
      BY <3>1 DEF ThreadInv, TraceInv, ErrorInv, TraceIsOwn, NoSpuriousYield
    <3>3. VmTypeOK'
      BY <3>1 DEF VmTypeOK
    <3> QED BY <3>2, <3>3
  <2>2. CASE \E c \in Calls : StartCall(c) \/ Resume(c) \/ DropCall(c) \/ CancelCall(c)
    BY <2>2, StartCallKeeps, ResumeKeeps, DropCallKeeps, CancelCallKeeps
  <2>3. CASE \E inChunk \in Landing : Check(inChunk)
    BY <2>3, CheckKeeps
  <2> QED BY <2>1, <2>2, <2>3, ResumeKeeps, InnerKeeps, RaiseKeeps, FinishCallKeeps DEF VmNext
<1> QED BY <1>1, InitVmInv, PTL DEF VmSpec

\* Every variable keeps its type; the marked threads are the roots in progress (hub.rs ROOTS).
THEOREM VmTypeCorrect == VmSpec => []VmTypeOK
<1>1. VmInv => VmTypeOK
  BY DEF VmInv
<1> QED BY <1>1, VmInductive, PTL

\* A traceback reported with a failure was recorded for that error in that call (protect.rs
\* trace_handler, take_handler).
THEOREM TracesAreOwn == VmSpec => []TraceIsOwn
<1>1. VmInv => TraceIsOwn
  BY DEF VmInv
<1> QED BY <1>1, VmInductive, PTL

\* Preemption never yields a coroutine of the Lua code's own (hub.rs is_root, scope.rs Scoped).
THEOREM OnlyRootsYield == VmSpec => []NoSpuriousYield
<1>1. VmInv => NoSpuriousYield
  BY DEF VmInv
<1> QED BY <1>1, VmInductive, PTL


(***************************************************************************)
(* HostChan.                                                               *)
(***************************************************************************)
USE CapAssumption, RequestsAssumption, SendersAssumption, NestedAssumption, NoneAssumption
USE DEF Answers, VmIdle, EndCall, Goto, HostStep, LuaStep, RequestStep,
        roomVars, hostVars, coreVars, pollVars, replyVars

(***************************************************************************)
(* The inductive strengthening.                                            *)
(***************************************************************************)
\* A host thread in a call has a value of its own, sent from its push on.
SenderInv ==
  /\ \A s \in Senders :
       /\ pc[s] = "idle" => val[s] = None
       /\ pc[s] \in {"waiting", "reserved"} => val[s] \in Values /\ reply[val[s]] = "unsent"
       /\ pc[s] \in {"pushed", "waking"} => (val[s] # None => reply[val[s]] # "unsent")
       /\ pc[s] = "answer" => val[s] \in Requests /\ reply[val[s]] # "unsent"
  /\ \A s, q \in Senders : val[s] = val[q] /\ val[s] # None => s = q

\* A value sent is in one place: the queue, the front buffer, or taken.
PlaceInv ==
  /\ \A i \in 1..Len(sent) : reply[sent[i]] # "unsent"
  /\ \A i \in 1..Len(queue) : reply[queue[i]] = "queued"
  /\ \A i, j \in 1..Len(queue) : queue[i] = queue[j] => i = j
  /\ Len(buf) <= 1
  /\ \A i \in 1..Len(buf) : reply[buf[i]] = "open"
  /\ \A i \in 1..Len(taken) : /\ reply[taken[i]] \in {"open", "answered", "closed"}
                              /\ \A j \in 1..Len(buf) : taken[i] # buf[j]
  /\ \A i \in 1..Len(converting) : \E j \in 1..Len(taken) : taken[j] = converting[i][1]

\* A poll that looks at the queue found the front buffer empty, and nothing converts.
PollInv == step # None => buf = <<>> /\ converting = <<>>

\* A receiver asleep is registered on both sides; unless its poll is still to look, a value
\* or the end that it must be told of has a wake-up behind it.
Waking == \E s \in Senders : pc[s] = "waking"
AwakeInv ==
  \A r \in waiting \ woken :
    /\ r \in fan /\ r \in coreWakers /\ buf = <<>>
    /\ step # <<r, "pop">> => (rxWaker \/ Waking)
    /\ (step # <<r, "pop">> /\ step # <<r, "again">> /\ ToTell(r)) => OnItsWay(r)

\* What each side of a request was told, by the state of the answer channel.
OutcomeInv ==
  \A v \in Values : outcome[v] = "closed" =>
    closed /\ reply[v] = "unsent" /\ \A s \in Senders : val[s] = v => pc[s] = "waiting"
AnswerAt(v) ==
  /\ reply[v] # "answered" => told[v] = <<>> /\ slot[v] = None
  /\ reply[v] = "unsent" => outcome[v] \in {None, "closed"}
  /\ reply[v] \in {"queued", "open"} => outcome[v] = None
  /\ reply[v] = "closed" => outcome[v] \in {None, "noreply"}
  /\ reply[v] = "answered" =>
       \/ told[v] = <<TRUE>> /\ slot[v] \in Answers /\ outcome[v] \in {None, slot[v]}
       \/ /\ told[v] = <<FALSE>> /\ slot[v] = None /\ outcome[v] = None
          /\ \A s \in Senders : val[s] # v
AnswerInv == \A v \in Requests : AnswerAt(v)

IInv ==
  /\ TypeOK /\ SenderInv /\ PlaceInv /\ PollInv /\ AwakeInv /\ OutcomeInv /\ AnswerInv
  /\ InOrder

(***************************************************************************)
(* The room of the channel.                                                *)
(***************************************************************************)
LEMMA HeldFinite ==
  ASSUME TypeOK
  PROVE  IsFiniteSet(Held) /\ Cardinality(Held) \in Nat /\ Held \subseteq Senders
<1>1. Held \subseteq Senders BY DEF Held, Reserved, Waiting, TypeOK
<1> QED BY <1>1, FS_Subset, FS_CardinalityType

LEMMA FewerHeld ==
  ASSUME TypeOK, Held' \subseteq Held, Len(queue') <= Len(queue), Len(queue') \in Nat
  PROVE  (Len(queue) + Cardinality(Held) <= Cap)'
<1>1. Cardinality(Held') <= Cardinality(Held) /\ Cardinality(Held') \in Nat
  BY HeldFinite, FS_Subset, FS_CardinalityType
<1>2. Len(queue) + Cardinality(Held) <= Cap /\ Len(queue) \in Nat BY LenProperties DEF TypeOK
<1> QED BY <1>1, <1>2, HeldFinite

\* One more has room, that was free.
LEMMA MoreHeld ==
  ASSUME TypeOK, NEW s \in Senders, NEW H, H \subseteq Held, Held' \subseteq H \cup {s}
  PROVE  /\ Cardinality(Held') \in Nat /\ Cardinality(H) \in Nat
         /\ Cardinality(Held') <= Cardinality(H) + 1
<1>1. IsFiniteSet(H) /\ Cardinality(H) \in Nat BY HeldFinite, FS_Subset, FS_CardinalityType
<1>2. /\ IsFiniteSet(H \cup {s}) /\ Cardinality(H \cup {s}) \in Nat
      /\ Cardinality(H \cup {s}) <= Cardinality(H) + 1
  <2>1. CASE s \in H
    <3>1. H \cup {s} = H BY <2>1
    <3> QED BY <1>1, <3>1
  <2>2. CASE s \notin H
    <3>1. IsFiniteSet(H \cup {s}) /\ Cardinality(H \cup {s}) = Cardinality(H) + 1
      BY <1>1, <2>2, FS_AddElement
    <3> QED BY <1>1, <3>1
  <2> QED BY <2>1, <2>2
<1>3. Cardinality(Held') <= Cardinality(H \cup {s}) /\ Cardinality(Held') \in Nat
  BY <1>2, FS_Subset, FS_CardinalityType
<1> QED BY <1>1, <1>2, <1>3

LEMMA PushUsesRoom ==
  ASSUME TypeOK, NEW s \in Senders, NEW v \in Values, pc[s] = "reserved", Goto(s, "pushed"),
         queue' = Append(queue, v), assigned' = assigned
  PROVE  (Len(queue) + Cardinality(Held) <= Cap)'
<1>1. Held' = Held \ {s} /\ s \in Held BY DEF Held, Reserved, Waiting, TypeOK
<1>2. Cardinality(Held') = Cardinality(Held) - 1 /\ Cardinality(Held) \in Nat
  BY <1>1, HeldFinite, FS_RemoveElement
<1>3. Len(queue') = Len(queue) + 1 /\ Len(queue) \in Nat
  BY AppendProperties, LenProperties DEF TypeOK
<1>4. Len(queue) + Cardinality(Held) <= Cap BY DEF TypeOK
<1> QED BY <1>2, <1>3, <1>4

\* The sends that wait are in tokio's queue, or have room, or are to be polled first.
RoomTypes == /\ waiters' \subseteq Waiting' \ assigned' /\ assigned' \subseteq Waiting'
             /\ untold' \subseteq Receivers

\* Room that came free goes to one send at most, of those that wait.
LEMMA GiveTypes ==
  ASSUME NEW W, W \subseteq Senders, NEW left, NEW held, left \subseteq W \ held, held \subseteq W,
         GiveRoom(left, held)
  PROVE  /\ waiters' \subseteq W \ assigned' /\ assigned' \subseteq W
         /\ assigned' = held \/ \E s \in Senders : assigned' = held \cup {s}
<1>1. CASE left = {} BY <1>1 DEF GiveRoom
<1>2. ASSUME NEW s \in left, waiters' = left \ {s}, assigned' = held \cup {s}
      PROVE  /\ waiters' \subseteq W \ assigned' /\ assigned' \subseteq W /\ s \in Senders
  BY <1>2
<1>3. CASE left # {}
  <2>1. PICK s \in left : waiters' = left \ {s} /\ assigned' = held \cup {s}
    BY <1>3 DEF GiveRoom
  <2> QED BY <1>2, <2>1
<1> QED BY <1>1, <1>3

\* A send that lets go of its room leaves it to one other at most.
LEMMA DropTypes ==
  ASSUME TypeOK, NEW s \in Senders, pc[s] # "reserved", DropReserve(s), Goto(s, "idle"),
         queue' = queue
  PROVE  RoomTypes /\ (Len(queue) + Cardinality(Held) <= Cap)'
<1>0. /\ waiters \subseteq Waiting \ assigned /\ assigned \subseteq Waiting
      /\ untold \subseteq Receivers /\ waiting \subseteq Receivers
      /\ Len(queue) \in Nat /\ Len(queue) + Cardinality(Held) <= Cap
  BY LenProperties DEF TypeOK
<1>1. Waiting' = Waiting \ {s} /\ Reserved' = Reserved /\ s \notin Reserved
  BY DEF Waiting, Reserved, TypeOK
<1>2. CASE s \in assigned
  <2>1. GiveRoom(waiters, assigned \ {s}) /\ untold' \in {waiting, untold}
    BY <1>2 DEF DropReserve
  <2>2. Waiting' \subseteq Senders BY <1>1 DEF Waiting
  <2>3. /\ waiters \subseteq Waiting' \ (assigned \ {s}) /\ assigned \ {s} \subseteq Waiting'
    BY <1>0, <1>1, <1>2
  <2> DEFINE held == assigned \ {s}  W == Waiting'
  <2>4. waiters \subseteq W \ held /\ held \subseteq W /\ W \subseteq Senders /\ GiveRoom(waiters, held)
    BY <2>1, <2>2, <2>3
  <2>a. Held \ {s} = Reserved \cup held /\ s \in Held BY <1>1, <1>2 DEF Held
  <2>b. untold' \subseteq Receivers BY <1>0, <2>1
  <2> HIDE DEF held, W
  <2>5. /\ waiters' \subseteq W \ assigned' /\ assigned' \subseteq W
        /\ assigned' = held \/ \E x \in Senders : assigned' = held \cup {x}
    BY <2>4, GiveTypes
  <2>6. PICK x \in Senders : assigned' \subseteq held \cup {x} BY <2>5
  <2>7. Held' \subseteq (Held \ {s}) \cup {x} BY <1>1, <2>6, <2>a DEF Held
  <2>8. Cardinality(Held \ {s}) = Cardinality(Held) - 1 BY <2>a, HeldFinite, FS_RemoveElement
  <2>9. Cardinality(Held') \in Nat /\ Cardinality(Held') <= Cardinality(Held \ {s}) + 1
        /\ Cardinality(Held \ {s}) \in Nat
    BY <2>7, MoreHeld
  <2>10. Cardinality(Held') <= Cardinality(Held) /\ Cardinality(Held) \in Nat
    BY <2>8, <2>9, HeldFinite
  <2> QED BY <1>0, <2>5, <2>b, <2>9, <2>10 DEF RoomTypes, W
<1>3. CASE s \notin assigned
  <2>1. waiters' = waiters \ {s} /\ assigned' = assigned /\ untold' = untold
    BY <1>3 DEF DropReserve
  <2>2. Held' \subseteq Held BY <1>1, <2>1 DEF Held
  <2> QED BY <1>0, <1>1, <1>3, <2>1, <2>2, FewerHeld DEF RoomTypes
<1> QED BY <1>2, <1>3

\* Room that comes free with a value taken goes to one send at most.
VmRoom ==
  \/ UNCHANGED <<queue, waiters, assigned>>
  \/ queue # <<>> /\ queue' = Tail(queue) /\ GiveRoom(waiters, assigned)

LEMMA VmRoomTypes ==
  ASSUME TypeOK, VmRoom, pc' = pc, untold' \subseteq Receivers
  PROVE  RoomTypes /\ (Len(queue) + Cardinality(Held) <= Cap)'
<1>0. /\ waiters \subseteq Waiting \ assigned /\ assigned \subseteq Waiting
      /\ queue \in Seq(Values) /\ Len(queue) \in Nat
      /\ Len(queue) + Cardinality(Held) <= Cap
  BY LenProperties DEF TypeOK
<1>1. Waiting' = Waiting /\ Reserved' = Reserved /\ Waiting \subseteq Senders
  BY DEF Waiting, Reserved
<1>2. CASE UNCHANGED <<queue, waiters, assigned>>
  <2>1. Held' \subseteq Held BY <1>1, <1>2 DEF Held
  <2> QED BY <1>0, <1>1, <1>2, <2>1, FewerHeld DEF RoomTypes
<1>3. CASE queue # <<>> /\ queue' = Tail(queue) /\ GiveRoom(waiters, assigned)
  <2>1. /\ waiters' \subseteq Waiting \ assigned' /\ assigned' \subseteq Waiting
        /\ assigned' = assigned \/ \E s \in Senders : assigned' = assigned \cup {s}
    BY <1>0, <1>1, <1>3, GiveTypes
  <2>2. Len(queue') = Len(queue) - 1 /\ Len(queue') \in Nat
    BY <1>0, <1>3, HeadTailProperties, LenProperties
  <2>3. CASE assigned' = assigned
    <3>1. Held' \subseteq Held BY <1>1, <2>3 DEF Held
    <3> QED BY <1>0, <1>1, <2>1, <2>2, <3>1, FewerHeld DEF RoomTypes
  <2>4. ASSUME NEW s \in Senders, assigned' = assigned \cup {s}
        PROVE  (Len(queue) + Cardinality(Held) <= Cap)'
    <3>1. Held' \subseteq Held \cup {s} BY <1>1, <2>4 DEF Held
    <3>2. Cardinality(Held') \in Nat /\ Cardinality(Held') <= Cardinality(Held) + 1
          /\ Cardinality(Held) \in Nat
      BY <3>1, MoreHeld
    <3> QED BY <1>0, <2>2, <3>2
  <2> QED BY <1>1, <2>1, <2>3, <2>4 DEF RoomTypes
<1> QED BY <1>2, <1>3 DEF VmRoom

(***************************************************************************)
(* What a step of the VM thread does to the values.                        *)
(***************************************************************************)
Stays == UNCHANGED <<queue, buf, taken, reply>>
TakesFront ==
  /\ buf # <<>> /\ taken' = Append(taken, Head(buf)) /\ buf' = Tail(buf)
  /\ UNCHANGED <<queue, reply>>
TakesNext ==
  /\ buf = <<>> /\ queue # <<>> /\ queue' = Tail(queue) /\ buf' = buf
  /\ taken' = Append(taken, Head(queue))
  /\ \E state \in {"open", "closed"} : reply' = [reply EXCEPT ![Head(queue)] = state]
PutsBack ==
  /\ buf = <<>> /\ queue # <<>> /\ queue' = Tail(queue) /\ buf' = <<Head(queue)>>
  /\ taken' = taken /\ reply' = [reply EXCEPT ![Head(queue)] = "open"]
Moves == Stays \/ TakesFront \/ TakesNext \/ PutsBack

LEMMA HeadBack ==
  ASSUME NEW S, NEW q \in Seq(S), q # <<>>
  PROVE  <<Head(q)>> \o Tail(q) = q
<1>1. Head(q) \in S /\ Tail(q) \in Seq(S) /\ Len(Tail(q)) = Len(q) - 1
      /\ \A i \in 1..Len(Tail(q)) : Tail(q)[i] = q[i + 1]
  BY HeadTailProperties
<1>2. <<Head(q)>> \in Seq(S) /\ Len(<<Head(q)>>) = 1 /\ <<Head(q)>>[1] = q[1]
  BY <1>1
<1> DEFINE h == <<Head(q)>>  t == Tail(q)
<1>3. /\ h \o t \in Seq(S) /\ Len(h \o t) = Len(h) + Len(t)
      /\ \A i \in 1..Len(h) + Len(t) : (h \o t)[i] = IF i <= Len(h) THEN h[i] ELSE t[i - Len(h)]
  BY <1>1, <1>2, ConcatProperties
<1>4. Len(q) \in Nat /\ Len(q) # 0 BY LenProperties, EmptySeq
<1>5. ASSUME NEW i \in 1..Len(q) PROVE (h \o t)[i] = q[i]
  <2>1. CASE i = 1 BY <2>1, <1>1, <1>2, <1>3, <1>4
  <2>2. CASE i # 1
    <3>1. i - 1 \in 1..Len(t) /\ i \in 1..Len(h) + Len(t) /\ ~(i <= Len(h)) BY <2>2, <1>1, <1>2, <1>4
    <3>2. (h \o t)[i] = t[i - 1] BY <3>1, <1>2, <1>3
    <3>3. t[i - 1] = q[(i - 1) + 1] BY <3>1, <1>1
    <3> QED BY <3>2, <3>3
  <2> QED BY <2>1, <2>2
<1>6. Len(h \o t) = Len(q) BY <1>1, <1>2, <1>3, <1>4
<1> QED BY <1>3, <1>5, <1>6, SeqEqual

\* A delivery from the queue: taken, or put back to the front that a poll found empty.
LEMMA NextMoves ==
  ASSUME IInv, NEW r \in Receivers, step # None, queue # <<>>, TakeFromQueue(r)
  PROVE  TakesNext \/ PutsBack
<1>1. buf = <<>> BY DEF IInv, PollInv
<1>2. Head(queue) \in Values BY HeadTailProperties DEF IInv, TypeOK
<1>3. <<Head(queue)>> \o buf = <<Head(queue)>> BY <1>1, <1>2, ConcatEmptySeq
<1> QED BY <1>1, <1>3 DEF TakeFromQueue, Deliver, TakesNext, PutsBack

LEMMA FrontMoves ==
  ASSUME IInv, NEW r \in Receivers, BeginPoll(r)
  PROVE  Stays \/ TakesFront
<1>1. CASE BufferFirst
  <2>1. buf \in Seq(Values) /\ buf # <<>> BY <1>1 DEF IInv, TypeOK, BufferFirst
  <2>2. <<Head(buf)>> \o Tail(buf) = buf BY <2>1, HeadBack
  <2> QED BY <1>1, <2>1, <2>2 DEF BeginPoll, Deliver, Stays, TakesFront
<1>2. CASE ~BufferFirst BY <1>2 DEF BeginPoll, Stays
<1> QED BY <1>1, <1>2

ReceiveStep(r) == Receive(r) \/ Poll(r) \/ Pop(r) \/ PopAgain(r) \/ LeaveCall(r)

LEMMA ReceiveMoves ==
  ASSUME IInv, NEW r \in Receivers, ReceiveStep(r)
  PROVE  /\ Moves
         /\ UNCHANGED <<handles, pc, val, closed, collected, slot, converting, outcome, told, sent>>
<1>1. CASE Receive(r) \/ Poll(r) BY <1>1, FrontMoves DEF Receive, Poll, Moves
<1>2. CASE Pop(r) \/ PopAgain(r)
  <2>1. step # None BY <1>2 DEF Pop, PopAgain
  <2> QED BY <1>2, <2>1, NextMoves DEF Pop, PopAgain, ReturnClosed, Moves, Stays
<1>3. CASE LeaveCall(r) BY <1>3 DEF LeaveCall, Moves, Stays
<1> QED BY <1>1, <1>2, <1>3 DEF ReceiveStep

LEMMA ReceiveRoom ==
  ASSUME IInv, NEW r \in Receivers, ReceiveStep(r)
  PROVE  VmRoom /\ untold' \in {untold, untold \ {r}}
<1>1. CASE Receive(r) \/ Poll(r) BY <1>1 DEF Receive, Poll, BeginPoll, VmRoom
<1>2. CASE Pop(r) \/ PopAgain(r)
  BY <1>2 DEF Pop, PopAgain, TakeFromQueue, ReturnClosed, VmRoom
<1>3. CASE LeaveCall(r) BY <1>3 DEF LeaveCall, VmRoom
<1> QED BY <1>1, <1>2, <1>3 DEF ReceiveStep

LEMMA TryMoves ==
  ASSUME IInv, TryReceive
  PROVE  /\ Moves /\ VmRoom /\ untold' = untold
         /\ UNCHANGED <<handles, pc, val, closed, collected, slot, converting, outcome, told, sent>>
         /\ UNCHANGED <<rxWaker, fan, coreWakers, waiting, step, woken>>
BY DEF TryReceive, Moves, TakesFront, TakesNext, VmRoom

\* The move of a value keeps the types of what it touches.
LEMMA MoveTypes ==
  ASSUME IInv, Moves
  PROVE  /\ queue' \in Seq(Values) /\ buf' \in Seq(Values) /\ taken' \in Seq(Values)
         /\ reply' \in [Values -> {"unsent", "queued", "open", "answered", "closed"}]
         /\ Len(queue') \in Nat /\ Len(queue') <= Len(queue)
<1>0. /\ queue \in Seq(Values) /\ buf \in Seq(Values) /\ taken \in Seq(Values)
      /\ reply \in [Values -> {"unsent", "queued", "open", "answered", "closed"}]
  BY DEF IInv, TypeOK
<1>a. Len(queue) \in Nat BY <1>0, LenProperties
<1>1. CASE Stays BY <1>1, <1>0, <1>a DEF Stays
<1>2. CASE TakesFront
  <2>1. Head(buf) \in Values /\ Tail(buf) \in Seq(Values)
    BY <1>0, <1>2, HeadTailProperties DEF TakesFront
  <2>2. Append(taken, Head(buf)) \in Seq(Values) BY <1>0, <2>1, AppendProperties
  <2> QED BY <1>2, <2>1, <2>2, <1>0, <1>a DEF TakesFront
<1>3. CASE TakesNext \/ PutsBack
  <2>1. /\ Head(queue) \in Values /\ Tail(queue) \in Seq(Values)
        /\ Len(Tail(queue)) = Len(queue) - 1 /\ Len(Tail(queue)) \in Nat
    BY <1>0, <1>3, HeadTailProperties, LenProperties DEF TakesNext, PutsBack
  <2>2. Append(taken, Head(queue)) \in Seq(Values) BY <1>0, <2>1, AppendProperties
  <2>3. <<Head(queue)>> \in Seq(Values) BY <2>1
  <2>4. Len(queue') \in Nat /\ Len(queue') <= Len(queue)
    BY <1>3, <2>1, <1>a DEF TakesNext, PutsBack
  <2>5. CASE TakesNext BY <2>5, <2>1, <2>2, <2>4, <1>0 DEF TakesNext
  <2>6. CASE PutsBack BY <2>6, <2>1, <2>3, <2>4, <1>0 DEF PutsBack
  <2> QED BY <1>3, <2>5, <2>6
<1> QED BY <1>1, <1>2, <1>3 DEF Moves

(***************************************************************************)
(* Types.                                                                  *)
(***************************************************************************)
LEMMA HostTypes ==
  ASSUME IInv, NEW s \in Senders
  PROVE  /\ \A v \in Values : Send(s, v) => TypeOK'
         /\ (Reserve(s) \/ Push(s) \/ WakeRx(s) \/ FanWake(s)) => TypeOK'
         /\ (Abandon(s) \/ DropSender(s) \/ GetAnswer(s)) => TypeOK'
<1>0. TypeOK /\ SenderInv BY DEF IInv
<1>a. Len(queue) \in Nat BY <1>0, LenProperties DEF TypeOK
<1>b. ASSUME UNCHANGED <<queue, roomVars>>, Reserved' \subseteq Reserved, Waiting \subseteq Waiting'
      PROVE  RoomTypes /\ (Len(queue) + Cardinality(Held) <= Cap)'
  <2>1. Held' \subseteq Held BY <1>b DEF Held
  <2>2. (Len(queue) + Cardinality(Held) <= Cap)' BY <1>0, <1>a, <1>b, <2>1, FewerHeld
  <2>3. waiters \subseteq Waiting \ assigned /\ assigned \subseteq Waiting /\ untold \subseteq Receivers
    BY <1>0 DEF TypeOK
  <2> QED BY <1>b, <2>2, <2>3 DEF RoomTypes
<1>1. ASSUME NEW v \in Values, Send(s, v) PROVE TypeOK'
  <2>1. RoomTypes /\ (Len(queue) + Cardinality(Held) <= Cap)'
    BY <1>0, <1>1, <1>b DEF Send, Reserved, Waiting, TypeOK
  <2> QED BY <1>0, <1>1, <2>1 DEF TypeOK, RoomTypes, Send
<1>2. ASSUME Reserve(s) PROVE TypeOK'
  <2>0. /\ waiters \subseteq Waiting \ assigned /\ assigned \subseteq Waiting
        /\ untold \subseteq Receivers /\ Len(queue) + Cardinality(Held) <= Cap
    BY <1>0 DEF TypeOK
  <2>1. CASE /\ ~closed /\ (s \in assigned \/ (s \notin waiters /\ Room))
             /\ Goto(s, "reserved") /\ assigned' = assigned \ {s}
             /\ UNCHANGED <<val, outcome, waiters, untold>>
    <3>1. /\ Waiting' = Waiting \ {s} /\ Reserved' = Reserved \cup {s}
          /\ queue' = queue /\ s \notin waiters
      BY <1>0, <1>2, <2>0, <2>1 DEF Reserve, Waiting, Reserved, TypeOK
    <3>2. RoomTypes BY <2>0, <2>1, <3>1 DEF RoomTypes
    <3>3. (Len(queue) + Cardinality(Held) <= Cap)'
      <4>1. CASE s \in assigned
        <5>1. Held' \subseteq Held BY <2>1, <3>1, <4>1 DEF Held
        <5> QED BY <1>0, <1>a, <3>1, <5>1, FewerHeld
      <4>2. CASE Room
        <5>1. Held' \subseteq Held \cup {s} BY <2>1, <3>1 DEF Held
        <5>2. Cardinality(Held') \in Nat /\ Cardinality(Held') <= Cardinality(Held) + 1
              /\ Cardinality(Held) \in Nat
          BY <1>0, <5>1, MoreHeld
        <5> QED BY <1>a, <3>1, <4>2, <5>2 DEF Room
      <4> QED BY <2>1, <4>1, <4>2
    <3> QED BY <1>0, <1>2, <2>1, <3>2, <3>3 DEF TypeOK, RoomTypes, Reserve
  <2>2. CASE /\ ~closed /\ s \notin assigned \cup waiters /\ ~Room
             /\ waiters' = waiters \cup {s} /\ UNCHANGED <<pc, val, outcome, assigned, untold>>
    <3>1. Waiting' = Waiting /\ Reserved' = Reserved /\ s \in Waiting /\ queue' = queue
      BY <1>2, <2>2 DEF Reserve, Waiting, Reserved
    <3>2. RoomTypes BY <2>0, <2>2, <3>1 DEF RoomTypes
    <3>3. Held' \subseteq Held BY <2>2, <3>1 DEF Held
    <3>4. (Len(queue) + Cardinality(Held) <= Cap)' BY <1>0, <1>a, <3>1, <3>3, FewerHeld
    <3> QED BY <1>0, <1>2, <2>2, <3>2, <3>4 DEF TypeOK, RoomTypes, Reserve
  <2>3. CASE /\ closed /\ DropReserve(s) /\ Goto(s, "idle") /\ val' = [val EXCEPT ![s] = None]
             /\ outcome' = [outcome EXCEPT ![val[s]] = "closed"]
    <3>1. RoomTypes /\ (Len(queue) + Cardinality(Held) <= Cap)'
      BY <1>0, <1>2, <2>3, DropTypes DEF Reserve
    <3> QED BY <1>0, <1>2, <2>3, <3>1 DEF TypeOK, RoomTypes, Reserve
  <2> QED BY <1>2, <2>1, <2>2, <2>3 DEF Reserve
<1>3. ASSUME Push(s) PROVE TypeOK'
  <2>1. val[s] \in Values BY <1>0, <1>3 DEF Push, SenderInv
  <2>2. (Len(queue) + Cardinality(Held) <= Cap)'
    BY <1>0, <1>3, <2>1, PushUsesRoom DEF Push
  <2>3. queue' \in Seq(Values) /\ sent' \in Seq(Values)
    BY <1>0, <1>3, <2>1, AppendProperties DEF Push, TypeOK
  <2>4. Waiting' = Waiting BY <1>0, <1>3 DEF Push, Waiting, TypeOK
  <2>5. RoomTypes BY <1>0, <1>3, <2>4 DEF Push, RoomTypes, TypeOK
  <2> QED BY <1>0, <1>3, <2>1, <2>2, <2>3, <2>5 DEF TypeOK, RoomTypes, Push
<1>4. ASSUME WakeRx(s) \/ FanWake(s) PROVE TypeOK'
  <2>1. RoomTypes /\ (Len(queue) + Cardinality(Held) <= Cap)'
    BY <1>0, <1>4, <1>b DEF WakeRx, FanWake, Sent, Reserved, Waiting, TypeOK
  <2>2. /\ pc' \in [Senders -> {"idle", "waiting", "reserved", "pushed", "waking", "answer"}]
        /\ val' \in [Senders -> Values \cup {None}]
        /\ outcome' \in [Values -> Answers \cup {"sent", "noreply", "closed", None}]
    BY <1>0, <1>4 DEF TypeOK, WakeRx, FanWake, Sent
  <2>3. rxWaker' \in BOOLEAN /\ woken' \subseteq waiting /\ fan' \subseteq Receivers
    BY <1>0, <1>4 DEF TypeOK, WakeRx, FanWake
  <2> QED BY <1>0, <1>4, <2>1, <2>2, <2>3 DEF TypeOK, RoomTypes, WakeRx, FanWake
<1>5. ASSUME Abandon(s) PROVE TypeOK'
  <2>1. RoomTypes /\ (Len(queue) + Cardinality(Held) <= Cap)'
    BY <1>0, <1>5, DropTypes DEF Abandon
  <2> QED BY <1>0, <1>5, <2>1 DEF TypeOK, RoomTypes, Abandon
<1>6. ASSUME DropSender(s) PROVE TypeOK'
  <2>1. RoomTypes /\ (Len(queue) + Cardinality(Held) <= Cap)'
    BY <1>0, <1>6, <1>b DEF DropSender, Reserved, Waiting, TypeOK
  <2> QED BY <1>0, <1>6, <2>1 DEF TypeOK, RoomTypes, DropSender
<1>7. ASSUME GetAnswer(s) PROVE TypeOK'
  <2>1. RoomTypes /\ (Len(queue) + Cardinality(Held) <= Cap)'
    BY <1>0, <1>7, <1>b DEF GetAnswer, Reserved, Waiting, TypeOK
  <2>2. val[s] \in Requests BY <1>0, <1>7 DEF GetAnswer, SenderInv
  <2>3. outcome' \in [Values -> Answers \cup {"sent", "noreply", "closed", None}]
    BY <1>0, <1>7, <2>2 DEF GetAnswer, TypeOK
  <2>4. /\ pc' \in [Senders -> {"idle", "waiting", "reserved", "pushed", "waking", "answer"}]
        /\ val' \in [Senders -> Values \cup {None}]
    BY <1>0, <1>7 DEF TypeOK, GetAnswer
  <2> QED BY <1>0, <1>7, <2>1, <2>3, <2>4 DEF TypeOK, RoomTypes, GetAnswer
<1> QED BY <1>1, <1>2, <1>3, <1>4, <1>5, <1>6, <1>7

LEMMA ReceiveTypes ==
  ASSUME IInv, NEW r \in Receivers, ReceiveStep(r)
  PROVE  TypeOK'
<1>0. TypeOK BY DEF IInv
<1>1. /\ Moves
      /\ UNCHANGED <<handles, pc, val, closed, collected, slot, converting, outcome, told, sent>>
  BY ReceiveMoves
<1>2. /\ queue' \in Seq(Values) /\ buf' \in Seq(Values) /\ taken' \in Seq(Values)
      /\ reply' \in [Values -> {"unsent", "queued", "open", "answered", "closed"}]
      /\ Len(queue') \in Nat /\ Len(queue') <= Len(queue)
  BY <1>1, MoveTypes
<1>3. RoomTypes /\ (Len(queue) + Cardinality(Held) <= Cap)'
  <2>1. VmRoom /\ untold' \in {untold, untold \ {r}} BY ReceiveRoom
  <2>2. untold' \subseteq Receivers BY <1>0, <2>1 DEF TypeOK
  <2> QED BY <1>0, <1>1, <2>1, <2>2, VmRoomTypes
<1>4. /\ rxWaker' \in BOOLEAN /\ fan' \subseteq Receivers /\ coreWakers' \subseteq Receivers
      /\ waiting' \subseteq Receivers /\ woken' \subseteq waiting'
      /\ step' \in (waiting' \X {"pop", "again"}) \cup {None}
  <2>1. CASE Receive(r) \/ Poll(r)
    BY <1>0, <2>1 DEF TypeOK, Receive, Poll, BeginPoll, Deliver, WakeForFront, Registered
  <2>2. CASE Pop(r)
    <3>1. r \in waiting BY <1>0, <2>2 DEF TypeOK, Pop
    <3>2. CASE step' = None
      BY <1>0, <2>2, <3>2 DEF TypeOK, Pop, TakeFromQueue, Deliver, WakeForFront, ReturnClosed
    <3>3. CASE rxWaker' = TRUE /\ step' = <<r, "again">> /\ UNCHANGED <<waiting, woken, coreWakers>>
      BY <1>0, <2>2, <3>1, <3>3 DEF TypeOK, Pop
    <3> QED BY <2>2, <3>2, <3>3 DEF Pop, TakeFromQueue, Deliver, ReturnClosed
  <2>3. CASE PopAgain(r)
    BY <1>0, <2>3 DEF TypeOK, PopAgain, TakeFromQueue, Deliver, WakeForFront, ReturnClosed
  <2>4. CASE LeaveCall(r) BY <1>0, <2>4 DEF TypeOK, LeaveCall
  <2> QED BY <2>1, <2>2, <2>3, <2>4 DEF ReceiveStep
<1> QED BY <1>0, <1>1, <1>2, <1>3, <1>4 DEF TypeOK, RoomTypes

LEMMA LuaTypes ==
  ASSUME IInv
  PROVE  (TryReceive \/ CloseChannel \/ Collect) => TypeOK'
<1>0. TypeOK BY DEF IInv
<1>a. Len(queue) \in Nat BY <1>0, LenProperties DEF TypeOK
<1>1. ASSUME TryReceive PROVE TypeOK'
  <2>1. /\ Moves /\ VmRoom /\ untold' = untold
        /\ UNCHANGED <<handles, pc, val, closed, collected, slot, converting, outcome, told, sent>>
        /\ UNCHANGED <<rxWaker, fan, coreWakers, waiting, step, woken>>
    BY <1>1, TryMoves
  <2>2. /\ queue' \in Seq(Values) /\ buf' \in Seq(Values) /\ taken' \in Seq(Values)
        /\ reply' \in [Values -> {"unsent", "queued", "open", "answered", "closed"}]
    BY <2>1, MoveTypes
  <2>3. RoomTypes /\ (Len(queue) + Cardinality(Held) <= Cap)'
    BY <1>0, <2>1, VmRoomTypes DEF TypeOK
  <2> QED BY <1>0, <2>1, <2>2, <2>3 DEF TypeOK, RoomTypes
<1>2. ASSUME CloseChannel \/ Collect PROVE TypeOK'
  <2>1. /\ waiters' = {} /\ UNCHANGED <<pc, assigned, untold>>
        /\ queue' = queue \/ queue' = <<>>
    BY <1>2 DEF CloseChannel, Collect
  <2>2. Held' \subseteq Held /\ Waiting' = Waiting BY <2>1 DEF Held, Reserved, Waiting
  <2>3. Len(queue') \in Nat /\ Len(queue') <= Len(queue) BY <1>a, <2>1
  <2>4. (Len(queue) + Cardinality(Held) <= Cap)' BY <1>0, <2>2, <2>3, FewerHeld
  <2>5. RoomTypes BY <1>0, <2>1, <2>2 DEF RoomTypes, TypeOK
  <2>6. CASE CloseChannel
    BY <1>0, <2>4, <2>5, <2>6 DEF TypeOK, RoomTypes, CloseChannel, CloseWakes
  <2>7. CASE Collect
    <3>1. taken' \in Seq(Values) BY <1>0, <2>7, ConcatProperties DEF Collect, TypeOK
    <3> QED BY <1>0, <2>4, <2>5, <2>7, <3>1 DEF TypeOK, RoomTypes, Collect
  <2> QED BY <1>2, <2>6, <2>7
<1> QED BY <1>1, <1>2

\* The call to end is the innermost one, and the others stay.
LEMMA Innermost ==
  ASSUME TypeOK, converting # <<>>
  PROVE  /\ Front(converting) \in Seq(Requests \X Answers)
         /\ Len(Front(converting)) = Len(converting) - 1 /\ Len(converting) \in Nat
         /\ \A i \in 1..Len(Front(converting)) :
              i \in 1..Len(converting) /\ Front(converting)[i] = converting[i]
         /\ Last(converting)[1] \in Requests /\ Last(converting)[2] \in Answers
         /\ Len(converting) \in 1..Len(converting) /\ Last(converting) = converting[Len(converting)]
<1>1. converting \in Seq(Requests \X Answers) BY DEF TypeOK
<1>2. Len(converting) \in Nat /\ Len(converting) # 0 BY <1>1, EmptySeq
<1>3. \A i \in 1..Len(converting) : converting[i] \in Requests \X Answers
  BY <1>1, ElementOfSeq
<1>4. \A i \in 1..(Len(converting) - 1) : converting[i] \in Requests \X Answers BY <1>2, <1>3
<1>5. Last(converting) \in Requests \X Answers BY <1>2, <1>3 DEF Last
<1>6. /\ Front(converting) \in Seq(Requests \X Answers)
      /\ Len(Front(converting)) =
           IF 1 <= Len(converting) - 1 THEN (Len(converting) - 1) - 1 + 1 ELSE 0
      /\ \A i \in 1..((Len(converting) - 1) - 1 + 1) :
           Front(converting)[i] = converting[1 + i - 1]
  BY <1>2, <1>4, SubSeqProperties DEF Front
<1>7. Len(Front(converting)) = Len(converting) - 1
  <2>1. (1 <= Len(converting) - 1) \/ Len(converting) = 1 BY <1>2
  <2> QED BY <1>2, <1>6, <2>1
<1>8. ASSUME NEW i \in 1..Len(Front(converting))
      PROVE  i \in 1..Len(converting) /\ Front(converting)[i] = converting[i]
  <2>1. i \in 1..((Len(converting) - 1) - 1 + 1) /\ 1 + i - 1 = i BY <1>2, <1>7
  <2> QED BY <1>2, <1>6, <2>1
<1>9. Last(converting)[1] \in Requests /\ Last(converting)[2] \in Answers BY <1>5
<1> QED BY <1>2, <1>6, <1>7, <1>8, <1>9 DEF Last

LEMMA AnswerTypes ==
  ASSUME IInv
  PROVE  /\ \A v \in Requests, a \in Answers : BeginAnswer(v, a) => TypeOK'
         /\ \A v \in Requests : DropRequest(v) => TypeOK'
         /\ EndAnswer => TypeOK'
<1>0. TypeOK BY DEF IInv
<1>a. ASSUME RequestStep PROVE RoomTypes /\ (Len(queue) + Cardinality(Held) <= Cap)'
  <2>1. VmRoom BY <1>a DEF VmRoom
  <2>2. pc' = pc /\ untold' \subseteq Receivers BY <1>0, <1>a DEF TypeOK
  <2> QED BY <1>0, <2>1, <2>2, VmRoomTypes
<1>1. ASSUME NEW v \in Requests, NEW a \in Answers, BeginAnswer(v, a) PROVE TypeOK'
  <2>1. converting' \in Seq(Requests \X Answers) /\ Len(converting') <= MaxNested
    BY <1>0, <1>1, AppendProperties, LenProperties DEF BeginAnswer, TypeOK
  <2> QED BY <1>0, <1>1, <1>a, <2>1 DEF TypeOK, RoomTypes, BeginAnswer
<1>2. ASSUME NEW v \in Requests, DropRequest(v) PROVE TypeOK'
  BY <1>0, <1>2, <1>a DEF TypeOK, RoomTypes, DropRequest
<1>3. ASSUME EndAnswer PROVE TypeOK'
  <2> DEFINE v == Last(converting)[1]  a == Last(converting)[2]
  <2>1. /\ v \in Requests /\ a \in Answers /\ converting' \in Seq(Requests \X Answers)
        /\ Len(converting') <= MaxNested
    BY <1>0, <1>3, Innermost DEF EndAnswer, TypeOK
  <2>2. reply' \in [Values -> {"unsent", "queued", "open", "answered", "closed"}]
    BY <1>0, <1>3 DEF EndAnswer, TypeOK
  <2>3. Awaited(v) \in BOOLEAN BY DEF Awaited
  <2>4. told[v] \in Seq(BOOLEAN) BY <1>0, <2>1 DEF TypeOK
  <2>5. Append(told[v], Awaited(v)) \in Seq(BOOLEAN) BY <2>3, <2>4, AppendProperties
  <2>6. told' \in [Requests -> Seq(BOOLEAN)]
    <3>1. told \in [Requests -> Seq(BOOLEAN)] BY <1>0 DEF TypeOK
    <3>2. told' = told \/ told' = [told EXCEPT ![v] = Append(@, Awaited(v))]
      BY <1>3 DEF EndAnswer
    <3> HIDE DEF v, a
    <3> QED BY <2>5, <3>1, <3>2
  <2>7. slot' \in [Requests -> Answers \cup {None}]
    <3>1. slot \in [Requests -> Answers \cup {None}] BY <1>0 DEF TypeOK
    <3>2. slot' = slot \/ slot' = [slot EXCEPT ![v] = IF Awaited(v) THEN a ELSE @]
      BY <1>3 DEF EndAnswer
    <3> HIDE DEF v, a
    <3> QED BY <2>1, <3>1, <3>2
  <2> QED BY <1>0, <1>3, <1>a, <2>1, <2>2, <2>6, <2>7 DEF TypeOK, RoomTypes, EndAnswer
<1> QED BY <1>1, <1>2, <1>3

(***************************************************************************)
(* Where the values are.                                                   *)
(***************************************************************************)
\* The value at the head of the queue is nowhere else, and is queued.
LEMMA HeadIsQueued ==
  ASSUME IInv, queue # <<>>
  PROVE  /\ Head(queue) \in Values /\ reply[Head(queue)] = "queued" /\ Head(queue) = queue[1]
         /\ 1 \in 1..Len(queue) /\ Tail(queue) \in Seq(Values)
         /\ Len(Tail(queue)) = Len(queue) - 1 /\ Len(queue) \in Nat
         /\ \A i \in 1..Len(Tail(queue)) : /\ i + 1 \in 1..Len(queue)
                                           /\ Tail(queue)[i] = queue[i + 1]
                                           /\ queue[i + 1] # Head(queue)
<1>1. queue \in Seq(Values) BY DEF IInv, TypeOK
<1>2. /\ Head(queue) \in Values /\ Tail(queue) \in Seq(Values)
      /\ Len(Tail(queue)) = Len(queue) - 1
      /\ \A i \in 1..Len(Tail(queue)) : Tail(queue)[i] = queue[i + 1]
  BY <1>1, HeadTailProperties
<1>3. Len(queue) \in Nat /\ Len(queue) # 0 /\ Head(queue) = queue[1] BY <1>1, EmptySeq
<1>4. 1 \in 1..Len(queue) BY <1>3
<1>5. PlaceInv BY DEF IInv
<1>6. reply[Head(queue)] = "queued" BY <1>3, <1>4, <1>5 DEF PlaceInv
<1>7. ASSUME NEW i \in 1..Len(Tail(queue))
      PROVE  i + 1 \in 1..Len(queue) /\ queue[i + 1] # Head(queue)
  <2>1. i + 1 \in 1..Len(queue) /\ i + 1 # 1 BY <1>2, <1>3
  <2> QED BY <2>1, <1>3, <1>4, <1>5 DEF PlaceInv
<1> QED BY <1>2, <1>3, <1>4, <1>6, <1>7

\* The front buffer holds one value at most.
LEMMA FrontIsOnly ==
  ASSUME IInv, buf # <<>>
  PROVE  /\ Head(buf) \in Values /\ reply[Head(buf)] = "open" /\ Head(buf) = buf[1]
         /\ 1 \in 1..Len(buf) /\ Len(buf) = 1 /\ Tail(buf) = <<>> /\ Len(Tail(buf)) = 0
<1>1. buf \in Seq(Values) BY DEF IInv, TypeOK
<1>2. /\ Head(buf) \in Values /\ Tail(buf) \in Seq(Values) /\ Len(Tail(buf)) = Len(buf) - 1
  BY <1>1, HeadTailProperties
<1>3. Len(buf) \in Nat /\ Len(buf) # 0 /\ Head(buf) = buf[1] BY <1>1, EmptySeq
<1>4. PlaceInv BY DEF IInv
<1>5. Len(buf) = 1 BY SMTT(30), <1>3, <1>4 DEF PlaceInv
<1>6. Tail(buf) = <<>>
  <2>1. Len(Tail(buf)) = 0 BY <1>2, <1>5
  <2> QED BY <1>2, <2>1, EmptySeq
<1> QED BY <1>2, <1>3, <1>4, <1>5, <1>6 DEF PlaceInv

\* Only a push sends.
SentStays == \A v \in Values : reply'[v] = "unsent" <=> reply[v] = "unsent"

LEMMA MovesSendNothing ==
  ASSUME IInv, Moves
  PROVE  SentStays
<1>0. reply \in [Values -> {"unsent", "queued", "open", "answered", "closed"}] BY DEF IInv, TypeOK
<1>1. CASE Stays \/ TakesFront BY <1>1 DEF Stays, TakesFront, SentStays
<1>2. CASE TakesNext
  <2>1. Head(queue) \in Values /\ reply[Head(queue)] = "queued"
    BY <1>2, HeadIsQueued DEF TakesNext
  <2> QED BY <1>0, <1>2, <2>1 DEF TakesNext, SentStays
<1>3. CASE PutsBack
  <2>1. Head(queue) \in Values /\ reply[Head(queue)] = "queued"
    BY <1>3, HeadIsQueued DEF PutsBack
  <2> QED BY <1>0, <1>3, <2>1 DEF PutsBack, SentStays
<1> QED BY <1>1, <1>2, <1>3 DEF Moves

\* What is queued or was put back was sent.
LEMMA CollectedWereSent ==
  ASSUME IInv, NEW v \in Range(queue \o buf)
  PROVE  v \in Values /\ reply[v] \in {"queued", "open"}
<1>1. queue \in Seq(Values) /\ buf \in Seq(Values) /\ PlaceInv BY DEF IInv, TypeOK
<1>2. v \in Range(queue) \cup Range(buf) BY <1>1, RangeConcatenation
<1>3. /\ Range(queue) = {queue[i] : i \in 1..Len(queue)}
      /\ Range(buf) = {buf[i] : i \in 1..Len(buf)}
  BY <1>1, RangeEquality
<1>4. CASE v \in Range(queue)
  <2>1. PICK i \in 1..Len(queue) : v = queue[i] BY <1>3, <1>4
  <2> QED BY <1>1, <2>1, ElementOfSeq DEF PlaceInv
<1>5. CASE v \in Range(buf)
  <2>1. PICK i \in 1..Len(buf) : v = buf[i] BY <1>3, <1>5
  <2> QED BY <1>1, <2>1, ElementOfSeq DEF PlaceInv
<1> QED BY <1>2, <1>4, <1>5

\* The steps of the VM thread.
VmStep ==
  \/ \E r \in Receivers : ReceiveStep(r)
  \/ \E v \in Requests : DropRequest(v) \/ \E a \in Answers : BeginAnswer(v, a)
  \/ TryReceive \/ CloseChannel \/ Collect \/ EndAnswer

LEMMA VmStepsLeaveSenders ==
  ASSUME IInv, VmStep
  PROVE  UNCHANGED <<pc, val, handles, sent, outcome>> /\ SentStays
<1>0. reply \in [Values -> {"unsent", "queued", "open", "answered", "closed"}] BY DEF IInv, TypeOK
<1>1. ASSUME NEW r \in Receivers, ReceiveStep(r)
      PROVE  UNCHANGED <<pc, val, handles, sent, outcome>> /\ SentStays
  BY <1>1, ReceiveMoves, MovesSendNothing
<1>2. ASSUME NEW v \in Requests, DropRequest(v)
      PROVE  UNCHANGED <<pc, val, handles, sent, outcome>> /\ SentStays
  BY <1>0, <1>2 DEF DropRequest, SentStays
<1>3. ASSUME NEW v \in Requests, NEW a \in Answers, BeginAnswer(v, a)
      PROVE  UNCHANGED <<pc, val, handles, sent, outcome>> /\ SentStays
  BY <1>3 DEF BeginAnswer, SentStays
<1>4. CASE TryReceive BY <1>4, TryMoves, MovesSendNothing
<1>5. CASE CloseChannel BY <1>5 DEF CloseChannel, SentStays
<1>6. CASE Collect
  <2>1. ASSUME NEW v \in Values PROVE reply'[v] = "unsent" <=> reply[v] = "unsent"
    <3>1. reply'[v] = IF v \in Range(queue \o buf) THEN "closed" ELSE reply[v]
      BY <1>6 DEF Collect
    <3> QED BY <3>1, CollectedWereSent
  <2> QED BY <1>6, <2>1 DEF Collect, SentStays
<1>7. CASE EndAnswer BY <1>0, <1>7 DEF EndAnswer, Answerable, SentStays
<1> QED BY <1>1, <1>2, <1>3, <1>4, <1>5, <1>6, <1>7 DEF VmStep

LEMMA NextCases ==
  ASSUME [Next]_vars
  PROVE  \/ \E s \in Senders : \/ \E v \in Values : Send(s, v)
                               \/ Reserve(s) \/ Push(s) \/ WakeRx(s) \/ FanWake(s)
                               \/ Abandon(s) \/ DropSender(s) \/ GetAnswer(s)
         \/ VmStep
         \/ UNCHANGED vars
BY DEF Next, VmStep, ReceiveStep

LEMMA SenderKeeps ==
  ASSUME IInv, [Next]_vars
  PROVE  SenderInv'
<1>0. TypeOK /\ SenderInv BY DEF IInv
<1>a. /\ pc \in [Senders -> {"idle", "waiting", "reserved", "pushed", "waking", "answer"}]
      /\ val \in [Senders -> Values \cup {None}]
      /\ reply \in [Values -> {"unsent", "queued", "open", "answered", "closed"}]
  BY <1>0 DEF TypeOK
<1>1. ASSUME NEW s \in Senders, NEW v \in Values, Send(s, v) PROVE SenderInv'
  BY <1>0, <1>a, <1>1 DEF SenderInv, Send
<1>2. ASSUME NEW s \in Senders, Reserve(s) \/ Abandon(s) \/ DropSender(s) \/ GetAnswer(s)
      PROVE  SenderInv'
  BY <1>0, <1>a, <1>2 DEF SenderInv, Reserve, Abandon, DropSender, GetAnswer
<1>3. ASSUME NEW s \in Senders, Push(s) PROVE SenderInv'
  BY <1>0, <1>a, <1>3 DEF SenderInv, Push
<1>4. ASSUME NEW s \in Senders, WakeRx(s) \/ FanWake(s) PROVE SenderInv'
  BY <1>0, <1>a, <1>4 DEF SenderInv, WakeRx, FanWake, Sent
<1>5. CASE VmStep
  BY <1>0, <1>a, <1>5, VmStepsLeaveSenders DEF SenderInv, SentStays
<1>6. CASE UNCHANGED vars BY <1>0, <1>6 DEF SenderInv, vars
<1> QED BY <1>1, <1>2, <1>3, <1>4, <1>5, <1>6, NextCases

\* A value appended, by the position it gets.
LEMMA Appended ==
  ASSUME NEW S, NEW q \in Seq(S), NEW e \in S
  PROVE  /\ Append(q, e) \in Seq(S) /\ Len(Append(q, e)) = Len(q) + 1 /\ Len(q) \in Nat
         /\ \A i \in 1..Len(Append(q, e)) :
              \/ i \in 1..Len(q) /\ Append(q, e)[i] = q[i]
              \/ i = Len(q) + 1 /\ Append(q, e)[i] = e
         /\ \A i \in 1..Len(q) : i \in 1..Len(Append(q, e)) /\ Append(q, e)[i] = q[i]
<1>1. /\ Append(q, e) \in Seq(S) /\ Len(Append(q, e)) = Len(q) + 1
      /\ \A i \in 1..Len(q) : Append(q, e)[i] = q[i]
      /\ Append(q, e)[Len(q) + 1] = e
  BY AppendProperties
<1>2. Len(q) \in Nat BY LenProperties
<1>3. \A i \in 1..(Len(q) + 1) : i \in 1..Len(q) \/ i = Len(q) + 1 BY <1>2
<1>4. \A i \in 1..Len(q) : i \in 1..(Len(q) + 1) BY <1>2
<1> QED BY <1>1, <1>2, <1>3, <1>4

\* Of two sequences joined, each value is of one of them.
OfEither(t, p, q) ==
  \A i \in 1..Len(t) : \/ \E j \in 1..Len(p) : t[i] = p[j]
                       \/ \E j \in 1..Len(q) : t[i] = q[j]

LEMMA Joined ==
  ASSUME NEW S, NEW p \in Seq(S), NEW q \in Seq(S)
  PROVE  /\ p \o q \in Seq(S) /\ OfEither(p \o q, p, q)
         /\ \A j \in 1..Len(p) : \E i \in 1..Len(p \o q) : (p \o q)[i] = p[j]
<1>1. /\ p \o q \in Seq(S) /\ Len(p \o q) = Len(p) + Len(q)
      /\ \A i \in 1..Len(p) + Len(q) : (p \o q)[i] = IF i <= Len(p) THEN p[i] ELSE q[i - Len(p)]
  BY ConcatProperties
<1>2. Len(p) \in Nat /\ Len(q) \in Nat BY LenProperties
<1>3. ASSUME NEW i \in 1..Len(p \o q)
      PROVE  \/ \E j \in 1..Len(p) : (p \o q)[i] = p[j]
             \/ \E j \in 1..Len(q) : (p \o q)[i] = q[j]
  <2>1. CASE i <= Len(p)
    <3>1. i \in 1..Len(p) BY <2>1, <1>1, <1>2
    <3> QED BY <2>1, <3>1, <1>1, <1>2
  <2>2. CASE ~(i <= Len(p))
    <3>1. i - Len(p) \in 1..Len(q) BY <2>2, <1>1, <1>2
    <3> QED BY <2>2, <3>1, <1>1, <1>2
  <2> QED BY <2>1, <2>2
<1>4. OfEither(p \o q, p, q) BY <1>3 DEF OfEither
<1>5. ASSUME NEW j \in 1..Len(p) PROVE \E i \in 1..Len(p \o q) : (p \o q)[i] = p[j]
  <2>1. j \in 1..Len(p \o q) /\ j <= Len(p) BY <1>1, <1>2
  <2> QED BY <2>1, <1>1
<1> QED BY <1>1, <1>4, <1>5

LEMMA PlaceMoves ==
  ASSUME IInv, Moves, UNCHANGED <<sent, converting>>
  PROVE  PlaceInv'
<1>0. TypeOK /\ PlaceInv BY DEF IInv
<1>a. /\ queue \in Seq(Values) /\ buf \in Seq(Values) /\ taken \in Seq(Values)
      /\ sent \in Seq(Values)
      /\ reply \in [Values -> {"unsent", "queued", "open", "answered", "closed"}]
  BY <1>0 DEF TypeOK
<1>b. /\ \A i \in 1..Len(queue) : queue[i] \in Values
      /\ \A i \in 1..Len(buf) : buf[i] \in Values
      /\ \A i \in 1..Len(taken) : taken[i] \in Values
      /\ \A i \in 1..Len(sent) : sent[i] \in Values
  BY <1>a, ElementOfSeq
<1>c. \A i \in 1..Len(sent) : reply'[sent[i]] # "unsent"
  BY <1>0, <1>b, MovesSendNothing DEF PlaceInv, SentStays
<1>1. CASE Stays BY <1>0, <1>1 DEF PlaceInv, Stays
<1>2. CASE TakesFront
  <2> DEFINE v == Head(buf)
  <2>1. /\ v \in Values /\ reply[v] = "open" /\ v = buf[1] /\ 1 \in 1..Len(buf)
        /\ Tail(buf) = <<>> /\ Len(Tail(buf)) = 0
    BY <1>2, FrontIsOnly DEF TakesFront
  <2>2. /\ \A i \in 1..Len(Append(taken, v)) :
             \/ i \in 1..Len(taken) /\ Append(taken, v)[i] = taken[i]
             \/ i = Len(taken) + 1 /\ Append(taken, v)[i] = v
        /\ \A i \in 1..Len(taken) :
             i \in 1..Len(Append(taken, v)) /\ Append(taken, v)[i] = taken[i]
    BY <1>a, <2>1, Appended
  <2> QED BY <1>0, <1>2, <2>1, <2>2 DEF PlaceInv, TakesFront
<1>3. CASE TakesNext \/ PutsBack
  <2> DEFINE v == Head(queue)
  <2>1. /\ v \in Values /\ reply[v] = "queued" /\ queue # <<>>
        /\ Len(Tail(queue)) = Len(queue) - 1 /\ Len(queue) \in Nat
        /\ \A i \in 1..Len(Tail(queue)) : /\ i + 1 \in 1..Len(queue)
                                          /\ Tail(queue)[i] = queue[i + 1]
                                          /\ queue[i + 1] # v
    BY <1>3, HeadIsQueued DEF TakesNext, PutsBack
  <2>2. /\ \A i \in 1..Len(Append(taken, v)) :
             \/ i \in 1..Len(taken) /\ Append(taken, v)[i] = taken[i]
             \/ i = Len(taken) + 1 /\ Append(taken, v)[i] = v
        /\ \A i \in 1..Len(taken) :
             i \in 1..Len(Append(taken, v)) /\ Append(taken, v)[i] = taken[i]
    BY <1>a, <2>1, Appended
  <2>3. queue' = Tail(queue) /\ (\A x \in Values : x # v => reply'[x] = reply[x])
    BY <1>3, <1>a DEF TakesNext, PutsBack
  <2>4. /\ \A i \in 1..Len(queue') : reply'[queue'[i]] = "queued"
        /\ \A i, j \in 1..Len(queue') : queue'[i] = queue'[j] => i = j
    <3>1. ASSUME NEW i \in 1..Len(queue') PROVE reply'[queue'[i]] = "queued"
      BY <1>0, <1>b, <2>1, <2>3 DEF PlaceInv
    <3>2. ASSUME NEW i \in 1..Len(queue'), NEW j \in 1..Len(queue'), queue'[i] = queue'[j]
          PROVE  i = j
      <4>1. i + 1 = j + 1 BY <1>0, <2>1, <2>3, <3>2 DEF PlaceInv
      <4> QED BY <4>1
    <3> QED BY <3>1, <3>2
  <2>5. \A i \in 1..Len(taken) :
          taken[i] # v /\ reply'[taken[i]] \in {"open", "answered", "closed"}
    BY <1>0, <1>b, <2>1, <2>3 DEF PlaceInv
  <2>6. CASE TakesNext
    <3>1. reply'[v] \in {"open", "answered", "closed"} BY <1>a, <2>1, <2>6 DEF TakesNext
    <3>2. buf' = <<>> /\ Len(buf') = 0 /\ taken' = Append(taken, v) BY <2>6 DEF TakesNext
    <3>3. \A i \in 1..Len(taken') : reply'[taken'[i]] \in {"open", "answered", "closed"}
      BY <2>2, <2>5, <3>1, <3>2
    <3>4. \A i \in 1..Len(converting) : \E j \in 1..Len(taken') : taken'[j] = converting[i][1]
      BY <1>0, <2>2, <3>2 DEF PlaceInv
    <3> QED BY <1>c, <2>4, <3>2, <3>3, <3>4 DEF PlaceInv
  <2>7. CASE PutsBack
    <3>1. reply'[v] = "open" BY <1>a, <2>1, <2>7 DEF PutsBack
    <3>2. buf' = <<v>> /\ Len(buf') = 1 /\ buf'[1] = v /\ taken' = taken BY <2>7 DEF PutsBack
    <3>3. \A i \in 1..Len(buf') : buf'[i] = v BY <3>2
    <3> QED BY <1>0, <1>c, <2>4, <2>5, <3>1, <3>2, <3>3 DEF PlaceInv
  <2> QED BY <1>3, <2>6, <2>7
<1> QED BY <1>1, <1>2, <1>3 DEF Moves

LEMMA PlaceCollect ==
  ASSUME IInv, Collect
  PROVE  PlaceInv'
<1>0. TypeOK /\ PlaceInv BY DEF IInv
<1>a. queue \in Seq(Values) /\ buf \in Seq(Values) /\ taken \in Seq(Values) /\ sent \in Seq(Values)
  BY <1>0 DEF TypeOK
<1>b. /\ \A i \in 1..Len(queue) : queue[i] \in Values
      /\ \A i \in 1..Len(buf) : buf[i] \in Values
      /\ \A i \in 1..Len(taken) : taken[i] \in Values
      /\ \A i \in 1..Len(sent) : sent[i] \in Values
  BY <1>a, ElementOfSeq
<1>1. /\ queue' = <<>> /\ buf' = <<>> /\ Len(queue') = 0 /\ Len(buf') = 0
      /\ taken' = (taken \o buf) \o queue /\ sent' = sent /\ converting = <<>>
      /\ converting' = converting /\ Len(converting') = 0
      /\ \A v \in Values : reply'[v] = IF v \in Range(queue \o buf) THEN "closed" ELSE reply[v]
  BY DEF Collect
<1>2. Range(queue \o buf) = {queue[i] : i \in 1..Len(queue)} \cup {buf[i] : i \in 1..Len(buf)}
  BY SMTT(30), <1>a, RangeConcatenation, RangeEquality
<1>3. ASSUME NEW i \in 1..Len(taken') PROVE reply'[taken'[i]] \in {"open", "answered", "closed"}
  <2> DEFINE p == taken \o buf
  <2>1. p \in Seq(Values) BY <1>a, ConcatProperties
  <2>3. OfEither(p, taken, buf) BY <1>a, Joined
  <2>a. taken' = p \o queue BY <1>1
  <2> HIDE DEF p
  <2>b. OfEither(taken', p, queue) BY <1>a, <2>1, <2>a, Joined
  <2>2. \/ \E j \in 1..Len(p) : taken'[i] = p[j]
        \/ \E j \in 1..Len(queue) : taken'[i] = queue[j]
    BY <2>b DEF OfEither
  <2>4. CASE \E j \in 1..Len(taken) : taken'[i] = taken[j]
    BY <1>0, <1>b, <1>1, <2>4 DEF PlaceInv
  <2>5. CASE \E j \in 1..Len(buf) : taken'[i] = buf[j] BY <1>b, <1>1, <1>2, <2>5
  <2>6. CASE \E j \in 1..Len(queue) : taken'[i] = queue[j] BY <1>b, <1>1, <1>2, <2>6
  <2> QED BY <2>2, <2>3, <2>4, <2>5, <2>6 DEF OfEither
<1>4. \A i \in 1..Len(sent') : reply'[sent'[i]] # "unsent"
  BY SMTT(30), <1>0, <1>b, <1>1 DEF PlaceInv
<1> QED BY <1>1, <1>3, <1>4 DEF PlaceInv

LEMMA PlacePush ==
  ASSUME IInv, NEW s \in Senders, Push(s)
  PROVE  PlaceInv'
<1>0. TypeOK /\ SenderInv /\ PlaceInv BY DEF IInv
<1>a. /\ queue \in Seq(Values) /\ buf \in Seq(Values) /\ taken \in Seq(Values)
      /\ sent \in Seq(Values)
      /\ reply \in [Values -> {"unsent", "queued", "open", "answered", "closed"}]
  BY <1>0 DEF TypeOK
<1>b. /\ \A i \in 1..Len(queue) : queue[i] \in Values
      /\ \A i \in 1..Len(buf) : buf[i] \in Values
      /\ \A i \in 1..Len(taken) : taken[i] \in Values
      /\ \A i \in 1..Len(sent) : sent[i] \in Values
  BY <1>a, ElementOfSeq
<1> DEFINE v == val[s]
<1>1. v \in Values /\ reply[v] = "unsent" BY <1>0 DEF Push, SenderInv
<1>2. /\ queue' = Append(queue, v) /\ sent' = Append(sent, v) /\ reply'[v] = "queued"
      /\ \A x \in Values : x # v => reply'[x] = reply[x]
      /\ buf' = buf /\ taken' = taken /\ converting' = converting
  BY <1>a, <1>1 DEF Push
<1>3. /\ \A i \in 1..Len(queue) : queue[i] # v
      /\ \A i \in 1..Len(buf) : buf[i] # v
      /\ \A i \in 1..Len(taken) : taken[i] # v
      /\ \A i \in 1..Len(sent) : sent[i] # v
  <2>1. /\ \A i \in 1..Len(queue) : reply[queue[i]] = "queued"
        /\ \A i \in 1..Len(buf) : reply[buf[i]] = "open"
        /\ \A i \in 1..Len(taken) : reply[taken[i]] \in {"open", "answered", "closed"}
        /\ \A i \in 1..Len(sent) : reply[sent[i]] # "unsent"
    BY <1>0 DEF PlaceInv
  <2> HIDE DEF v
  <2> QED BY <1>1, <2>1
<1>4. /\ \A i \in 1..Len(queue') : \/ i \in 1..Len(queue) /\ queue'[i] = queue[i]
                                   \/ i = Len(queue) + 1 /\ queue'[i] = v
      /\ \A i \in 1..Len(sent') : \/ i \in 1..Len(sent) /\ sent'[i] = sent[i]
                                  \/ i = Len(sent) + 1 /\ sent'[i] = v
  BY <1>a, <1>1, <1>2, Appended
<1>5. \A i \in 1..Len(sent') : reply'[sent'[i]] # "unsent" BY <1>0, <1>b, <1>2, <1>4 DEF PlaceInv
<1>6. ASSUME NEW i \in 1..Len(queue') PROVE reply'[queue'[i]] = "queued"
  <2>1. CASE i \in 1..Len(queue) /\ queue'[i] = queue[i]
    <3>1. queue[i] \in Values /\ queue[i] # v /\ reply[queue[i]] = "queued"
      BY <1>0, <1>b, <1>3, <2>1 DEF PlaceInv
    <3> QED BY <1>2, <2>1, <3>1
  <2>2. CASE queue'[i] = v BY <1>2, <2>2
  <2> QED BY <1>4, <2>1, <2>2
<1>7. \A i, j \in 1..Len(queue') : queue'[i] = queue'[j] => i = j
  BY <1>0, <1>3, <1>4 DEF PlaceInv
<1>8. \A i \in 1..Len(buf) : reply'[buf[i]] = "open" BY <1>0, <1>b, <1>2, <1>3 DEF PlaceInv
<1>9. \A i \in 1..Len(taken) : reply'[taken[i]] \in {"open", "answered", "closed"}
  BY <1>0, <1>b, <1>2, <1>3 DEF PlaceInv
<1>10. /\ Len(buf) <= 1 /\ \A i \in 1..Len(taken) : \A j \in 1..Len(buf) : taken[i] # buf[j]
       /\ \A i \in 1..Len(converting) : \E j \in 1..Len(taken) : taken[j] = converting[i][1]
  BY <1>0 DEF PlaceInv
<1> QED BY <1>2, <1>5, <1>6, <1>7, <1>8, <1>9, <1>10 DEF PlaceInv

\* A request received is taken, and in neither the queue nor the front buffer.
LEMMA ReceivedIsTaken ==
  ASSUME IInv, NEW v, Received(v)
  PROVE  v \in Requests /\ v \in Values /\ \E j \in 1..Len(taken) : taken[j] = v
<1>1. taken \in Seq(Values) BY DEF IInv, TypeOK
<1> QED BY <1>1, RangeEquality DEF Received

LEMMA ReplyOfTaken ==
  ASSUME IInv, NEW v \in Values, NEW state \in {"answered", "closed"},
         \E j \in 1..Len(taken) : taken[j] = v,
         reply' = [reply EXCEPT ![v] = state], UNCHANGED <<queue, buf, sent, taken>>,
         \A i \in 1..Len(converting') : \E j \in 1..Len(taken) : taken[j] = converting'[i][1]
  PROVE  PlaceInv'
<1>0. TypeOK /\ PlaceInv BY DEF IInv
<1>a. /\ queue \in Seq(Values) /\ buf \in Seq(Values) /\ taken \in Seq(Values)
      /\ sent \in Seq(Values)
      /\ reply \in [Values -> {"unsent", "queued", "open", "answered", "closed"}]
  BY <1>0 DEF TypeOK
<1>b. /\ \A i \in 1..Len(queue) : queue[i] \in Values
      /\ \A i \in 1..Len(buf) : buf[i] \in Values
      /\ \A i \in 1..Len(taken) : taken[i] \in Values
      /\ \A i \in 1..Len(sent) : sent[i] \in Values
  BY <1>a, ElementOfSeq
<1>1. reply'[v] = state /\ (\A x \in Values : x # v => reply'[x] = reply[x]) BY <1>a
<1>2. reply[v] \in {"open", "answered", "closed"} /\ \A j \in 1..Len(buf) : buf[j] # v
  BY <1>0 DEF PlaceInv
<1>3. \A i \in 1..Len(queue) : queue[i] # v BY <1>0, <1>2 DEF PlaceInv
<1> QED BY <1>0, <1>b, <1>1, <1>2, <1>3 DEF PlaceInv

LEMMA PlaceKeeps ==
  ASSUME IInv, [Next]_vars
  PROVE  PlaceInv'
<1>0. TypeOK /\ PlaceInv BY DEF IInv
<1>1. CASE UNCHANGED <<sent, queue, buf, taken, reply, converting>> BY <1>0, <1>1 DEF PlaceInv
<1>2. ASSUME NEW s \in Senders,
             \/ \E v \in Values : Send(s, v)
             \/ Reserve(s) \/ WakeRx(s) \/ FanWake(s)
             \/ Abandon(s) \/ DropSender(s) \/ GetAnswer(s)
      PROVE  PlaceInv'
  BY <1>1, <1>2 DEF Send, Reserve, WakeRx, FanWake, Abandon, DropSender, GetAnswer
<1>3. ASSUME NEW r \in Receivers, ReceiveStep(r) PROVE PlaceInv'
  BY <1>3, ReceiveMoves, PlaceMoves
<1>4. CASE TryReceive BY <1>4, TryMoves, PlaceMoves
<1>5. CASE CloseChannel BY <1>1, <1>5 DEF CloseChannel
<1>6. ASSUME NEW v \in Requests, NEW a \in Answers, BeginAnswer(v, a) PROVE PlaceInv'
  <2>1. \E j \in 1..Len(taken) : taken[j] = v BY <1>6, ReceivedIsTaken DEF BeginAnswer
  <2>2. \A i \in 1..Len(converting') : \/ i \in 1..Len(converting) /\ converting'[i] = converting[i]
                                       \/ i = Len(converting) + 1 /\ converting'[i] = <<v, a>>
    <3>1. converting \in Seq(Requests \X Answers) /\ <<v, a>> \in Requests \X Answers
      BY <1>0 DEF TypeOK
    <3> QED BY <1>6, <3>1, Appended DEF BeginAnswer
  <2>3. \A i \in 1..Len(converting') : \E j \in 1..Len(taken) : taken[j] = converting'[i][1]
    <3>1. \A i \in 1..Len(converting) : \E j \in 1..Len(taken) : taken[j] = converting[i][1]
      BY <1>0 DEF PlaceInv
    <3> QED BY <2>1, <2>2, <3>1
  <2> QED BY SMTT(30), <1>0, <1>6, <2>3 DEF PlaceInv, BeginAnswer
<1>7. ASSUME NEW v \in Requests, DropRequest(v) PROVE PlaceInv'
  <2>1. v \in Values /\ \E j \in 1..Len(taken) : taken[j] = v
    BY <1>7, ReceivedIsTaken DEF DropRequest
  <2>2. \A i \in 1..Len(converting') : \E j \in 1..Len(taken) : taken[j] = converting'[i][1]
    BY <1>0, <1>7 DEF PlaceInv, DropRequest
  <2> QED BY <1>7, <2>1, <2>2, ReplyOfTaken DEF DropRequest
<1>8. CASE EndAnswer
  <2> DEFINE v == Last(converting)[1]
  <2>a. /\ converting' = Front(converting) /\ v \in Values
        /\ Len(converting) \in 1..Len(converting) /\ v = converting[Len(converting)][1]
        /\ \A i \in 1..Len(Front(converting)) :
             i \in 1..Len(converting) /\ Front(converting)[i] = converting[i]
    BY <1>0, <1>8, Innermost DEF EndAnswer
  <2>b. \A i \in 1..Len(converting) : \E j \in 1..Len(taken) : taken[j] = converting[i][1]
    BY <1>0 DEF PlaceInv
  <2>1. /\ v \in Values /\ \E j \in 1..Len(taken) : taken[j] = v
        /\ \A i \in 1..Len(converting') : \E j \in 1..Len(taken) : taken[j] = converting'[i][1]
    BY <2>a, <2>b
  <2>2. CASE UNCHANGED reply BY <1>0, <1>8, <2>1, <2>2 DEF EndAnswer, PlaceInv
  <2>3. CASE reply' = [reply EXCEPT ![v] = "answered"]
    BY <1>8, <2>1, <2>3, ReplyOfTaken DEF EndAnswer
  <2> QED BY <1>8, <2>2, <2>3 DEF EndAnswer
<1>9. CASE UNCHANGED vars BY <1>1, <1>9 DEF vars
<1> QED BY <1>2, <1>3, <1>4, <1>5, <1>6, <1>7, <1>8, <1>9, PlacePush, PlaceCollect, NextCases
        DEF VmStep

(***************************************************************************)
(* The order.                                                              *)
(***************************************************************************)
LEMMA HeadMoves ==
  ASSUME NEW S, NEW p \in Seq(S), NEW q \in Seq(S), q # <<>>
  PROVE  /\ Append(p, Head(q)) \o Tail(q) = p \o q
         /\ (p \o <<Head(q)>>) \o Tail(q) = p \o q
<1> DEFINE h == Head(q)  t == Tail(q)
<1>1. h \in S /\ t \in Seq(S) /\ <<h>> \in Seq(S) BY HeadTailProperties
<1>2. <<h>> \o t = q BY HeadBack
<1>3. Append(p, h) = p \o <<h>> BY <1>1, AppendIsConcat
<1> HIDE DEF h, t
<1>4. (p \o <<h>>) \o t = p \o (<<h>> \o t) BY <1>1, ConcatAssociative
<1> QED BY <1>2, <1>3, <1>4 DEF h, t

LEMMA AppendMoves ==
  ASSUME NEW S, NEW p \in Seq(S), NEW q \in Seq(S), NEW v \in S
  PROVE  p \o Append(q, v) = Append(p \o q, v)
<1>1. <<v>> \in Seq(S) /\ p \o q \in Seq(S) BY ConcatProperties
<1>2. Append(q, v) = q \o <<v>> /\ Append(p \o q, v) = (p \o q) \o <<v>>
  BY <1>1, AppendIsConcat
<1>3. (p \o q) \o <<v>> = p \o (q \o <<v>>) BY <1>1, ConcatAssociative
<1> QED BY <1>2, <1>3

LEMMA OrderMoves ==
  ASSUME IInv, Moves, sent' = sent
  PROVE  InOrder'
<1>0. /\ queue \in Seq(Values) /\ buf \in Seq(Values) /\ taken \in Seq(Values)
      /\ (taken \o buf) \o queue = sent
  BY DEF IInv, TypeOK, InOrder
<1>1. CASE Stays BY <1>0, <1>1 DEF Stays, InOrder
<1>2. CASE TakesFront
  <2>1. taken' \o buf' = taken \o buf BY <1>0, <1>2, HeadMoves DEF TakesFront
  <2> QED BY <1>0, <1>2, <2>1 DEF InOrder, TakesFront
<1>3. CASE TakesNext
  <2>1. Append(taken, Head(queue)) \in Seq(Values)
    BY <1>0, <1>3, HeadTailProperties, AppendProperties DEF TakesNext
  <2>2. taken' \o buf' = taken' BY <1>3, <2>1, ConcatEmptySeq DEF TakesNext
  <2>3. taken' \o queue' = taken \o queue BY <1>0, <1>3, HeadMoves DEF TakesNext
  <2>4. taken \o buf = taken BY <1>0, <1>3, ConcatEmptySeq DEF TakesNext
  <2> QED BY <1>0, <2>2, <2>3, <2>4 DEF InOrder
<1>4. CASE PutsBack
  <2>1. (taken' \o buf') \o queue' = taken \o queue BY <1>0, <1>4, HeadMoves DEF PutsBack
  <2>2. taken \o buf = taken BY <1>0, <1>4, ConcatEmptySeq DEF PutsBack
  <2> QED BY <1>0, <2>1, <2>2 DEF InOrder
<1> QED BY <1>1, <1>2, <1>3, <1>4 DEF Moves

LEMMA OrderKeeps ==
  ASSUME IInv, [Next]_vars
  PROVE  InOrder'
<1>0. /\ queue \in Seq(Values) /\ buf \in Seq(Values) /\ taken \in Seq(Values)
      /\ (taken \o buf) \o queue = sent /\ sent \in Seq(Values) /\ SenderInv
  BY DEF IInv, TypeOK, InOrder
<1>1. CASE UNCHANGED <<sent, queue, buf, taken>> BY <1>0, <1>1 DEF InOrder
<1>2. ASSUME NEW s \in Senders,
             \/ \E v \in Values : Send(s, v)
             \/ Reserve(s) \/ WakeRx(s) \/ FanWake(s)
             \/ Abandon(s) \/ DropSender(s) \/ GetAnswer(s)
      PROVE  InOrder'
  BY <1>1, <1>2 DEF Send, Reserve, WakeRx, FanWake, Abandon, DropSender, GetAnswer
<1>3. ASSUME NEW s \in Senders, Push(s) PROVE InOrder'
  <2> DEFINE v == val[s]  p == taken \o buf
  <2>1. v \in Values BY <1>0, <1>3 DEF SenderInv, Push
  <2>2. /\ queue' = Append(queue, v) /\ sent' = Append(sent, v)
        /\ taken' \o buf' = p
    BY <1>3 DEF Push
  <2>3. p \in Seq(Values) /\ p \o queue = sent
    BY <1>0, <2>1, ConcatProperties
  <2> HIDE DEF v, p
  <2>4. p \o Append(queue, v) = Append(p \o queue, v) BY <1>0, <2>1, <2>3, AppendMoves
  <2> QED BY <2>2, <2>3, <2>4 DEF InOrder
<1>4. ASSUME NEW r \in Receivers, ReceiveStep(r) PROVE InOrder'
  BY <1>4, ReceiveMoves, OrderMoves
<1>5. CASE TryReceive BY <1>5, TryMoves, OrderMoves
<1>6. CASE Collect
  <2>1. queue' = <<>> /\ buf' = <<>> /\ sent' = sent /\ taken' = sent BY <1>0, <1>6 DEF Collect
  <2>2. (sent \o <<>>) \o <<>> = sent BY <1>0, ConcatEmptySeq
  <2> QED BY <2>1, <2>2 DEF InOrder
<1>7. CASE CloseChannel \/ EndAnswer BY <1>1, <1>7 DEF CloseChannel, EndAnswer
<1>8. ASSUME NEW v \in Requests, DropRequest(v) \/ \E a \in Answers : BeginAnswer(v, a)
      PROVE  InOrder'
  BY <1>1, <1>8 DEF DropRequest, BeginAnswer
<1>9. CASE UNCHANGED vars BY <1>1, <1>9 DEF vars
<1> QED BY <1>2, <1>3, <1>4, <1>5, <1>6, <1>7, <1>8, <1>9, NextCases DEF VmStep

(***************************************************************************)
(* The receivers.                                                          *)
(***************************************************************************)
LEMMA PollKeeps ==
  ASSUME IInv, [Next]_vars
  PROVE  PollInv'
<1>0. PollInv BY DEF IInv
<1>1. CASE UNCHANGED <<step, buf, converting>> BY <1>0, <1>1 DEF PollInv
<1>2. ASSUME NEW s \in Senders,
             \/ \E v \in Values : Send(s, v)
             \/ Reserve(s) \/ Push(s) \/ WakeRx(s) \/ FanWake(s)
             \/ Abandon(s) \/ DropSender(s) \/ GetAnswer(s)
      PROVE  PollInv'
  BY <1>1, <1>2 DEF Send, Reserve, Push, WakeRx, FanWake, Abandon, DropSender, GetAnswer
<1>3. ASSUME NEW r \in Receivers, ReceiveStep(r) PROVE PollInv'
  <2>1. CASE Receive(r) \/ Poll(r)
    BY <2>1 DEF PollInv, Receive, Poll, BeginPoll, BufferFirst, Deliver
  <2>2. CASE Pop(r)
    BY <1>0, <2>2 DEF PollInv, Pop, TakeFromQueue, Deliver, ReturnClosed
  <2>3. CASE PopAgain(r) \/ LeaveCall(r)
    BY <2>3 DEF PollInv, PopAgain, LeaveCall, TakeFromQueue, Deliver, ReturnClosed
  <2> QED BY <1>3, <2>1, <2>2, <2>3 DEF ReceiveStep
<1>4. CASE TryReceive \/ CloseChannel \/ Collect
  BY <1>4 DEF PollInv, TryReceive, CloseChannel, Collect
<1>5. CASE EndAnswer BY <1>0, <1>5 DEF PollInv, EndAnswer
<1>6. ASSUME NEW v \in Requests, DropRequest(v) \/ \E a \in Answers : BeginAnswer(v, a)
      PROVE  PollInv'
  BY <1>6 DEF PollInv, DropRequest, BeginAnswer
<1>7. CASE UNCHANGED vars BY <1>1, <1>7 DEF vars
<1> QED BY <1>2, <1>3, <1>4, <1>5, <1>6, <1>7, NextCases DEF VmStep

\* A receiver stays as it was, registered on both sides, while its wake-ups stay.
AwakeAt(r) ==
  /\ r \in fan /\ r \in coreWakers /\ buf = <<>>
  /\ step # <<r, "pop">> => (rxWaker \/ Waking)
  /\ (step # <<r, "pop">> /\ step # <<r, "again">> /\ ToTell(r)) => OnItsWay(r)

LEMMA AwakeAtEach == AwakeInv <=> \A r \in waiting \ woken : AwakeAt(r)
BY DEF AwakeInv, AwakeAt

LEMMA HostKeepsAwake ==
  ASSUME IInv, NEW s \in Senders, NEW r \in waiting' \ woken',
         \/ \E v \in Values : Send(s, v)
         \/ Reserve(s) \/ Push(s) \/ WakeRx(s) \/ FanWake(s)
         \/ Abandon(s) \/ DropSender(s) \/ GetAnswer(s)
  PROVE  AwakeAt(r)'
<1>0. pc \in [Senders -> {"idle", "waiting", "reserved", "pushed", "waking", "answer"}]
  BY DEF IInv, TypeOK
<1>1. r \in waiting \ woken BY DEF Send, Reserve, Push, WakeRx, FanWake, Abandon, DropSender, GetAnswer
<1>2. AwakeAt(r) BY <1>1, AwakeAtEach DEF IInv
<1>3. CASE \/ \E v \in Values : Send(s, v)
           \/ Reserve(s) \/ Abandon(s) \/ GetAnswer(s)
  <2>1. /\ UNCHANGED <<fan, coreWakers, buf, step, rxWaker, queue, handles, closed>>
        /\ pc[s] \in {"idle", "waiting", "answer"} /\ pc'[s] \in {"idle", "waiting", "reserved"}
        /\ \A q \in Senders : q # s => pc'[q] = pc[q]
    BY <1>0, <1>3 DEF Send, Reserve, Abandon, GetAnswer
  <2>2. Reserved \subseteq Reserved' BY <2>1 DEF Reserved
  <2>3. Waking => Waking' BY <2>1 DEF Waking
  <2>4. OnItsWay(r) => OnItsWay(r)' BY <2>1 DEF OnItsWay
  <2>5. Drained' /\ r \notin untold' => Drained /\ r \notin untold
    <3>1. CASE UNCHANGED <<assigned, untold>> BY <2>1, <2>2, <3>1 DEF Drained, Held
    <3>2. CASE ~closed BY <2>1, <3>2 DEF Drained
    <3>3. CASE closed /\ DropReserve(s) /\ s \in assigned BY <1>1, <3>3 DEF DropReserve
    <3> QED BY <1>3, <3>1, <3>2, <3>3 DEF Send, Reserve, Abandon, GetAnswer, DropReserve
  <2> QED BY <1>2, <2>1, <2>3, <2>4, <2>5 DEF AwakeAt, ToTell
<1>4. CASE Push(s)
  <2>1. /\ UNCHANGED <<fan, coreWakers, buf, step, rxWaker>>
        /\ pc[s] = "reserved" /\ pc'[s] = "pushed"
        /\ \A q \in Senders : q # s => pc'[q] = pc[q]
    BY <1>0, <1>4 DEF Push
  <2>2. Waking => Waking' BY <2>1 DEF Waking
  <2>3. r \in fan /\ (rxWaker \/ Waking) => OnItsWay(r)' BY <2>1 DEF OnItsWay, Waking
  <2> QED BY <1>2, <2>1, <2>2, <2>3 DEF AwakeAt
<1>5. CASE DropSender(s)
  <2>1. /\ UNCHANGED <<fan, coreWakers, buf, step, rxWaker, queue, closed>>
        /\ pc[s] = "idle" /\ handles' = handles \ {s} /\ s \in handles
        /\ \A q \in Senders : q # s => pc'[q] = pc[q]
        /\ pc'[s] = IF handles = {s} THEN "pushed" ELSE "idle"
    BY <1>0, <1>5 DEF DropSender
  <2>2. Waking => Waking' BY <2>1 DEF Waking
  <2>3. OnItsWay(r) => OnItsWay(r)' BY <2>1 DEF OnItsWay
  <2>4. Drained' = Drained /\ untold' = untold
    BY <2>1, <1>5 DEF DropSender, Drained, Held, Reserved
  <2>5. CASE handles = {s}
    <3>1. r \in fan /\ (rxWaker \/ Waking) => OnItsWay(r)' BY <2>1, <2>5 DEF OnItsWay, Waking
    <3> QED BY <1>2, <2>1, <2>2, <3>1 DEF AwakeAt
  <2>6. CASE handles # {s}
    <3>1. ToTell(r)' => ToTell(r) BY <2>1, <2>4, <2>6 DEF ToTell
    <3> QED BY <1>2, <2>1, <2>2, <2>3, <3>1 DEF AwakeAt
  <2> QED BY <2>5, <2>6
<1>6. CASE WakeRx(s)
  <2>1. /\ UNCHANGED <<fan, coreWakers, buf, step, queue, handles, closed>>
        /\ pc[s] = "pushed" /\ rxWaker' = FALSE
        /\ pc'[s] # "reserved" /\ (rxWaker => pc'[s] = "waking")
        /\ \A q \in Senders : q # s => pc'[q] = pc[q]
    BY <1>0, <1>6 DEF WakeRx, Sent
  <2>2. rxWaker \/ Waking => Waking' BY <2>1 DEF Waking
  <2>3. OnItsWay(r) => OnItsWay(r)'
    <3>1. CASE rxWaker BY <2>1, <3>1 DEF OnItsWay
    <3>2. CASE ~rxWaker BY <2>1, <3>2 DEF OnItsWay
    <3> QED BY <3>1, <3>2
  <2>4. Drained' = Drained /\ untold' = untold
    BY <2>1, <1>6 DEF WakeRx, Drained, Held, Reserved
  <2>5. ToTell(r)' => ToTell(r) BY <2>1, <2>4 DEF ToTell
  <2> QED BY <1>2, <2>1, <2>2, <2>3, <2>5 DEF AwakeAt
<1>7. CASE FanWake(s)
  <2>1. r \notin fan BY <1>1, <1>7 DEF FanWake, WokenByFan
  <2> QED BY <1>2, <2>1 DEF AwakeAt
<1> QED BY <1>3, <1>4, <1>5, <1>6, <1>7

\* Another receiver p takes a value, raises or leaves: what is there for r stays on its way.
LEMMA OthersTakes ==
  ASSUME NEW r \in Receivers, AwakeAt(r), step # <<r, "pop">>, step # <<r, "again">>,
         UNCHANGED <<pc, handles, closed, fan, rxWaker, coreWakers, buf>>,
         UNCHANGED <<queue, assigned, untold>> \/ queue # <<>>
  PROVE  AwakeAt(r)'
<1>1. OnItsWay(r)' = OnItsWay(r) /\ Waking' = Waking /\ Reserved' = Reserved
  BY DEF OnItsWay, Waking, Reserved
<1>2. ToTell(r)' => ToTell(r) BY <1>1 DEF ToTell, Drained, Held
<1> QED BY <1>1, <1>2 DEF AwakeAt

LEMMA TakeKeepsAwake ==
  ASSUME IInv, NEW p \in Receivers, NEW r \in waiting' \ woken',
         step = <<p, "pop">> \/ step = <<p, "again">>,
         \/ queue # <<>> /\ TakeFromQueue(p)
         \/ ReturnClosed(p),
         UNCHANGED <<pc, handles, closed, fan, rxWaker>>
  PROVE  AwakeAt(r)'
<1>1. r # p /\ r \in waiting /\ r \in Receivers
  BY DEF TakeFromQueue, Deliver, ReturnClosed, IInv, TypeOK
<1>2. \A q \in waiting \ woken : AwakeAt(q) BY AwakeAtEach DEF IInv
<1>3. CASE coreWakers' = {} /\ woken' = (woken \cup (WakeForFront \cap waiting)) \ {p}
  <2>1. r \notin woken /\ r \notin coreWakers BY <1>1, <1>3 DEF WakeForFront
  <2> QED BY <1>1, <1>2, <2>1 DEF AwakeAt
<1>4. CASE UNCHANGED <<coreWakers, buf>> /\ woken' = woken \ {p}
  <2>1. r \notin woken BY <1>1, <1>4
  <2>2. AwakeAt(r) BY <1>1, <1>2, <2>1
  <2>3. step # <<r, "pop">> /\ step # <<r, "again">> BY <1>1
  <2>4. UNCHANGED <<queue, assigned, untold>> \/ queue # <<>> BY DEF TakeFromQueue, ReturnClosed
  <2> QED BY <1>1, <1>4, <2>2, <2>3, <2>4, OthersTakes
<1> QED BY <1>3, <1>4 DEF TakeFromQueue, Deliver, ReturnClosed

LEMMA ReceiveKeepsAwake ==
  ASSUME IInv, NEW p \in Receivers, ReceiveStep(p), NEW r \in waiting' \ woken'
  PROVE  AwakeAt(r)'
<1>0. /\ waiting \subseteq Receivers /\ \A q \in waiting \ woken : AwakeAt(q)
  BY AwakeAtEach DEF IInv, TypeOK
<1>a. UNCHANGED <<pc, handles, closed>> BY ReceiveMoves
<1>b. Waking' = Waking /\ Reserved' = Reserved BY <1>a DEF Waking, Reserved
<1>1. CASE BeginPoll(p) /\ VmIdle
  <2>1. CASE BufferFirst /\ Deliver(p, Head(buf), Tail(buf))
    <3>1. r # p /\ r \in waiting BY <2>1 DEF Deliver
    <3>2. r \in woken \/ (r \in coreWakers /\ buf = <<>>) BY <1>0, <3>1 DEF AwakeAt
    <3> QED BY <2>1, <3>1, <3>2 DEF Deliver, WakeForFront, BufferFirst
  <2>2. CASE /\ ~BufferFirst /\ waiting' = waiting \cup {p} /\ step' = <<p, "pop">>
             /\ coreWakers' = coreWakers \cup {p} /\ fan' = Registered(p)
             /\ woken' = woken \ {p} /\ UNCHANGED <<queue, rxWaker, roomVars, buf, reply, taken>>
    <3>1. CASE r = p BY <2>2, <3>1 DEF AwakeAt, BufferFirst, Registered
    <3>2. CASE r # p
      <4>1. r \in waiting \ woken /\ AwakeAt(r) /\ r \in Receivers BY <1>0, <2>2, <3>2
      <4>2. step # <<r, "pop">> /\ step # <<r, "again">> BY <1>1, <4>1
      <4>3. ToTell(r)' = ToTell(r) BY <1>a, <1>b, <2>2 DEF ToTell, Drained, Held
      <4>4. OnItsWay(r) => OnItsWay(r)' BY <1>a, <2>2 DEF OnItsWay, Registered
      <4> QED BY <1>b, <2>2, <4>1, <4>2, <4>3, <4>4 DEF AwakeAt, Registered
    <3> QED BY <3>1, <3>2
  <2> QED BY <1>1, <2>1, <2>2 DEF BeginPoll
<1>2. CASE Pop(p)
  <2>1. CASE (queue # <<>> /\ TakeFromQueue(p) /\ UNCHANGED rxWaker)
             \/ (ReturnClosed(p) /\ UNCHANGED rxWaker)
    BY <1>2, <1>a, <2>1, TakeKeepsAwake DEF Pop
  <2>2. CASE /\ queue = <<>> /\ handles # {} /\ rxWaker' = TRUE /\ step' = <<p, "again">>
             /\ UNCHANGED <<waiting, woken, queue, roomVars, buf, coreWakers, reply, taken>>
    <3>1. r \in waiting \ woken /\ AwakeAt(r) /\ fan' = fan BY <1>0, <1>2, <2>2 DEF Pop
    <3>2. CASE r = p BY <2>2, <3>1, <3>2 DEF AwakeAt
    <3>3. CASE r # p
      <4>1. step # <<r, "pop">> /\ step # <<r, "again">> BY <1>2, <3>3 DEF Pop
      <4>2. ToTell(r)' = ToTell(r) BY <1>a, <1>b, <2>2 DEF ToTell, Drained, Held
      <4>3. OnItsWay(r) => OnItsWay(r)' BY <1>a, <2>2, <3>1 DEF OnItsWay
      <4> QED BY <2>2, <3>1, <4>1, <4>2, <4>3 DEF AwakeAt
    <3> QED BY <3>2, <3>3
  <2> QED BY <1>2, <2>1, <2>2 DEF Pop
<1>3. CASE PopAgain(p)
  <2>1. CASE (queue # <<>> /\ TakeFromQueue(p)) \/ ReturnClosed(p)
    BY <1>3, <1>a, <2>1, TakeKeepsAwake DEF PopAgain
  <2>2. CASE /\ queue = <<>> /\ handles # {} /\ ~Drained /\ step' = None
             /\ UNCHANGED <<waiting, woken, queue, waiters, assigned, buf, coreWakers, reply, taken>>
    <3>1. /\ r \in waiting \ woken /\ AwakeAt(r) /\ fan' = fan /\ rxWaker' = rxWaker
          /\ step # <<r, "pop">>
      BY <1>0, <1>3, <2>2 DEF PopAgain
    <3>2. ~ToTell(r)' BY <1>a, <1>b, <2>2 DEF ToTell, Drained, Held
    <3> QED BY <1>b, <2>2, <3>1, <3>2 DEF AwakeAt
  <2> QED BY <1>3, <2>1, <2>2 DEF PopAgain
<1>4. CASE LeaveCall(p)
  <2>1. r # p /\ r \in waiting \ woken /\ AwakeAt(r) /\ r \in Receivers
    BY <1>0, <1>4 DEF LeaveCall
  <2>2. step # <<r, "pop">> /\ step # <<r, "again">> BY <1>4, <2>1 DEF LeaveCall
  <2> QED BY <1>4, <1>a, <2>1, <2>2, OthersTakes DEF LeaveCall
<1> QED BY <1>1, <1>2, <1>3, <1>4 DEF ReceiveStep, Receive, Poll

LEMMA AwakeKeeps ==
  ASSUME IInv, [Next]_vars
  PROVE  AwakeInv'
<1>0. /\ waiting \subseteq Receivers /\ \A q \in waiting \ woken : AwakeAt(q)
  BY AwakeAtEach DEF IInv, TypeOK
<1>1. SUFFICES ASSUME NEW r \in waiting' \ woken' PROVE AwakeAt(r)'
  BY DEF AwakeInv, AwakeAt
<1>2. CASE /\ UNCHANGED <<waiting, woken, fan, coreWakers, buf, step, rxWaker, pc, queue>>
           /\ UNCHANGED <<handles, closed, assigned, untold>>
  BY <1>0, <1>2 DEF AwakeAt, Waking, OnItsWay, ToTell, Drained, Held, Reserved
<1>3. CASE TryReceive
  <2>1. /\ UNCHANGED <<rxWaker, fan, coreWakers, waiting, step, woken, pc, handles, closed>>
        /\ r \in waiting \ woken /\ AwakeAt(r) /\ r \in Receivers
    BY <1>0, <1>3, TryMoves
  <2>2. step # <<r, "pop">> /\ step # <<r, "again">> BY <1>3, <2>1 DEF TryReceive
  <2>3. buf = <<>> BY <2>1 DEF AwakeAt
  <2>4. buf' = buf /\ queue # <<>> BY <1>3, <2>3 DEF TryReceive
  <2> QED BY <2>1, <2>2, <2>4, OthersTakes
<1>4. CASE CloseChannel BY <1>0, <1>4 DEF CloseChannel, CloseWakes, AwakeAt
<1>5. CASE Collect BY <1>5 DEF Collect
<1>6. CASE EndAnswer BY <1>2, <1>6 DEF EndAnswer
<1>7. ASSUME NEW v \in Requests, DropRequest(v) \/ \E a \in Answers : BeginAnswer(v, a)
      PROVE  AwakeAt(r)'
  BY <1>2, <1>7 DEF DropRequest, BeginAnswer
<1>8. CASE UNCHANGED vars BY <1>2, <1>8 DEF vars
<1> QED BY <1>3, <1>4, <1>5, <1>6, <1>7, <1>8, HostKeepsAwake, ReceiveKeepsAwake, NextCases
        DEF VmStep

(***************************************************************************)
(* The answers.                                                            *)
(***************************************************************************)
LEMMA ClosedStays ==
  ASSUME IInv, VmStep, closed
  PROVE  closed'
<1>1. ASSUME NEW r \in Receivers, ReceiveStep(r) PROVE closed' BY <1>1, ReceiveMoves
<1>2. CASE TryReceive BY <1>2, TryMoves
<1> QED BY <1>1, <1>2 DEF VmStep, DropRequest, BeginAnswer, CloseChannel, Collect, EndAnswer

LEMMA OutcomeKeeps ==
  ASSUME IInv, [Next]_vars
  PROVE  OutcomeInv'
<1>0. SenderInv /\ OutcomeInv BY DEF IInv
<1>a. /\ pc \in [Senders -> {"idle", "waiting", "reserved", "pushed", "waking", "answer"}]
      /\ val \in [Senders -> Values \cup {None}]
      /\ reply \in [Values -> {"unsent", "queued", "open", "answered", "closed"}]
      /\ slot \in [Requests -> Answers \cup {None}]
      /\ outcome \in [Values -> Answers \cup {"sent", "noreply", "closed", None}]
  BY DEF IInv, TypeOK
<1>1. ASSUME NEW s \in Senders, NEW v \in Values, Send(s, v) PROVE OutcomeInv'
  BY <1>0, <1>a, <1>1 DEF OutcomeInv, Send
<1>2. ASSUME NEW s \in Senders, Reserve(s) PROVE OutcomeInv'
  <2>1. val[s] \in Values /\ reply[val[s]] = "unsent" /\ \A q \in Senders : val[q] = val[s] => q = s
    BY <1>0, <1>2 DEF SenderInv, Reserve
  <2>2. CASE ~closed /\ UNCHANGED <<val, outcome>>
    BY <1>0, <1>2, <2>2 DEF OutcomeInv, Reserve
  <2>3. CASE closed /\ Goto(s, "idle") /\ val' = [val EXCEPT ![s] = None]
             /\ outcome' = [outcome EXCEPT ![val[s]] = "closed"]
    BY <1>0, <1>2, <1>a, <2>1, <2>3 DEF OutcomeInv, Reserve
  <2> QED BY <1>2, <2>2, <2>3 DEF Reserve
<1>3. ASSUME NEW s \in Senders, Push(s) PROVE OutcomeInv'
  BY <1>0, <1>a, <1>3 DEF OutcomeInv, SenderInv, Push
<1>4. ASSUME NEW s \in Senders, WakeRx(s) \/ FanWake(s) PROVE OutcomeInv'
  <2>1. pc[s] # "waiting" /\ reply' = reply /\ closed' = closed
        /\ \A q \in Senders : q # s => pc'[q] = pc[q] /\ val'[q] = val[q]
    BY <1>a, <1>4 DEF WakeRx, FanWake, Sent
  <2>2. val'[s] \in {val[s], None} /\ \A v \in Values : outcome'[v] \in {outcome[v], "sent"}
    BY <1>a, <1>4 DEF WakeRx, FanWake, Sent
  <2> QED BY <1>0, <2>1, <2>2 DEF OutcomeInv
<1>5. ASSUME NEW s \in Senders, Abandon(s) \/ DropSender(s) PROVE OutcomeInv'
  BY <1>0, <1>a, <1>5 DEF OutcomeInv, SenderInv, Abandon, DropSender
<1>6. ASSUME NEW s \in Senders, GetAnswer(s) PROVE OutcomeInv'
  <2>1. val[s] \in Requests BY <1>0, <1>6 DEF SenderInv, GetAnswer
  <2>2. \A v \in Values : outcome'[v] = "closed" => outcome[v] = "closed"
    BY <1>a, <1>6, <2>1 DEF GetAnswer
  <2> QED BY <1>0, <1>a, <1>6, <2>2 DEF OutcomeInv, GetAnswer
<1>7. CASE VmStep
  BY <1>0, <1>7, ClosedStays, VmStepsLeaveSenders DEF OutcomeInv, SentStays
<1>8. CASE UNCHANGED vars BY <1>0, <1>8 DEF OutcomeInv, vars
<1> QED BY <1>1, <1>2, <1>3, <1>4, <1>5, <1>6, <1>7, <1>8, NextCases

\* A request goes on from the queue, or loses its answer channel.
LEMMA RequestGoesOn ==
  ASSUME IInv, UNCHANGED <<told, slot, outcome, val>>,
         \A v \in Requests : \/ reply'[v] = reply[v]
                             \/ reply[v] \in {"queued", "open"} /\ reply'[v] \in {"open", "closed"}
  PROVE  AnswerInv'
<1>1. AnswerInv BY DEF IInv
<1> QED BY <1>1 DEF AnswerInv, AnswerAt

LEMMA MovesKeepAnswers ==
  ASSUME IInv, Moves, UNCHANGED <<told, slot, outcome, val>>
  PROVE  AnswerInv'
<1>0. reply \in [Values -> {"unsent", "queued", "open", "answered", "closed"}] BY DEF IInv, TypeOK
<1>1. CASE Stays \/ TakesFront BY <1>1, RequestGoesOn DEF Stays, TakesFront
<1>2. CASE TakesNext \/ PutsBack
  <2>1. Head(queue) \in Values /\ reply[Head(queue)] = "queued"
    BY <1>2, HeadIsQueued DEF TakesNext, PutsBack
  <2>2. \A v \in Values : \/ reply'[v] = reply[v]
                          \/ reply[v] = "queued" /\ reply'[v] \in {"open", "closed"}
    BY <1>0, <1>2, <2>1 DEF TakesNext, PutsBack
  <2> QED BY <2>2, RequestGoesOn
<1> QED BY <1>1, <1>2 DEF Moves

LEMMA EndAnswerKeeps ==
  ASSUME IInv, EndAnswer
  PROVE  AnswerInv'
<1>0. TypeOK /\ AnswerInv /\ SenderInv BY DEF IInv
<1>a. /\ reply \in [Values -> {"unsent", "queued", "open", "answered", "closed"}]
      /\ slot \in [Requests -> Answers \cup {None}] /\ told \in [Requests -> Seq(BOOLEAN)]
  BY <1>0 DEF TypeOK
<1> DEFINE v == Last(converting)[1]  a == Last(converting)[2]
<1>1. v \in Requests /\ a \in Answers BY <1>0, Innermost DEF EndAnswer
<1> HIDE DEF v, a
<1>2. CASE UNCHANGED <<reply, slot, told>>
  BY <1>2, RequestGoesOn DEF EndAnswer
<1>3. CASE /\ Answerable(v) /\ reply' = [reply EXCEPT ![v] = "answered"]
           /\ told' = [told EXCEPT ![v] = Append(@, Awaited(v))]
           /\ slot' = [slot EXCEPT ![v] = IF Awaited(v) THEN a ELSE @]
  <2>1. reply[v] = "open" /\ told[v] = <<>> /\ slot[v] = None /\ outcome[v] = None
    BY <1>0, <1>1, <1>3 DEF AnswerInv, AnswerAt, Answerable
  <2>2. UNCHANGED <<pc, val, outcome>> BY DEF EndAnswer
  <2>3. \A x \in Requests : x # v => UNCHANGED <<reply[x], told[x], slot[x]>> BY <1>3, <1>a
  <2>4. reply'[v] = "answered" BY <1>1, <1>3, <1>a
  <2>7. ASSUME NEW x \in Requests, x # v PROVE AnswerAt(x)'
    <3>1. AnswerAt(x) BY <1>0 DEF AnswerInv
    <3> QED BY <2>2, <2>3, <2>7, <3>1 DEF AnswerAt
  <2>5. CASE Awaited(v)
    <3>1. told'[v] = <<TRUE>>
      <4>1. Awaited(v) = TRUE BY <2>5 DEF Awaited
      <4>2. told'[v] = Append(<<>>, TRUE) BY <1>1, <1>3, <1>a, <2>1, <4>1
      <4> QED BY <4>2
    <3>2. slot'[v] = a BY <1>1, <1>3, <1>a, <2>5
    <3>3. ASSUME NEW x \in Requests, x = v PROVE AnswerAt(x)'
      BY <1>1, <2>1, <2>2, <2>4, <3>1, <3>2, <3>3 DEF AnswerAt
    <3> QED BY <2>7, <3>3 DEF AnswerInv
  <2>6. CASE ~Awaited(v)
    <3>1. \A s \in Senders : val[s] # v BY <1>0, <1>1, <2>6 DEF Awaited, SenderInv
    <3>2. told'[v] = <<FALSE>>
      <4>1. Awaited(v) = FALSE BY <2>6 DEF Awaited
      <4>2. told'[v] = Append(<<>>, FALSE) BY <1>1, <1>3, <1>a, <2>1, <4>1
      <4> QED BY <4>2
    <3>3. slot'[v] = None BY <1>1, <1>3, <1>a, <2>1, <2>6
    <3>4. ASSUME NEW x \in Requests, x = v PROVE AnswerAt(x)'
      BY <2>1, <2>2, <2>4, <3>1, <3>2, <3>3, <3>4 DEF AnswerAt
    <3> QED BY <2>7, <3>4 DEF AnswerInv
  <2> QED BY <2>5, <2>6
<1> QED BY <1>2, <1>3 DEF EndAnswer, v, a

\* A sender learns what became of its request, and forgets it.
LEMMA SenderLearns ==
  ASSUME IInv, UNCHANGED <<reply, told, slot>>,
         \A q \in Senders : val'[q] \in {val[q], None},
         \A v \in Requests : \/ outcome'[v] = outcome[v]
                             \/ reply[v] = "unsent" /\ outcome'[v] = "closed"
                             \/ reply[v] = "closed" /\ outcome'[v] = "noreply"
                             \/ /\ reply[v] = "answered" /\ told[v] = <<TRUE>>
                                /\ outcome'[v] = slot[v]
  PROVE  AnswerInv'
<1>0. AnswerInv BY DEF IInv
<1>1. ASSUME NEW v \in Requests, reply[v] = "answered"
      PROVE  \/ told[v] = <<TRUE>> /\ slot[v] \in Answers /\ outcome'[v] \in {None, slot[v]}
             \/ /\ told[v] = <<FALSE>> /\ slot[v] = None /\ outcome'[v] = None
                /\ \A s \in Senders : val'[s] # v
  <2>1. CASE told[v] = <<TRUE>> /\ slot[v] \in Answers /\ outcome[v] \in {None, slot[v]}
    BY <1>1, <2>1
  <2>2. CASE /\ told[v] = <<FALSE>> /\ slot[v] = None /\ outcome[v] = None
             /\ \A s \in Senders : val[s] # v
    <3>1. outcome'[v] = None BY <1>1, <2>2
    <3>2. \A s \in Senders : val'[s] # v BY <1>1, <2>2
    <3> QED BY <2>2, <3>1, <3>2
  <2> QED BY <1>0, <1>1, <2>1, <2>2 DEF AnswerInv, AnswerAt
<1>2. ASSUME NEW v \in Requests
      PROVE  /\ reply[v] # "answered" => told[v] = <<>> /\ slot[v] = None
             /\ reply[v] = "unsent" => outcome'[v] \in {None, "closed"}
             /\ reply[v] \in {"queued", "open"} => outcome'[v] = None
             /\ reply[v] = "closed" => outcome'[v] \in {None, "noreply"}
  BY <1>0, <1>2 DEF AnswerInv, AnswerAt
<1> QED BY <1>1, <1>2 DEF AnswerInv, AnswerAt

LEMMA AnswerKeeps ==
  ASSUME IInv, [Next]_vars
  PROVE  AnswerInv'
<1>0. SenderInv /\ OutcomeInv /\ AnswerInv BY DEF IInv
<1>a. /\ pc \in [Senders -> {"idle", "waiting", "reserved", "pushed", "waking", "answer"}]
      /\ val \in [Senders -> Values \cup {None}]
      /\ reply \in [Values -> {"unsent", "queued", "open", "answered", "closed"}]
      /\ slot \in [Requests -> Answers \cup {None}]
      /\ outcome \in [Values -> Answers \cup {"sent", "noreply", "closed", None}]
  BY DEF IInv, TypeOK
<1>1. ASSUME NEW s \in Senders, NEW v \in Values, Send(s, v) PROVE AnswerInv'
  BY <1>0, <1>a, <1>1 DEF AnswerInv, AnswerAt, Send
<1>2. ASSUME NEW s \in Senders, Reserve(s) PROVE AnswerInv'
  <2>1. val[s] \in Values /\ reply[val[s]] = "unsent" BY <1>0, <1>2 DEF SenderInv, Reserve
  <2>2. /\ UNCHANGED <<reply, told, slot>> /\ \A q \in Senders : val'[q] \in {val[q], None}
        /\ \A v \in Values : outcome'[v] = outcome[v] \/ (outcome'[v] = "closed" /\ v = val[s])
    BY <1>2, <1>a DEF Reserve
  <2> QED BY <2>1, <2>2, SenderLearns
<1>3. ASSUME NEW s \in Senders, Push(s) PROVE AnswerInv'
  <2>1. val[s] \in Values /\ reply[val[s]] = "unsent" BY <1>0, <1>3 DEF SenderInv, Push
  <2>2. outcome[val[s]] # "closed" BY <1>0, <1>3, <2>1 DEF OutcomeInv, Push
  <2>3. /\ UNCHANGED <<told, slot, outcome, val>> /\ reply'[val[s]] = "queued"
        /\ \A v \in Values : v # val[s] => reply'[v] = reply[v]
    BY <1>3, <1>a, <2>1 DEF Push
  <2> QED BY <1>0, <2>1, <2>2, <2>3 DEF AnswerInv, AnswerAt
<1>4. ASSUME NEW s \in Senders, WakeRx(s) \/ FanWake(s) PROVE AnswerInv'
  <2>1. /\ UNCHANGED <<reply, told, slot>> /\ \A q \in Senders : val'[q] \in {val[q], None}
        /\ \A v \in Requests : outcome'[v] = outcome[v]
    BY <1>4, <1>a DEF WakeRx, FanWake, Sent
  <2> QED BY <2>1, SenderLearns
<1>5. ASSUME NEW s \in Senders, Abandon(s) \/ DropSender(s) PROVE AnswerInv'
  <2>1. UNCHANGED <<reply, told, slot, outcome>> /\ \A q \in Senders : val'[q] \in {val[q], None}
    BY <1>5, <1>a DEF Abandon, DropSender
  <2> QED BY <2>1, SenderLearns
<1>6. ASSUME NEW s \in Senders, GetAnswer(s) PROVE AnswerInv'
  <2> DEFINE v == val[s]
  <2>1. v \in Requests /\ reply[v] \in {"answered", "closed"} BY <1>0, <1>6 DEF SenderInv, GetAnswer
  <2>2. /\ UNCHANGED <<reply, told, slot>> /\ \A q \in Senders : val'[q] \in {val[q], None}
        /\ outcome'[v] = IF slot[v] # None THEN slot[v] ELSE "noreply"
        /\ \A x \in Requests : x # v => outcome'[x] = outcome[x]
    BY <1>6, <1>a, <2>1 DEF GetAnswer
  <2>3. CASE reply[v] = "answered"
    <3>1. told[v] = <<TRUE>> /\ slot[v] \in Answers BY <1>0, <2>1, <2>3 DEF AnswerInv, AnswerAt
    <3>2. outcome'[v] = slot[v] BY <2>2, <3>1
    <3> QED BY <2>2, <2>3, <3>1, <3>2, SenderLearns
  <2>4. CASE reply[v] = "closed"
    <3>1. slot[v] = None BY <1>0, <2>1, <2>4 DEF AnswerInv, AnswerAt
    <3>2. outcome'[v] = "noreply" BY <2>2, <3>1
    <3> QED BY <2>2, <2>4, <3>2, SenderLearns
  <2> QED BY <2>1, <2>3, <2>4
<1>7. ASSUME NEW r \in Receivers, ReceiveStep(r) PROVE AnswerInv'
  BY <1>7, ReceiveMoves, MovesKeepAnswers
<1>8. CASE TryReceive BY <1>8, TryMoves, MovesKeepAnswers
<1>9. CASE CloseChannel BY <1>9, RequestGoesOn DEF CloseChannel
<1>10. CASE Collect
  <2>1. \A v \in Values : reply'[v] = IF v \in Range(queue \o buf) THEN "closed" ELSE reply[v]
    BY <1>10 DEF Collect
  <2>2. \A v \in Values : v \in Range(queue \o buf) => reply[v] \in {"queued", "open"}
    BY CollectedWereSent
  <2>3. UNCHANGED <<told, slot, outcome, val>> BY <1>10 DEF Collect
  <2> QED BY <2>1, <2>2, <2>3, RequestGoesOn
<1>11. ASSUME NEW v \in Requests, DropRequest(v) \/ \E a \in Answers : BeginAnswer(v, a)
       PROVE  AnswerInv'
  BY <1>11, <1>a, RequestGoesOn DEF DropRequest, BeginAnswer
<1>12. CASE UNCHANGED vars BY <1>12, RequestGoesOn DEF vars
<1> QED BY <1>1, <1>2, <1>3, <1>4, <1>5, <1>6, <1>7, <1>8, <1>9, <1>10, <1>11, <1>12,
           EndAnswerKeeps, NextCases DEF VmStep

(***************************************************************************)
(* The theorems.                                                           *)
(***************************************************************************)
LEMMA InitIInv == ASSUME Init PROVE IInv
<1>1. TypeOK
  <2>1. Held = {} BY DEF Init, Held, Reserved
  <2>2. Cardinality(Held) = 0 BY <2>1, FS_EmptySet
  <2>3. Len(queue) = 0 /\ Len(converting) = 0 BY DEF Init
  <2>4. Len(queue) + Cardinality(Held) <= Cap BY <2>2, <2>3
  <2>5. \A S : <<>> \in Seq(S) OBVIOUS
  <2>6. /\ queue \in Seq(Values) /\ buf \in Seq(Values) /\ sent \in Seq(Values)
        /\ taken \in Seq(Values) /\ converting \in Seq(Requests \X Answers)
        /\ told \in [Requests -> Seq(BOOLEAN)]
    BY <2>5 DEF Init
  <2>7. /\ handles \subseteq Senders /\ rxWaker \in BOOLEAN /\ closed \in BOOLEAN
        /\ collected \in BOOLEAN /\ fan \subseteq Receivers /\ coreWakers \subseteq Receivers
        /\ waiting \subseteq Receivers /\ woken \subseteq waiting
        /\ step \in (waiting \X {"pop", "again"}) \cup {None}
        /\ waiters \subseteq Waiting \ assigned /\ assigned \subseteq Waiting /\ untold \subseteq Receivers
    BY DEF Init
  <2>8. /\ pc \in [Senders -> {"idle", "waiting", "reserved", "pushed", "waking", "answer"}]
        /\ val \in [Senders -> Values \cup {None}]
    BY DEF Init
  <2>9. /\ reply \in [Values -> {"unsent", "queued", "open", "answered", "closed"}]
        /\ slot \in [Requests -> Answers \cup {None}]
        /\ outcome \in [Values -> Answers \cup {"sent", "noreply", "closed", None}]
    BY DEF Init
  <2>10. Len(converting) <= MaxNested BY <2>3
  <2> QED BY <2>4, <2>6, <2>7, <2>8, <2>9, <2>10 DEF TypeOK
<1>2. SenderInv BY DEF Init, SenderInv
<1>3. PlaceInv BY DEF Init, PlaceInv
<1>4. PollInv /\ AwakeInv /\ OutcomeInv /\ AnswerInv
  BY DEF Init, PollInv, AwakeInv, OutcomeInv, AnswerInv, AnswerAt
<1>5. InOrder BY DEF Init, InOrder
<1> QED BY <1>1, <1>2, <1>3, <1>4, <1>5 DEF IInv

LEMMA TypesKeep ==
  ASSUME IInv, [Next]_vars
  PROVE  TypeOK'
<1>1. CASE VmStep BY <1>1, ReceiveTypes, LuaTypes, AnswerTypes DEF VmStep
<1>2. CASE UNCHANGED vars BY <1>2 DEF IInv, TypeOK, vars, Held, Reserved, Waiting
<1> QED BY <1>1, <1>2, HostTypes, NextCases

LEMMA Inductive == Spec => []IInv
<1>1. ASSUME IInv, [Next]_vars PROVE IInv'
  BY <1>1, TypesKeep, SenderKeeps, PlaceKeeps, PollKeeps, AwakeKeeps, OutcomeKeeps, AnswerKeeps,
     OrderKeeps DEF IInv
<1> QED BY <1>1, InitIInv, PTL DEF Spec

\* Every variable keeps its type, and the queue and the room reserved fit the capacity
\* (host_chan.rs, tokio's bounded channel).
THEOREM TypeCorrect == Spec => []TypeOK
BY Inductive, PTL DEF IInv

\* For any senders and receivers: no receiver sleeps beside a value, a value put back or the
\* end of the channel, whoever took the wake-up, but for an end that room given back after
\* Lua's close brings (chan.rs FanOut, HostRx::poll_take, unrecv, close).
THEOREM NoReceiverAsleepAlways == Spec => []NoReceiverAsleep
<1>1. ASSUME IInv PROVE NoReceiverAsleep
  <2>1. SUFFICES ASSUME step = None, NEW r \in waiting \ woken
                 PROVE  buf = <<>> /\ (ToTell(r) => OnItsWay(r))
    BY DEF NoReceiverAsleep
  <2>2. r \in Receivers /\ AwakeInv BY <1>1 DEF IInv, TypeOK
  <2>3. step # <<r, "pop">> /\ step # <<r, "again">> BY <2>1, <2>2
  <2> QED BY <2>2, <2>3 DEF AwakeInv
<1> QED BY <1>1, Inductive, PTL

\* Requests are taken in the order of their sends, each once, also those put back to the
\* front (chan.rs poll_recv, unrecv).
THEOREM InOrderAlways == Spec => []InOrder
BY Inductive, PTL DEF IInv

\* A request is answered at most once, and the requester and Lua agree on the answer
\* (host_chan.rs answer).
THEOREM BothSidesAgreeAlways == Spec => []BothSidesAgree
<1>1. ASSUME IInv PROVE BothSidesAgree
  <2>0. AnswerInv /\ OutcomeInv /\ PlaceInv BY <1>1 DEF IInv
  <2>a. /\ reply \in [Values -> {"unsent", "queued", "open", "answered", "closed"}]
        /\ sent \in Seq(Values)
    BY <1>1 DEF IInv, TypeOK
  <2>1. Len(<<>>) = 0 /\ Len(<<TRUE>>) = 1 /\ Len(<<FALSE>>) = 1
        /\ <<TRUE>> # <<>> /\ <<FALSE>> # <<>> /\ <<TRUE>> # <<FALSE>>
    OBVIOUS
  <2>2. ASSUME NEW v \in Requests
        PROVE  /\ Len(told[v]) <= 1
               /\ outcome[v] \in Answers => told[v] = <<TRUE>> /\ outcome[v] = slot[v]
               /\ outcome[v] = "noreply" => told[v] = <<>>
               /\ told[v] = <<FALSE>> => outcome[v] = None
    <3>1. CASE reply[v] = "answered"
      <4>1. CASE told[v] = <<TRUE>> /\ slot[v] \in Answers /\ outcome[v] \in {None, slot[v]}
        BY <2>1, <4>1
      <4>2. CASE told[v] = <<FALSE>> /\ outcome[v] = None BY <2>1, <4>2
      <4> QED BY <2>0, <3>1, <4>1, <4>2 DEF AnswerInv, AnswerAt
    <3>2. CASE reply[v] # "answered"
      <4>1. told[v] = <<>> BY <2>0, <3>2 DEF AnswerInv, AnswerAt
      <4>2. reply[v] \in {"unsent", "queued", "open", "closed"} BY <2>a, <3>2
      <4>3. outcome[v] \in {None, "closed", "noreply"} BY <2>0, <4>2 DEF AnswerInv, AnswerAt
      <4> QED BY <2>1, <4>1, <4>3
    <3> QED BY <3>1, <3>2
  <2>3. ASSUME NEW v \in Values, outcome[v] = "closed" PROVE v \notin Range(sent)
    <3>1. reply[v] = "unsent" BY <2>0, <2>3 DEF OutcomeInv
    <3>2. \A i \in 1..Len(sent) : sent[i] # v BY <2>0, <3>1 DEF PlaceInv
    <3> QED BY <2>a, <3>2, RangeEquality
  <2> QED BY <2>2, <2>3 DEF BothSidesAgree
<1> QED BY <1>1, Inductive, PTL
=============================================================================
