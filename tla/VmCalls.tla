------------------------------ MODULE VmCalls ------------------------------
(***************************************************************************)
(* Calls of Lua code on one VM (protect.rs, hub.rs dispatch, hook.rs       *)
(* EnterGuard, scope.rs lua_body and Scoped): a sync call runs on the main *)
(* thread of the VM, a coroutine call on a Lua thread that mlua recycles,  *)
(* and coroutine calls interleave where they await or are preempted.       *)
(*                                                                         *)
(* Of a call the model has its cancel checks, the errors that unwind it    *)
(* (and that its __close handlers raise on the way, where they may await), *)
(* the traceback recorded for them, and coroutines that it resumes.        *)
(***************************************************************************)
EXTENDS Naturals

CONSTANTS Calls,       \* the calls, each made once
          Sync,        \* the sync ones
          Polling,     \* those that loop over a ready async host function: each check lands in its chunk
          Main,        \* the main Lua thread
          Threads,     \* the Lua threads that are recycled
          MaxDeferred, \* MAX_DEFERRED
          Nil

ASSUME DeferredAssumption == MaxDeferred \in Nat
AllThreads == Threads \cup {Main}
ASSUME ThreadsAssumption ==
  Sync \cup Polling \subseteq Calls /\ Main \notin Threads /\ Nil \notin AllThreads \cup Calls

VARIABLES
  phase,      \* [Calls -> "new", "body", "unwind" or "done"]
  thread,     \* [Calls -> the Lua thread of a call in progress]
  running,    \* the call that is polled, if any
  current,    \* CURRENT: whose token the checks read
  inner,      \* the coroutine of its own that the running call resumed
  marks,      \* ROOTS
  traces,     \* [threads -> the entry of the traceback table: error, and the call it was raised in]
  error,      \* [Calls -> the error that unwinds it]
  failure,    \* [Calls -> the error it failed with, and the entry that take found for it]
  cancelled,  \* the cancelled tokens
  deferred,   \* Hub::deferred
  raised,     \* the calls in which a cancel was raised
  spurious    \* a coroutine of the Lua code's own was yielded by preemption

runVars == <<phase, thread, running, current>>
hubVars == <<deferred, raised, cancelled, spurious>>
vmVars == <<runVars, inner, marks, traces, error, failure, hubVars>>

\* A memory error has a value that Lua code may raise, too.
Errors == {"cancel", "memory"}
Live(c) == phase[c] \in {"body", "unwind"}
LuaThread == IF inner # Nil THEN inner ELSE thread[running]
Free == Threads \ ({thread[c] : c \in Calls} \cup {inner})

VmTypeOK ==
  /\ phase \in [Calls -> {"new", "body", "unwind", "done"}]
  /\ thread \in [Calls -> AllThreads \cup {Nil}] /\ \A c \in Calls : thread[c] # Nil <=> Live(c)
  /\ running \in {c \in Calls : Live(c)} \cup {Nil} /\ current = running
  /\ inner \in Threads \cup {Nil} /\ (inner # Nil => running # Nil)
  /\ marks = {thread[c] : c \in {x \in Calls \ Sync : Live(x)}}
  /\ traces \in [AllThreads -> (Errors \X Calls) \cup {Nil}]
  /\ error \in [Calls -> Errors \cup {Nil}]
  /\ failure \in [Calls -> (Errors \X ((Errors \X Calls) \cup {Nil})) \cup {Nil}]
  /\ cancelled \subseteq Calls /\ raised \subseteq cancelled
  /\ deferred \in 0..MaxDeferred /\ spurious \in BOOLEAN

VmInit ==
  /\ phase = [c \in Calls |-> "new"] /\ thread = [c \in Calls |-> Nil]
  /\ running = Nil /\ current = Nil /\ inner = Nil /\ marks = {}
  /\ traces = [t \in AllThreads |-> Nil] /\ error = [c \in Calls |-> Nil]
  /\ failure = [c \in Calls |-> Nil] /\ cancelled = {} /\ deferred = 0
  /\ raised = {} /\ spurious = FALSE

(***************************************************************************)
(* Polls.                                                                  *)
(***************************************************************************)
\* EnterGuard: the call's token is current while it is polled.
Enter(c) == running' = c /\ current' = c
Exit == running' = Nil /\ current' = Nil

\* take(): the entry of the thread is cleared.
Cleared(t) == [traces EXCEPT ![t] = Nil]

\* protect::call, or the first poll of a root, which marks its thread.
StartCall(c) ==
  /\ running = Nil /\ phase[c] = "new" /\ phase' = [phase EXCEPT ![c] = "body"] /\ Enter(c)
  /\ \E t \in IF c \in Sync THEN {Main} ELSE Free :
       /\ thread' = [thread EXCEPT ![c] = t] /\ traces' = Cleared(t)
       /\ marks' = IF c \in Sync THEN marks ELSE marks \cup {t}
  /\ UNCHANGED <<inner, error, failure, hubVars>>

Suspended(c) == running # c /\ Live(c)

Resume(c) ==
  /\ running = Nil /\ Suspended(c) /\ Enter(c)
  /\ UNCHANGED <<phase, thread, inner, marks, traces, error, failure, hubVars>>

\* An async host function of the call waits.
Await ==
  /\ running \in Calls \ Sync /\ inner = Nil /\ Exit
  /\ UNCHANGED <<phase, thread, inner, marks, traces, error, failure, hubVars>>

IsRoot == LuaThread \in marks

\* A cancel check with preemption yields the thread that runs: a root waits, a coroutine of
\* the Lua code's own would return to its resume.
Preempt ==
  /\ running # Nil /\ IsRoot
  /\ IF inner = Nil THEN Exit /\ UNCHANGED <<inner, spurious>>
     ELSE spurious' = TRUE /\ inner' = Nil /\ UNCHANGED <<running, current>>
  /\ UNCHANGED <<phase, thread, marks, traces, error, failure, deferred, raised, cancelled>>

\* The Lua code resumes a coroutine of its own, on a thread free for it, until it returns.
ResumeInner ==
  /\ running # Nil /\ inner = Nil
  /\ \E t \in Free : inner' = t /\ traces' = Cleared(t)
  /\ UNCHANGED <<runVars, marks, error, failure, hubVars>>

LeaveInner ==
  /\ inner # Nil /\ inner' = Nil
  /\ UNCHANGED <<runVars, marks, traces, error, failure, hubVars>>

(***************************************************************************)
(* Errors.                                                                 *)
(***************************************************************************)
\* The error e unwinds the call, and its __close handlers run.
Unwind(e) ==
  /\ phase' = [phase EXCEPT ![running] = "unwind"] /\ error' = [error EXCEPT ![running] = e]
  /\ inner' = Nil /\ UNCHANGED <<thread, running, current, marks, failure>>

\* The thread that runs, which is the key of the entry.
Key == thread[running]

\* trace_handler records the error and its traceback.
Record(e) == traces' = [traces EXCEPT ![Key] = <<e, running>>]

\* The Lua code raises, also in a __close handler.  An error that it catches changes nothing.
Raise ==
  /\ running # Nil /\ inner = Nil
  /\ Unwind("memory") /\ Record("memory") /\ UNCHANGED hubVars

\* A memory error: the handler does not run.
RaiseMemory ==
  /\ running # Nil /\ inner = Nil
  /\ Unwind("memory") /\ UNCHANGED <<traces, hubVars>>

\* mutant: a check in the poll chunk never raises
DefersAlways(inChunk) == inChunk
Defers(inChunk) == inChunk /\ deferred < MaxDeferred

\* Where a check of the running call may land.
Landing == IF running \in Polling THEN {TRUE} ELSE BOOLEAN

\* A cancel check finds the token cancelled: one that lands in mlua's poll chunk is deferred,
\* up to MAX_DEFERRED on the VM; the cancel raised ends the coroutine that the call resumed,
\* and unwinds the call, unless its code catches it.
Check(inChunk) ==
  /\ running # Nil /\ current \in cancelled /\ UNCHANGED <<cancelled, spurious>>
  /\ \/ /\ Defers(inChunk) /\ deferred' = IF deferred < MaxDeferred THEN deferred + 1 ELSE deferred
        /\ UNCHANGED <<runVars, inner, marks, traces, error, failure, raised>>
     \/ /\ ~Defers(inChunk) /\ deferred' = 0 /\ raised' = raised \cup {running}
        /\ \/ Unwind("cancel") /\ Record("cancel")
           \/ inner' = Nil /\ UNCHANGED <<runVars, marks, traces, error, failure>>

\* mutant: the stored error is not compared
AnyEntry(entry, e) == entry # Nil
\* take_handler: the entry counts for the error it was recorded for.
OwnEntry(entry, e) == entry # Nil /\ entry[1] = e

End(c) ==
  /\ phase' = [phase EXCEPT ![c] = "done"] /\ thread' = [thread EXCEPT ![c] = Nil]
  /\ error' = [error EXCEPT ![c] = Nil]

\* mutant: the mark outlives the call
MarkKept(c) == marks
Unmarked(c) == marks \ {thread[c]}

\* The call returns, or fails with what take finds.
FinishCall ==
  /\ running # Nil /\ inner = Nil /\ End(running) /\ Exit /\ marks' = Unmarked(running)
  /\ LET entry == traces[Key] IN
       IF phase[running] = "body" THEN UNCHANGED <<traces, failure>>
       ELSE /\ traces' = Cleared(Key)
            /\ failure' = [failure EXCEPT ![running] =
                 <<error[running], IF OwnEntry(entry, error[running]) THEN entry ELSE Nil>>]
  /\ UNCHANGED <<inner, hubVars>>

\* The call of xpcall itself fails, or the future of a coroutine call is dropped: the entry stays.
DropCall(c) ==
  /\ IF c \in Sync THEN running = c /\ inner = Nil /\ Exit
     ELSE running = Nil /\ Suspended(c) /\ UNCHANGED <<running, current>>
  /\ End(c) /\ marks' = Unmarked(c)
  /\ UNCHANGED <<inner, traces, failure, hubVars>>

CancelCall(c) ==
  /\ phase[c] # "done" /\ c \notin cancelled /\ cancelled' = cancelled \cup {c}
  /\ UNCHANGED <<runVars, inner, marks, traces, error, failure, deferred, raised, spurious>>

VmNext ==
  \/ \E c \in Calls : StartCall(c) \/ Resume(c) \/ DropCall(c) \/ CancelCall(c)
  \/ Await \/ Preempt \/ ResumeInner \/ LeaveInner \/ Raise \/ RaiseMemory \/ FinishCall
  \/ \E inChunk \in Landing : Check(inChunk)

VmSpec == VmInit /\ [][VmNext]_vmVars

\* Lua code that goes on reaches its checks, in the poll chunk or elsewhere.
VmFairSpec == VmSpec /\ WF_vmVars(\E inChunk \in Landing : Check(inChunk))

(***************************************************************************)
(* Properties.                                                             *)
(***************************************************************************)
\* A traceback reported with a failure is of that error, raised in the same call, whoever ran
\* on the thread before and whoever ran between the raise and take (protect.rs trace_handler,
\* take_handler).
TraceIsOwn ==
  \A c \in Calls : failure[c] # Nil =>
    LET entry == failure[c][2] IN entry # Nil => entry = <<failure[c][1], c>>

\* Preemption yields roots only, whatever thread was a root before (hub.rs is_root).
NoSpuriousYield == ~spurious

\* A cancelled call that keeps the VM thread is interrupted, wherever its checks land (hub.rs
\* dispatch).
CancelStops ==
  \A c \in Calls : (running = c /\ c \in cancelled) ~> (c \in raised \/ running # c)
=============================================================================
