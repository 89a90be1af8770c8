------------------------------ MODULE TaskLib ------------------------------
(***************************************************************************)
(* The task handles of the task library (task_lib.rs, and the task cases   *)
(* of select.rs): spawn, join, cancel, close and collection of a handle,   *)
(* from any coroutine of the VM.  The tasks themselves belong to their     *)
(* scopes (module Scope); here a task runs until it finishes somehow, and  *)
(* its scope may cancel it at any time.  Everything runs on the VM thread: *)
(* an action is one poll of a call, or one call that does not wait.        *)
(***************************************************************************)
EXTENDS Naturals, FiniteSets, Sequences

CONSTANTS Handles,  \* the handles of the tasks to be spawned
          Callers,  \* the coroutines that use them
          Nil

VARIABLES
  phase,      \* [Handles -> {"unborn", "live", "collected"}]: the Lua handle
  joined,     \* the handles with _joined set
  tasks,      \* Registry::tasks
  finished,       \* TaskState::done
  result,     \* [Handles -> the result slot]
  cancelled,  \* the tasks whose token is cancelled
  call,       \* [Callers -> the call in progress or None]
  woken,      \* the callers the executor will poll
  outcome,    \* [Handles -> how the task ended]
  told        \* [Handles -> Seq of what joins of it returned]

handleVars == <<phase, joined>>
taskVars == <<tasks, finished, result, cancelled, outcome>>
callVars == <<call, woken>>
libVars == <<handleVars, taskVars, callVars, told>>

Results == {"returned", "failed"}
Outcomes == Results \cup {"cancelled"}
Calls == [kind : {"join", "select"}, on : (SUBSET Handles) \ {{}}, handler : BOOLEAN]

ASSUME NilAssumption == Nil \notin Outcomes \cup Calls

TaskTypeOK ==
  /\ phase \in [Handles -> {"unborn", "live", "collected"}]
  /\ tasks \subseteq Handles /\ joined \subseteq Handles /\ finished \subseteq Handles
  /\ result \in [Handles -> Results \cup {Nil}] /\ cancelled \subseteq Handles
  /\ call \in [Callers -> Calls \cup {Nil}] /\ woken \subseteq Callers
  /\ outcome \in [Handles -> Outcomes \cup {Nil}]
  /\ told \in [Handles -> Seq(Outcomes)]
  /\ \A c \in Callers : call[c] # Nil /\ call[c].kind = "join" => call[c].on \subseteq joined

TaskInit ==
  /\ phase = [h \in Handles |-> "unborn"] /\ joined = {} /\ tasks = {} /\ finished = {}
  /\ result = [h \in Handles |-> Nil] /\ cancelled = {}
  /\ call = [c \in Callers |-> Nil] /\ woken = {}
  /\ outcome = [h \in Handles |-> Nil] /\ told = [h \in Handles |-> <<>>]

Live(h) == phase[h] = "live"
Idle(c) == call[c] = Nil
WaitsFor(c, h) == ~Idle(c) /\ h \in call[c].on
\* What a join returns for what it takes from the result slot.
Returns(r) == IF r = Nil THEN "cancelled" ELSE r

(***************************************************************************)
(* The task: spawned, cancelled by its scope, finished.                    *)
(***************************************************************************)
\* A closed scope, or one out of time, returns the task finished as cancelled.
SpawnTask(h) ==
  /\ phase[h] = "unborn"
  /\ phase' = [phase EXCEPT ![h] = "live"] /\ tasks' = tasks \cup {h}
  /\ \E refused \in SUBSET {h} :
       /\ finished' = finished \cup refused /\ cancelled' = cancelled \cup refused
       /\ outcome' = [x \in Handles |-> IF x \in refused THEN "cancelled" ELSE outcome[x]]
  /\ UNCHANGED <<joined, result, callVars, told>>

\* The scope of the task cancels it.
CancelScope(h) ==
  /\ phase[h] # "unborn" /\ h \notin cancelled
  /\ cancelled' = cancelled \cup {h}
  /\ UNCHANGED <<handleVars, tasks, finished, result, outcome, callVars, told>>

\* mutant: whatever a cancelled task returned is dropped
ConvertedDropped(h, out) == IF h \in cancelled THEN Nil ELSE out
\* The slot of a task that failed after its cancel stays empty.
Converted(h, out) == IF out = "failed" /\ h \in cancelled THEN Nil ELSE out

\* mutant: the joins of the task are not woken
WakeNobody(h) == {}
WakeJoins(h) == {c \in Callers : WaitsFor(c, h)}

\* The body returns or fails, or is dropped after its cancel.  The slot is filled first.
Finish(h) ==
  /\ phase[h] # "unborn" /\ h \notin finished
  /\ \E out \in Results \cup {Nil} :
       /\ out = Nil => h \in cancelled
       /\ result' = [result EXCEPT ![h] = Converted(h, out)]
       /\ outcome' = [outcome EXCEPT ![h] = IF out = "returned" \/ h \notin cancelled THEN out ELSE "cancelled"]
  /\ finished' = finished \cup {h} /\ woken' = woken \cup WakeJoins(h)
  /\ UNCHANGED <<handleVars, tasks, cancelled, call, told>>

(***************************************************************************)
(* Joins.                                                                  *)
(***************************************************************************)
\* The task is forgotten and its result handed to the caller.
Take(h) ==
  /\ tasks' = tasks \ {h} /\ result' = [result EXCEPT ![h] = Nil]
  /\ told' = [told EXCEPT ![h] = Append(@, Returns(result[h]))]
  /\ UNCHANGED <<finished, cancelled, outcome>>

Return(c) == call' = [call EXCEPT ![c] = Nil] /\ woken' = woken \ {c}
Wait(c, k) == call' = [call EXCEPT ![c] = k] /\ woken' = woken \ {c}

\* join_raw's future: polled first with the call, then when woken.
PollJoin(c, h) ==
  \/ h \in finished /\ Take(h) /\ Return(c)
  \/ h \notin finished /\ Wait(c, [kind |-> "join", on |-> {h}, handler |-> FALSE])
     /\ UNCHANGED <<tasks, finished, result, cancelled, outcome, told>>

Joinable(h) == Live(h) /\ h \notin joined

\* h:join(); one of a joined handle raises and changes nothing.
Join(c, h) ==
  /\ Idle(c) /\ Joinable(h) /\ joined' = joined \cup {h}
  /\ PollJoin(c, h)
  /\ UNCHANGED phase

Choosable(h) == h \notin joined

\* mutant: an undone join leaves the task forgotten
UntakeForgotten(h) == joined' = joined \ {h} /\ tasks' = tasks \ {h} /\ UNCHANGED result
\* A join undone (TaskArm::untake): what the case took is put back.
Untake(h) == joined' = joined \ {h} /\ tasks' = tasks \cup {h} /\ UNCHANGED result

\* One poll of a select: a case whose task has finished is chosen (the start position turns,
\* so any of them).  Its handle may have been joined since the case was armed: the select
\* raises.  If the handler is not entered, the join is undone.
PollSelect(c, k) ==
  \/ /\ k.on \cap finished = {} /\ Wait(c, k)
     /\ UNCHANGED <<joined, taskVars, told>>
  \/ \E h \in k.on \cap finished :
       /\ Return(c)
       /\ \/ ~Choosable(h) /\ UNCHANGED <<joined, taskVars, told>>
          \/ Choosable(h) /\ joined' = joined \cup {h} /\ Take(h)
          \/ /\ Choosable(h) /\ k.handler /\ Untake(h)
             /\ UNCHANGED <<finished, cancelled, outcome, told>>

\* select or select_raw, with cases on unjoined handles, and perhaps others.
Select(c) ==
  \E on \in (SUBSET {h \in Handles : Joinable(h)}) \ {{}}, handler \in BOOLEAN :
    /\ Idle(c)
    /\ PollSelect(c, [kind |-> "select", on |-> on, handler |-> handler])
    /\ UNCHANGED phase

Poll(c) ==
  /\ c \in woken
  /\ \/ /\ call[c].kind = "join" /\ \E h \in call[c].on : PollJoin(c, h)
        /\ UNCHANGED joined
     \/ call[c].kind = "select" /\ PollSelect(c, call[c])
  /\ UNCHANGED phase

\* The call ends without a task: the coroutine is dropped, or a select takes another case or
\* returns the cancel of its caller (a join does not look at it).
Abandon(c) ==
  /\ ~Idle(c) /\ Return(c)
  /\ UNCHANGED <<handleVars, taskVars, told>>

(***************************************************************************)
(* The calls that do not wait, and the end of a handle.                    *)
(***************************************************************************)
\* h:cancel(): nothing for a joined handle.
CancelTask(h) ==
  /\ Live(h) /\ cancelled' = cancelled \cup ({h} \ joined)
  /\ UNCHANGED <<handleVars, tasks, finished, result, outcome, callVars, told>>

\* __close of an unjoined handle: cancel, then join.
Close(c, h) ==
  /\ Idle(c) /\ Joinable(h) /\ joined' = joined \cup {h}
  /\ \/ /\ h \in finished /\ tasks' = tasks \ {h} /\ result' = [result EXCEPT ![h] = Nil]
        /\ UNCHANGED call
     \/ /\ h \notin finished /\ call' = [call EXCEPT ![c] = [kind |-> "join", on |-> {h}, handler |-> FALSE]]
        /\ UNCHANGED <<tasks, result>>
  /\ cancelled' = cancelled \cup {h}
  /\ UNCHANGED <<phase, finished, outcome, woken, told>>

\* release_raw
Released(h) == tasks' = tasks \ {h} /\ cancelled' = cancelled \cup {h}

\* __gc, once no call holds the handle.
Collect(h) ==
  /\ Live(h) /\ \A c \in Callers : ~WaitsFor(c, h)
  /\ phase' = [phase EXCEPT ![h] = "collected"]
  /\ \/ h \notin joined /\ Released(h)
     \/ h \in joined /\ UNCHANGED <<tasks, cancelled>>
  /\ UNCHANGED <<joined, finished, result, outcome, callVars, told>>

TaskNext ==
  \/ \E h \in Handles : SpawnTask(h) \/ CancelScope(h) \/ Finish(h) \/ CancelTask(h) \/ Collect(h)
  \/ \E c \in Callers : \/ Select(c) \/ Poll(c) \/ Abandon(c)
                        \/ \E h \in Handles : Join(c, h) \/ Close(c, h)

TaskSpec == TaskInit /\ [][TaskNext]_libVars
\* The executor polls every woken caller; a cancelled task finishes within its grace
\* and when its own tasks have (RunResolves of module Scope, and its premise).
TaskFairSpec ==
  /\ TaskSpec
  /\ \A c \in Callers : WF_libVars(Poll(c))
  /\ \A h \in Handles : WF_libVars(h \in cancelled /\ Finish(h))

(***************************************************************************)
(* Properties.                                                             *)
(***************************************************************************)
\* An unjoined handle always finds its task, and a finished task its result: join, done and
\* cancel never meet "unknown task", whatever selects were armed with the handle, lost, or
\* undone (task_lib.rs Registry, select.rs TaskArm::untake).
UnjoinedIsReachable ==
  \A h \in Handles : Joinable(h) => h \in tasks /\ (h \in finished => Returns(result[h]) = outcome[h])

\* A task's outcome is told once, and told as it was: a join and the selects armed with its
\* handle never share it, and none reports a cancel of a task that returned
\* (select.rs TaskArm::join, task_lib.rs join_raw).
JoinTellsOutcome ==
  \A h \in Handles : told[h] # <<>> => told[h] = <<outcome[h]>>

\* A running task whose handle is gone, and that no call waits for or gave up waiting for, is
\* cancelled (task_lib.rs __gc, release_raw).
LeftIsCancelled ==
  \A h \in Handles : phase[h] = "collected" /\ h \notin joined => h \in finished \cup cancelled

\* A call that waits for a cancelled or finished task returns: a finish between two polls of
\* a call is not missed (select.rs TaskArm::wait, scope.rs wait_done).
WaitsEnd ==
  \A c \in Callers : (\E h \in finished \cup cancelled : WaitsFor(c, h)) ~> Idle(c)
=============================================================================
