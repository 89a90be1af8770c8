-------------------------------- MODULE Scope --------------------------------
(***************************************************************************)
(* Structured execution of scope.rs: a root coroutine and the tasks        *)
(* spawned from it, transitively, on the LocalSet of one thread.  Each has *)
(* a scope: a token, a grace, a list of tasks, and, once it has seen its   *)
(* cancel or its body has ended, a deadline.                               *)
(*                                                                         *)
(* A poll is not one step: between BeginPoll and EndPoll the body runs,    *)
(* and spawns, cancels and takes time, but no other task is polled.  Code  *)
(* that keeps a ScopeHandle may spawn, and any code may cancel, at any     *)
(* time.  The executor polls in any order.  Cancelling a token cancels its *)
(* descendants in one step (CancelToken shows that it reaches them).       *)
(***************************************************************************)
EXTENDS Integers, FiniteSets, FiniteSetsExt

CONSTANTS
  Root,      \* the root coroutine
  Tasks,     \* the tasks that may be spawned from it
  Graces,    \* the grace periods Config may set
  LastTick,  \* bound: time stands still after it unless a deadline is ahead
  None

Ids == {Root} \cup Tasks

ASSUME RootAssumption == Root \notin Tasks
ASSUME TasksAssumption == IsFiniteSet(Tasks)
ASSUME GracesAssumption == Graces # {} /\ Graces \subseteq Nat
ASSUME LastTickAssumption == LastTick \in Nat
ASSUME NoneAssumption == None \notin Ids /\ None \notin Int

VARIABLES
  fut,       \* scope -> state of its future (run_in)
  anc,       \* scope -> the scopes it descends from
  grace,     \* scope -> Scope.grace
  deadline,  \* scope -> Scope.deadline
  kids,      \* scope -> Scope.children
  token,     \* the scopes whose token is cancelled
  aborted,   \* the tasks whose AbortHandle was used
  done,      \* the tasks marked done (and the root, once its future is gone)
  polling,   \* the scope whose body is being polled
  vmGrace,   \* Config::grace of the VM
  now

vars == <<fut, anc, grace, deadline, kids, token, aborted, done, polling, vmGrace, now>>

(* Not spawned; spawned; its body running; its tasks awaited; completed;   *)
(* dropped after, or before, its first poll.                               *)
Futures == {"unborn", "fresh", "body", "drain", "ready", "dropped", "unpolled"}

TypeOK ==
  /\ fut \in [Ids -> Futures]
  /\ anc \in [Ids -> SUBSET Ids]
  /\ grace \in [Ids -> Graces]
  /\ deadline \in [Ids -> Nat \cup {None}]
  /\ kids \in [Ids -> SUBSET Tasks]
  /\ token \subseteq Ids
  /\ aborted \subseteq Tasks
  /\ done \subseteq Ids
  /\ polling \in Ids \cup {None}
  /\ vmGrace \in Graces
  /\ now \in Nat

Init ==
  /\ fut = [s \in Ids |-> IF s = Root THEN "fresh" ELSE "unborn"]
  /\ anc = [s \in Ids |-> {}]
  /\ vmGrace \in Graces
  /\ grace = [s \in Ids |-> vmGrace]
  /\ deadline = [s \in Ids |-> None]
  /\ kids = [s \in Ids |-> {}]
  /\ token = {}
  /\ aborted = {}
  /\ done = {}
  /\ polling = None
  /\ now = 0

Phase(s) ==
  CASE fut[s] = "body" -> "Running"
    [] fut[s] = "drain" -> "Draining"
    [] OTHER -> "Closed"

Under(ts) == ts \cup {d \in Ids : anc[d] \cap ts # {}}

(* The ancestors a scope still reaches: it holds its parent weakly, and a  *)
(* dropped future no longer keeps its scope.                               *)
LiveAncestors(s) == {a \in anc[s] : \A b \in anc[s] : fut[b] = "dropped" => b \in anc[a]}

Deadlines(ss) == {deadline[a] : a \in ss} \ {None}

(* now + grace, clamped to the earliest deadline of an ancestor            *)
FreshDeadline(s) == now + grace[s]     \* mutant: not clamped
OwnDeadline(s) == Min(Deadlines(LiveAncestors(s)) \cup {now + grace[s]})

------------------------------------------------------------------------------
(* Scope::spawn *)

OutOfTime(s) ==
  CASE Phase(s) = "Running" -> FALSE
    [] Phase(s) = "Draining" -> deadline[s] <= now
    [] Phase(s) = "Closed" -> TRUE

Refuse(t) ==
  /\ fut' = [fut EXCEPT ![t] = "unpolled"]
  /\ token' = token \cup {t}
  /\ done' = done \cup {t}
  /\ UNCHANGED <<anc, grace, kids>>

(* Scope::add: a task added while the scope drains is cancelled at once,   *)
(* and tasks that are done leave the list.                                 *)
BornCancelledByToken(s) == s \in token  \* mutant: the phase is not looked at
BornCancelled(s) == s \in token \/ Phase(s) = "Draining"

Retained(s) == kids[s] \ done

Start(s, t, g) ==
  /\ fut' = [fut EXCEPT ![t] = "fresh"]
  /\ anc' = [anc EXCEPT ![t] = anc[s] \cup {s}]
  /\ grace' = [grace EXCEPT ![t] = g]
  /\ kids' = [kids EXCEPT ![s] = Retained(s) \cup {t}]
  /\ token' = IF BornCancelled(s) THEN token \cup {t} ELSE token
  /\ UNCHANGED done

(* A scope can be spawned into once its body has been polled (a handle to  *)
(* it can be had only then).                                               *)
Spawn(s, t, g) ==
  /\ fut[s] \in {"body", "drain", "ready", "dropped"}
  /\ t \in Tasks /\ fut[t] = "unborn"
  /\ \/ OutOfTime(s) /\ Refuse(t)
     \/ ~OutOfTime(s) /\ Start(s, t, g)
  /\ UNCHANGED <<deadline, aborted, polling, vmGrace, now>>

(* task.spawn, with the grace the VM has now *)
SpawnLua(t) == polling # None /\ Spawn(polling, t, vmGrace)

(* ScopeHandle::spawn_local, with the grace of the scope *)
SpawnLocal(s, t) == Spawn(s, t, grace[s])

------------------------------------------------------------------------------
(* run_in and with_grace *)

(* A poll that finds the token cancelled takes the deadline before it      *)
(* polls the body.                                                         *)
BeginPoll(s) ==
  /\ polling = None
  /\ fut[s] \in {"fresh", "body"}
  /\ s \notin aborted
  /\ fut' = [fut EXCEPT ![s] = "body"]
  /\ deadline' = IF s \in token /\ deadline[s] = None
                 THEN [deadline EXCEPT ![s] = OwnDeadline(s)] ELSE deadline
  /\ polling' = s
  /\ UNCHANGED <<anc, grace, kids, token, aborted, done, vmGrace, now>>

(* The body is pending, and its time is not over. *)
StayPending(s) ==
  /\ deadline[s] # None => now < deadline[s]
  /\ UNCHANGED <<fut, deadline, token, done>>

(* The body returned, or its time is over and it is dropped: cancel the    *)
(* tasks and wait for them.                                                *)
SomeDone(s) == kids[s] = {} \/ kids[s] \cap done # {}  \* mutant: wait_all waits for one
AllDone(s) == kids[s] \subseteq done

StartDrain(s) ==
  /\ deadline' = IF deadline[s] = None THEN [deadline EXCEPT ![s] = OwnDeadline(s)] ELSE deadline
  /\ token' = token \cup Under(kids[s])
  /\ \/ /\ AllDone(s)
        /\ fut' = [fut EXCEPT ![s] = "ready"]
        /\ done' = done \cup {s}
     \/ /\ ~AllDone(s)
        /\ fut' = [fut EXCEPT ![s] = "drain"]
        /\ UNCHANGED done

EndPoll(s) ==
  /\ polling = s
  /\ polling' = None
  /\ StayPending(s) \/ StartDrain(s)
  /\ UNCHANGED <<anc, grace, kids, aborted, vmGrace, now>>

(* wait_all finds no task left that is not done. *)
Drained(s) ==
  /\ polling = None
  /\ fut[s] = "drain"
  /\ s \notin aborted
  /\ AllDone(s)
  /\ fut' = [fut EXCEPT ![s] = "ready"]
  /\ done' = done \cup {s}
  /\ UNCHANGED <<anc, grace, deadline, kids, token, aborted, polling, vmGrace, now>>

------------------------------------------------------------------------------
(* The future of a scope is dropped early: its AbortOnDrop (there is one   *)
(* from the first poll on) aborts the tasks, its FinishOnDrop marks it     *)
(* done.                                                                   *)

DropFuture(s) ==
  /\ done' = done \cup {s}
  /\ \/ /\ fut[s] = "fresh"
        /\ fut' = [fut EXCEPT ![s] = "unpolled"]
        /\ UNCHANGED <<token, aborted>>
     \/ /\ fut[s] \in {"body", "drain"}
        /\ fut' = [fut EXCEPT ![s] = "dropped"]
        /\ token' = token \cup Under(kids[s])
        /\ aborted' = aborted \cup (kids[s] \ done)
  /\ UNCHANGED <<anc, grace, deadline, kids, vmGrace, now>>

(* The executor drops an aborted task when its turn comes. *)
DropAborted(t) ==
  /\ polling = None
  /\ t \in aborted /\ t \notin done
  /\ DropFuture(t)
  /\ UNCHANGED polling

(* A panic in the body; tokio catches a task's. *)
Panic(s) ==
  /\ polling = s
  /\ polling' = None
  /\ DropFuture(s)

(* The owner of the run future drops it. *)
DropRun ==
  /\ polling = None
  /\ DropFuture(Root)
  /\ UNCHANGED polling

------------------------------------------------------------------------------
(* cancel() on a token, also by dropping a ScopedTask *)
Cancel(s) ==
  /\ fut[s] # "unborn"
  /\ s \notin token
  /\ token' = token \cup Under({s})
  /\ UNCHANGED <<fut, anc, grace, deadline, kids, aborted, done, polling, vmGrace, now>>

SetConfig(g) ==
  /\ vmGrace' = g
  /\ UNCHANGED <<fut, anc, grace, deadline, kids, token, aborted, done, polling, now>>

Tick ==
  /\ now < LastTick \/ \E s \in Ids : deadline[s] # None /\ now < deadline[s]
  /\ now' = now + 1
  /\ UNCHANGED <<fut, anc, grace, deadline, kids, token, aborted, done, polling, vmGrace>>

------------------------------------------------------------------------------
Next ==
  \/ \E s \in Ids : BeginPoll(s) \/ EndPoll(s) \/ Drained(s) \/ Panic(s) \/ Cancel(s)
  \/ \E t \in Tasks : SpawnLua(t) \/ DropAborted(t)
  \/ \E s \in Ids, t \in Tasks : SpawnLocal(s, t)
  \/ \E g \in Graces : SetConfig(g)
  \/ DropRun
  \/ Tick

Spec == Init /\ [][Next]_vars

(* A task is polled when it is new, when its token is cancelled and when   *)
(* its grace ends; a poll of a body returns; an aborted task is dropped;   *)
(* time goes on.                                                           *)
Woken(s) ==
  \/ fut[s] = "fresh"
  \/ s \in token /\ deadline[s] = None
  \/ deadline[s] # None /\ deadline[s] <= now

Fairness ==
  /\ \A s \in Ids : /\ WF_vars(Woken(s) /\ BeginPoll(s))
                    /\ WF_vars(EndPoll(s))
                    /\ WF_vars(Drained(s))
  /\ \A t \in Tasks : WF_vars(DropAborted(t))
  /\ WF_vars(Tick)

FairSpec == Spec /\ Fairness

------------------------------------------------------------------------------
(* A scope whose future completed left nothing behind: each of its         *)
(* descendants is done, but for tasks below one that was dropped with a    *)
(* panic, which are aborted or will be (runtime.rs:25-32, scope.rs:400-408)*)
Alive(t) == fut[t] \notin {"unborn", "ready", "dropped", "unpolled"}
CompletedIsQuiet ==
  \A s, t \in Ids :
    fut[s] = "ready" /\ s \in anc[t] /\ Alive(t) =>
      \E b \in anc[t] : s \in anc[b] /\ fut[b] = "dropped"

(* A draining scope never waits for a task that was not told to stop, not  *)
(* even one added after its cancel_all (scope.rs:143-154).                 *)
DrainCancels ==
  \A s \in Ids : \A t \in kids[s] : fut[s] = "drain" /\ t \notin done => t \in token

(* No scope has a later deadline than an ancestor, in whichever order the  *)
(* tree observes its cancels ("a scope that clamps to this ends no later   *)
(* than any of its ancestors", scope.rs:124-130), as long as its task was  *)
(* started with a grace no longer than its ancestors' (runtime.rs:584-587; *)
(* set_config may give a later task a longer one).                         *)
NoLaterThanAncestors(t) ==
  \A a \in LiveAncestors(t) :
    deadline[t] # None /\ deadline[a] # None => deadline[t] <= deadline[a]

OneDeadline ==
  \A t \in Ids : (\A a \in anc[t] : grace[t] <= grace[a]) => NoLaterThanAncestors(t)

(* A task is started below a scope that drains past its deadline.  The     *)
(* scope itself refuses it (OutOfTime), but a task of it that is polled    *)
(* late is still Running, and may spawn in that poll; so the chain that    *)
(* scope.rs:172-177 means to prevent is possible.                          *)
LateStart(t) ==
  /\ fut[t] = "unborn" /\ fut'[t] = "fresh"
  /\ \E a \in anc'[t] : fut[a] = "drain" /\ deadline[a] <= now

(* A root that is cancelled, or whose body ended, resolves, whatever its   *)
(* tasks do with their cancel (runtime.rs:25-30), unless tasks polled past *)
(* the deadline go on starting others for ever.                            *)
RunResolves ==
  \/ []<><<\E t \in Tasks : LateStart(t)>>_vars
  \/ (Root \in token \/ fut[Root] = "drain") ~> (fut[Root] \notin {"fresh", "body", "drain"})

==============================================================================
