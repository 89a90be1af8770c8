# mlua-isle in TLA+

`mlua-isle` runs Lua VMs away from the code that uses them: a VM lives on one
thread, callers send it requests, and a cancel token reaches the Lua code, the
Rust callbacks and every task below a request. Inside a VM a task library gives
Lua code tasks, channels, `select` and timers, and channels to and from the
host. This directory holds TLA+ modules of its concurrent parts, TLC
configurations that check them on small instances, and TLAPS proofs for
instances of any size. Line references are to the files of `src/src/`.

Contents: [the system](#the-system) · [the modules](#the-modules) ·
[the runs](#the-runs) · [what disagrees with the documentation](#disagreements-with-the-documentation)
· [the proofs](#the-proofs) · [what is left out](#what-is-left-out)

## The system

### Components, their state and their operations

| component | file | state | operations | module |
|---|---|---|---|---|
| `CancelToken` | hook.rs | per token: an atomic flag, a `Notify`, a strong pointer to the parent, a mutex with a list of weak pointers to children and its sweep threshold | `new`, `child_token`, `cancel`, `is_cancelled`, `cancelled().await`, clone, drop | `CancelToken` |
| `IslePool` | pool.rs | under one mutex: idle stack, `active`, `closed`; a condition variable; a guard per checkout | `checkout`, `try_checkout`, `checkout_timeout`, guard drop and `kill`, `shutdown` | `IslePool` |
| `AsyncIslePool` | async_pool.rs | the same counters under a mutex never held over an await; one `tokio::sync::Notify` | the same, as futures that may be dropped at any await | `AsyncIslePool` |
| `Scope` | scope.rs | per running coroutine: token, grace, deadline, phase (running, draining, closed), list of tasks | `run_root`, `spawn`, `wait_all`, `cancel_all`, `abort_all`, `ScopedTask` | `Scope` |
| `Isle`, `Task`, VM thread | handle.rs, task.rs, thread.rs | unbounded request channel, join handle, receive loop; per request a token and an answer channel | `eval`/`exec`/`call`, `spawn_*`, `shutdown`, drop, `Task::{wait,try_recv,cancel,detach}` | `Isle` |
| `AsyncIsle`, driver, `AsyncTask` | async_isle.rs, async_task.rs | bounded request channel, driver, `LocalSet` with one coroutine per request | sync and coroutine requests, `shutdown`, cancel | `AsyncIsle` |
| local channels, tickers | chan.rs | per channel: buffer, capacity, closed flag, queue of offers, queue of waiters, wakers | `send`, `recv`, `try_*`, `close`, give-back of a value that was not handed over | `Channel` |
| `select`, timers | select.rs | arms, start position, one claim mark per select | polling arms in turn, claim by a peer, withdrawal, undoing a chosen case whose handler was not entered | `Channel`, `TaskLib` |
| task library | task_lib.rs | registry of tasks by id, Lua handles with `_joined` | `task.spawn`, `join`, `cancel`, `done`, `__close`, `__gc` | `TaskLib` |
| host channels, requests | host_chan.rs, chan.rs | tokio channel shared by several Lua receivers (`FanOut`); per request the state of its answer | `host_channel`, `Sender::{send,request}`, `recv`, `reply`, `reject`, close | `HostChan` |
| channels to the host | chan.rs, host_chan.rs | tokio channel with reservations and permits, waiters | `channel_to_host`, Lua's sends, `Receiver::{recv,close}` | `HostSink` |
| hook hub, protect | hub.rs, protect.rs | one debug hook per VM: deferral counter, root marks; a table of tracebacks by thread | `dispatch`, `mark_root`, `call`, `trace_handler`, `take` | `VmCalls` |
| `runtime::Vm` | runtime.rs | none of its own | `attach`, `set_config`, `run` | (forwards to the above) |

### How they interact

- Every request and every task has a `CancelToken`; the token of a task is a
  child of the token of the scope that spawned it. `cancel` on any token walks
  the weak lists down. The debug hook reads the token of the coroutine that
  runs and raises the cancel error in it.
- `AsyncIsle` runs a coroutine request as `Vm::run`, which is a root `Scope`;
  `task.spawn` in Lua and `ScopeHandle::spawn_local` in Rust spawn into it.
  Channels, joins and `select` are awaited by those coroutines, on the same
  thread, and so interleave poll by poll only; host channels are shared with
  other threads, step by step.
- Each layer uses what another module promises: `AsyncIsle` and `TaskLib` take
  from `Scope` that a cancelled coroutine ends (`RunResolves`, which holds as
  long as its tasks do not start others past the deadline for ever), `Scope` takes
  from `CancelToken` that a cancel reaches the tree, the channels take from the
  executor that a woken task is polled.
- The pools lend `Isle`s and `AsyncIsle`s; they learn of a VM's death only by
  `is_alive` when they pop or take back the VM.
- Locks: each token has a children mutex, each pool one mutex. `IslePool` joins
  VM threads while it holds its mutex (pool.rs:217-231, 273-290), so every
  caller of that pool waits for a request that still runs in such a VM.

### Behaviours that are hard to test

- **Token tree**: `child_token` on one thread against `cancel` on another;
  handles dropped between the take of the list and its upgrade; a `cancelled()`
  future that checks, registers and checks again.
- **Pools**: which caller a notification reaches, and whether that caller still
  looks; notifications that collapse; a spawn that fails, or is abandoned,
  after its slot was counted; shutdown against returns, checkouts and its own
  cancellation; VMs that die while idle or lent.
- **Scopes**: tasks that are spawned while, or after, their scope cancels its
  tasks; deadlines that every scope takes in its own poll but that must form
  one tree-wide deadline; tasks dropped, aborted or panicking with live tasks
  below them.
- **Requests**: a full request channel against shutdown, requests queued behind
  it, a panic that ends the receive loop, a last handle dropped with requests
  buffered, code that never ends, Tasks dropped with and without a result.
- **Channels, select**: a value delivered to a select that then took another
  case, was cancelled or dropped; two selects that meet on several channels; a
  join that races a select armed with the same handle.
- **Host channels**: receivers that share one tokio receiver, which keeps one
  waker; conversions that run Lua code with room reserved or an answer half
  given; a close from either side in the middle.
- **Calls**: Lua threads that are recycled with a traceback or a root mark on
  them; cancel checks that land where they must not raise.

`PROJECT.json` lists each hazard at its line with the property that covers it.

## The modules

| module | models | actors |
|---|---|---|
| `CancelToken` | hook.rs, every step of `new`, `child_token`, `cancel`, `cancelled()` and drop | threads, waiting futures |
| `SlotPool` | nothing in particular: the abstract bounded pool both pools implement | |
| `Service` | nothing in particular: the abstract service of requests both isles implement | |
| `IslePool` | pool.rs, all operations | threads |
| `AsyncIslePool` | async_pool.rs, all operations, and the parts of `tokio::sync::Notify` it relies on | tasks on a multi-thread runtime |
| `Scope` | scope.rs: `run_in`, `with_grace`, `spawn`, drains, aborts, panics | one thread; polls with a beginning and an end |
| `Isle` | handle.rs, thread.rs, task.rs: spawn, requests, shutdown, drop, `Task` | the owner, holders of Tasks, the VM thread |
| `AsyncIsle` | async_isle.rs and async_task.rs: spawn, submit, the receive loop, shutdown, `AsyncTask`, and the parts of tokio's bounded mpsc they rely on | callers, the driver, the Lua thread |
| `Channel` | the local half of chan.rs with select.rs: sends, receives and selects, tickers, timers | tasks of one VM, and calls that do not wait |
| `TaskLib` | task_lib.rs and the task cases of select.rs | tasks, coroutines of one VM |
| `HostChan` | host_chan.rs and `HostRx`, `FanOut` of chan.rs: host to Lua, with requests | host threads, receivers on the VM thread |
| `HostSink` | `HostTx`, `SinkPermit` and `Sending::poll_sink` of chan.rs: Lua to host | sends on the VM thread, the host |
| `VmCalls` | protect.rs, `dispatch` and the marks of hub.rs, `EnterGuard` of hook.rs, `Scoped` of scope.rs | calls on one VM |
| `...Proofs` | theorems about the module of that name; `HostProofs` has those of `HostSink` and `Isle`, `TaskProofs` those of `Scope` and `TaskLib`, `VmProofs` those of `VmCalls` and `HostChan` | |
| `MC...` | constants of an instance for TLC, where a cfg cannot give them | |

### CancelToken

Tokens are drawn from a finite set; a token is unborn until `new` or
`child_token` makes it. `handles` are the tokens with a `CancelToken` value
somewhere; a token is alive while there is a handle to it, to a descendant
(children point to parents strongly), or a call has it in its hands. `cancel`
is the loop of hook.rs:73-83: swap the flag, notify, take the list under the
mutex, then for every entry try to upgrade it and recurse, each a step of its
own. `stage[t]` is how far the call that won `t`'s flag has come, `pending[t]`
the part of the list it has taken and not looked at. `child_token` reads the
flag with the mutex held and pushes in a second step, so other threads run in
between. A waiter goes through check, create, enable, check again, wait.
`SweepMin` is the constant 16 of hook.rs:116, small in the runs so that sweeps
happen.

### IslePool and AsyncIslePool

A critical section of the mutex is one step, except those that join a thread
inside it. `pc` says where a thread or caller is in its call; `vm` is the state
of each VM's thread. `Isles` are names, reused when a VM's thread has ended.
The idle stack is a set: the code pops from the top, the model pops any one,
with any subset of the dead ones popped before it (the order in which VMs are
lent is not a promise of the pool).

`IslePool::shutdown` may be called by a thread that holds a guard, which it
keeps. In `IslePool` a holder may start a request and drop its guard while it
runs (a `Task`), so a join may have to wait. `EndOnReturn` is the test of
return_isle; `NotifyOne` picks any waiter, `SpuriousWakeup` and `Expire` send a
waiter back to the lock.

In `AsyncIslePool` the `Notify` is external code: at most one stored permit, a
FIFO queue of registered futures, `notify_waiters` reaching every `Notified`
created before it, polled or not (`stale`), and a dropped `Notified` passing on
the `notify_one` it had received. `checkout` creates its `Notified` before
`try_acquire` and polls it afterwards (149-160): `acquire`, `poll` and `wait`
are separate control points. `DropSpawn`, `LeaveQueue` and `DropShutdown` drop
the future at each await point of the file.

`SlotPool` is what both promise: slots are claimed and released, never more
than `MaxSize` claimed or idle; once closed, nothing is claimed and nothing
becomes idle. `ImplementsSlotPool` maps `claimed` to `active` and `open` to
`~closed`.

### Scope

`fut[s]` is the future of a scope: fresh, its body polled at least once, its
tasks awaited, completed, or dropped. A poll of a body is `BeginPoll`, any
number of actions of the program (spawn, cancel, time passing), `EndPoll`; no
other future is polled in between, but any code with a `ScopeHandle` may spawn
into another scope, also after that scope completed. `deadline`, `kids`,
`grace` and the phase are the fields of `Scope`; `done` and `aborted` are
`TaskState`. A token cancel is atomic here: `CancelToken` shows that it reaches
the tree, and everything that happens in the middle of it on another thread
could as well have happened before it, since a scope looks at its token only in
its own polls. A scope holds its parent weakly, so a scope below a dropped one
no longer sees the deadlines above it (`LiveAncestors`). `Tick` advances time;
after `LastTick` only while a deadline is ahead, which keeps the model finite
and lets every deadline come.

### Isle

The request channel is unbounded and shared by the `Isle`'s owner only, so
`inbox` is a sequence in which `Shutdown` comes last; `Post` drops a message for
a thread that is gone, as the `let _ =` of handle.rs does, while a request it
cannot send is answered at once. `current` is the request that runs: it ends,
panics, or, for one of `Loops`, waits for its token. The thread ends in two
steps (`closing` or `unwinding`, then `done` or `panicked`), between which
messages are still accepted and then lost with the channel. `task[r]` is the
`Task` value, `released` its field, `asked` separates a call of `cancel` from
the cancel of `Drop`. Blocking `eval`, `exec` and `call` are `Submit` and `Wait`.

### AsyncIsle

The channel is the log `sent` of the messages it accepted and the number
`taken` of those the receiver has taken, so `queue` is its content. Of tokio's
mpsc the model keeps that a waiting `send` is first in line for a freed place
(`Reserved`), that dropping the receiver drops what it buffers, and that `recv`
returns `None` only when no sender is left *and* nothing is buffered. `busy` is
the request whose code occupies the thread: a sync job from `Receive` to
`Finish`, a coroutine from one poll to the next await (one await each is
enough to let everything else happen in between). `answer` is the oneshot:
`panicked` and `dropped` both reach the caller as `RecvFailed`, and are apart
because only the second may depend on other requests. `Endless` code loops
until it is cancelled. `yield_now` between two requests is scheduling and part
of the fairness. A request accepted while the driver's `Shutdown` is in the
channel gets `RecvFailed`, and `Shutdown` only once the receiver is gone.

### Service

`Service` is what the callers of either isle may count on, without threads,
channels or Tasks: a line of accepted requests and stop messages, the requests
that run, what became of each request, and the phase of the isle. Requests are
begun in the order of the line, each while no request of `Serial` occupies the
isle; one that was begun is served unless it panics; the isle stops when it
takes a stop, when a request of `Serial` panics, or when nothing is left to
begin, and only a stopping isle loses what waits. `Return`, the end of a
`shutdown` call, finds nothing running. `ImplementsService` maps this to `Isle`
(`Serial` is every request, the line is `inbox`, a fate is read off the answer
channel and what the Task returned) and to `AsyncIsle` (`Serial` is the sync
requests, the line is `queue`, the coroutines of the `LocalSet` run beside it and
outlive the receive loop).

### Channel

Every wait of the channel library is a select: a plain `send` or `recv` is one
of a single case, `try_send` and `try_recv` are calls that do not wait and have
actions of their own, and a default makes a select one of those. A call is a
record of its cases, its default, whether a chosen case has a handler, the
position it starts at and the values it sends; `Calls` says which forms a run
has, so that a run chooses which kinds of cases meet.

A poll is one action: `DeliveredCases` first (an offer already taken, which is
chosen even if others are ready), then the cases in turn from the start
position, each of which may post an offer or register a waiter before the next
is looked at, then the default, then `Wait`. `Choose` is everything that the
choice of a case changes: the value taken from the buffer, a peer's offer or a
waiter's slot, the peer's mark, the offers and waiters of the other cases
withdrawn (a value that `try_send` had put in one of them goes back to the
front, `GivenBack`), the wake-ups, and, when the handler was not entered because
the hook raised between the choice and the handler, `Arm::untake`'s give-back.
`GiveUp` is the same without a choice, for a default, a cancel or a drop.

`told`, `accepted` and `got` are kept for the properties: what a sender was
told, and per channel the values accepted and handed over. A ticker is a
channel of one place whose unread tick is replaced (`push_newest`); a replaced
tick is taken out of `accepted` again, so that `InOrder` speaks of ticks that
can still be received.

`CallOf` builds the call that a form begins, `Tell` says what the sender of each
of its values is told, and `Keep` returns the members of a set that a sequence
has, in their order: the search through offers and waiters, their removal, and
the order in which values are given back, are all this one operator.

### TaskLib

`phase` and `joined` are the Lua handle, `tasks` the registry, `finished` and
`result` the `TaskState` of the task and its result slot. The task itself
finishes in one step in one of the three ways its scope allows (returned,
failed, dropped after a cancel); what its scope does meanwhile is in `Scope`. A
join is polled where it is called and whenever it is woken; a select polls its
cases, joins the one it chooses and undoes the join when its handler is not
entered. The position at which a select starts is any.

### HostChan and HostSink

tokio's bounded channel is external, modelled at the grain at which its users
could see it: a semaphore with a queue, a list of values, an `AtomicWaker`. In
`HostChan` a host thread pushes, takes the waker, and wakes, in three steps; a
poll on the VM thread looks at the queue, registers its waker and looks again.
`FanOut` stands in that one waker's place and keeps the tasks registered since
the last wake-up. Requests carry an answer channel whose state is `reply`; an
answer converts its value first, in which Lua code may run, so `converting` is
a stack and the state is looked at again behind it (host_chan.rs:418-422).
Room that a receive frees belongs to a waiting send (`waiters`) before that send
is polled again (`assigned`); which of them gets it no property tells apart, so
`waiters` is a set. Until the send is polled or dropped the room is in use
(`Held`), and behind Lua's close the receiver is told of the end only when none
is. `DropReserve` is a waiting send that leaves: it gives its room back, which
after the close wakes nobody. `untold` keeps, for the properties, the receivers
that were in a call when that happened.

In `HostSink` a send has a place in the semaphore's queue, room `assigned`, a
permit while it converts, and then a value in the queue; `GiveRoom` is every
way in which a room comes back. The channel lives while a clone of its
`Sender` does, which every waiting send and every permit holds (`Clones`): so
after Lua's `close` the last of them ends it. The host takes a value and gives
its room back in two steps, and closes or drops its end at any time.

### VmCalls

A call runs on a Lua thread: a sync one on the main thread from start to end,
a coroutine call on a thread that mlua recycles, polled in turns with the
others. `running` is the call that is polled, `inner` a coroutine that its
Lua code resumed, which takes a recycled thread as well. Of the code of a call
the model keeps the points where these modules meet: errors that unwind it,
with and without a message handler, errors of `__close` handlers on the way
(which may await, so other calls run in between), cancel checks, and
preemption. Each check of a call of `Polling` lands in mlua's poll chunk (a
loop over a ready async host function), where the hub defers it up to
`MaxDeferred` times per VM. An entry of the traceback table carries the call it
was recorded in for the sake of `TraceIsOwn`; `take` compares only the error, as
the code does.

## The runs

| run | instance | what it shows |
|---|---|---|
| `CancelToken_tree` | 3 tokens, 2 threads, 1 waiter, SweepMin 1 | between calls no live token is uncancelled below a cancelled one (`QuietTreeCancelled`); no future of `cancelled()` sleeps through the signal (`NoLostSignal`); every cancel reaches all that stays alive and every such future resolves (`CancelReachesAll`) |
| `IslePool_checkout` | 2 threads, 2 VM names, 1 slot, cold and warm | `active` exact; implements `SlotPool`; a free slot does not stay free beside a sleeper; shutdown wakes all and ends all VMs not lent |
| `AsyncIslePool_checkout` | 2 callers, 2 VM names, 1 slot | implements `SlotPool`; a registered caller wakes while no slot has leaked; shutdown ends every VM not lent, even if its future is dropped |
| `AsyncIslePool_idle` | 4 callers, 2 slots | *violated*, see below |
| `Scope_drain` | root and 2 tasks, graces 0 and 1 | completed scopes are quiet; draining scopes wait only for cancelled tasks; one deadline per tree; a cancelled or finished root resolves though bodies ignore the cancel, unless tasks go on starting others past the deadline for ever |
| `AsyncIsle_serve` | a sync request that loops until cancelled and a coroutine, a channel of one, 2 handles | nothing but shutdown or a sync panic stops the isle while a handle lives; the thread ends with everything answered; every task resolves, `spawn` and `shutdown` return, the thread ends with its last sender; implements `Service` |
| `Isle_tasks` | 2 requests, one of which loops | an answer is lost only to a panic; a wait, a shutdown and a spawn return once the loops ahead of them, and no others, are cancelled; implements `Service` |
| `Channel_select` | 2 tasks, a rendezvous channel and a second one that is buffered (1 or 2 places) or a ticker's, 6 forms of call, 2 values | what senders are told is what happened (`ReportsAgree`); one offer of a select at most is taken; nothing lost, duplicated or overtaken (`InOrder`); nobody sleeps beside a ready case; a wait on a closed channel or under a cancel ends |
| `TaskLib_handles` | 2 handles, 3 coroutines | unjoined handles find their task; an outcome is told once, as it was; a wait for a cancelled or finished task ends |
| `HostChan_requests` | 2 senders, 2 receivers, 2 values of which one is a request, capacity 1, conversions nested twice | types; no receiver asleep beside a value, or beside the end unless room given back after Lua's close brought it; order; requester and answerer agree |
| `HostSink_room` | 4 sends, capacity 2 | room neither lost nor made; order, and the end behind the last value; a wait with room or on a closed channel ends |
| `VmCalls_checks` | 2 coroutine calls, 1 sync call, 2 recycled threads, deferral limit 2 | a traceback is the failure's own; only roots are yielded; a cancelled call that keeps the thread is interrupted |

Deadlock checking is off throughout: every one of these systems may stop, since
nothing obliges its users to call it again.

### Why the bounds are enough

Three tokens give a chain of two below the root and two branches at once; two
threads give every race of `child_token`, `cancel` and drop on a pair of
tokens, and the lemmas behind the proofs show that no obligation involves more
than a parent, a child and one thread each. One slot with two users gives a
waiter while the slot is lent or on its way back; larger pools (two slots) were
run and add states, not behaviours, and the safety properties are proved for
any size. The collapsing permits of `AsyncIslePool_idle` need four callers (two
returning, two between `try_acquire` and their first poll). One VM name more
than there are slots lets a discarded VM end slowly. Two tasks give a chain or
two siblings; two graces and two ticks give every order of two deadlines.

With two requests and one place one request runs, one is queued and the
driver waits, which is every way in which a full channel, a panic and a
shutdown can meet. In `Isle` two requests are one ahead of the other in every
role; three (1.3 million states) gave nothing new.

Two tasks with two cases each meet in every pair of roles: offer and waiter on
one channel, both directions of one rendezvous channel, a select against
itself, two channels at once. With two values one is delivered while the other
waits behind it. Three coroutines on two handles let one join, one select on
both and one close or drop. Two receivers and one place suffice for a wake-up
that goes to the wrong receiver; two nested conversions for one that answers
the request the outer is answering. Four sends on two places let two convert,
nested, while one waits and one is refused. Two coroutine calls share a thread
one after the other and alternate on two.

### Fairness

- `CancelToken`: a call that has begun goes on, and a notified future is
  polled. Weak fairness is enough for the mutex because only finitely many
  tokens can ever be registered, so it is not taken over and over.
- `IslePool`: strong fairness of each thread's steps, since the mutex is free
  again and again but not always; requests end. Nothing obliges a program to
  drop a guard or to call the pool.
- `AsyncIslePool`: woken futures are polled, spawns and background shutdowns
  progress; for `SleeperWakes` also that guards are dropped sooner or later.
- `Scope`: a future is polled when it is new, when its token is cancelled and
  when its grace ends; a poll returns; an aborted task is dropped; time goes on.
  That a poll returns is a condition of the crate as well: a CPU loop needs
  `Config::preempt_every` (runtime.rs:37-40). Nothing bounds the number of tasks
  in the code, so `RunResolves` has its premise: starts past the deadline
  (`LateStart`) do not go on for ever. The two tasks of the instance have at most
  two such starts, so it shows the property for executions in which the premise holds, which
  is where it says something; such starts do occur in it.
- `AsyncIsle`: the thread runs what it can run, what a coroutine awaits becomes
  ready, spawn's and shutdown's futures are polled, and code that never ends is
  cancelled by its caller unless he dropped the task, whose `Drop` has to do it.
- `Isle`: the thread runs, and a call that waits returns when it can. No cancel
  is fair: `CallsReturn` asks for the cancels it needs in its premise.
- `Channel`, `TaskLib`: the executor polls a woken task. In `Channel` this is
  that a task in the run queue leaves it, since a poll may wake its own task. In
  `TaskLib` also that a cancelled task finishes, which is `RunResolves` of `Scope`
  with its premise: that the coroutine's own tasks stop starting others. `AsyncIsle`
  takes the end of a cancelled coroutine from there as well.
- `HostSink`: woken sends are polled and conversions end. The host owes
  nothing: it may stop receiving for good.
- `VmCalls`: Lua code that goes on reaches its checks, and nothing is said of
  where they land: every check of a call of `Polling` may be one to defer.
- `HostChan` needs none: that nobody sleeps beside a value is stated as an
  invariant, with the host threads that are on their way to wake named in it.

## Disagreements with the documentation

The run marked *violated* checks what a comment says, and TLC prints an
execution of the code that contradicts it.

- `AsyncIslePool_idle` (async_pool.rs:149). Two callers find the pool full and
  are about to poll their `Notified` for the first time; two guards are dropped;
  the two `notify_one` become one stored permit. The first caller consumes it,
  the second registers and sleeps although a VM is idle, until another guard
  is dropped. The doc of `checkout` says that an idle VM is returned immediately.

Met while modelling, kept in the models and excluded by the wording of the
properties rather than shown by a run of their own:

- A `checkout` future dropped while it awaits the spawn of its VM leaves
  `active` incremented (async_pool.rs:154): each one costs the pool a slot for
  good, and `active()` is no longer the number of VMs out (async_pool.rs:224).
  `DropSpawn` has it, and `SleeperWakes` speaks of pools where it did not happen
  (`NoSlotLost`).
- scope.rs:192: the deadline of a tree has passed and its root drains. A task
  that is polled now is still in phase Running, and only the scope that is
  spawned into is asked whether its time is over: the new task starts and gets
  one poll, in which it may do the same. runtime.rs:30-32 says that such a spawn
  starts nothing, and scope.rs:172-177 that the refusal keeps a future that
  spawns its replacement in that poll from prolonging the drain for ever.
  `Scope` has these spawns, and the premise of `RunResolves` (`LateStart` does
  not happen for ever) excludes the chain without end.
- chan.rs:291: the queue is full and a host thread's send waits. Lua receives,
  which assigns the room to that send, closes the channel, and receives again
  before the send was polled: the room is in use, so tokio's `poll_recv` is
  Pending. Then the send gets its error and gives the room back, which wakes
  nobody: the receiver sleeps on a closed, empty channel until the last `Sender`
  is dropped. runtime.rs:113 (and 393 for host channels) says that `recv`
  returns `nil, false` there, and runtime.rs:299 that its case is ready. That
  the return of room wakes no receiver is tokio's behaviour, modelled as
  external. The promise of runtime.rs:413-418, that no receiver sleeps while a
  value is queued, holds: it is in `NoReceiverAsleep`, which excepts the end in
  just this case (`untold`).
- A task that panics is counted as done by its parent at once, while its own
  tasks are only scheduled for abort (scope.rs:242, 312-320), so the root may
  resolve before they are dropped; runtime.rs:25-40 does not list a panic among
  its exceptions. `CompletedIsQuiet` excepts exactly the tasks below a dropped one.
- A Lua task takes the grace the VM has when it is spawned (task_lib.rs:278);
  after `set_config` it may be longer than its parent's, and if the task sees
  the cancel first its deadline is the later one. `OneDeadline` speaks of tasks
  whose grace is no longer than their ancestors'.
- `AsyncIslePool` frees a discarded slot before its VM's thread has ended
  (async_pool.rs:343), so for a while more threads than `max_size` can exist
  (async_pool.rs:18).
- A value that goes back to the front of a rendezvous channel "is received
  next" (runtime.rs:223-225), but a receive that had already been filled by
  another `try_send` gets that value first; `InOrder` asks of a rendezvous
  channel that nothing is lost or duplicated, and order of a buffered one.
- `h:cancel()` and `h:done()` of a joined handle do nothing and return true
  (task_lib.rs:26-32) as soon as a join has begun, also while it still waits or
  after its coroutine was dropped, where the table of runtime.rs:104-106 speaks
  of a request to cancel and of a task that has finished. A join that is
  dropped leaves its task in the registry (task_lib.rs:308); `JoinTellsOutcome`
  and `UnjoinedIsReachable` do not depend on it.
- `Task::try_recv` of a request whose thread panicked returns `None` for ever
  (task.rs); only `wait` reports `RecvFailed`.
- The cancel is "checked every 1000 instructions" (runtime.rs:79-81); with
  callbacks or preemption the step and `cancel_every` are rounded (hub.rs), so
  that it may be close to 2000. The deferral count is one per VM: a call may
  find it partly used up, or reset, by another.
## The proofs

Checked by TLAPS for sets and sizes of any kind allowed by the named
assumptions of the modules: finite sets where cardinalities are compared,
positive sizes, `None` and `Shutdown` not members of the sets they stand beside.
Each module of proofs begins with its inductive invariant `IInv`, has one lemma
per action or group of actions that keeps it, and ends with the theorems. Where a
module holds the proofs of two models (of one kind of actor each: the host's
calls, the tasks, the VM), their names are kept apart: `IsleSpec`, `TaskSpec` and
`VmSpec` stand beside the other model's `Spec`.

`CancelTokenProofs`: types, `ChildrenOwed`, `QuietTreeCancelled`, `NoLostSignal`
and `ListBounded`. `ChildrenOwed` is not inductive: whether a list entry is
alive depends on handles and calls elsewhere. `IInv` adds the shape of the tree
(`ChainInv`: ancestors are closed and acyclic, and the parent is the nearest),
that handles are born tokens, that a flag is set exactly when its canceller has
a stage, that list entries are children (`ListInv`), what each control point
has in its hands (`CallInv`, including that whoever registers a child holds the
parent's mutex), and two facts about who answers for a token: a call is on a
path to every token whose stage is not finished (`TrackInv`), and no two calls
are on the same (`OwnerInv`). The central lemmas (`...RevivesNone`) say that no
step brings a token back to life that was dead before, so an entry skipped as
dead stays dead. `QuietTreeCancelled` then follows along the chain of
ancestors: each live link is owed, and with no call running nothing can be owed.

`IslePoolProofs`: every safety property of `IslePool` (types, `ActiveCounts`,
`ExclusiveOwner`, `ClosedPoolEmpty`, `VmsBounded`, `RefusedOnlyWhenFull`,
`FreeSlotsClaimed`) and `Spec => ImplementsSlotPool`. `ActiveCounts` alone does
not bound the VMs: while a guard's VM is joined under the mutex its slot is
already given back, so `SlotsInv` counts that thread as well (`active + |idle| +
Joining <= MaxSize`), `LockInv` says that there is at most one and that nobody
claims a slot meanwhile, `HeldInv` and `OwnedInv` that a VM's thread exists
exactly as long as it has an owner, and `DrainInv` that only the draining
shutdown sees an idle VM in a closed pool. The counting goes through two effect
lemmas: `CountEffect` (in a step the counted threads and `active` stay, gain one
or lose one together) and `SeekersEffect` (the same for the threads that will
look at a free slot), so that arithmetic and control are never in one
obligation.

`AsyncIslePoolProofs`: types, `ActiveCovers`, `ExclusiveOwner`,
`NobodyAsleepAfterShutdown` and `Spec => ImplementsSlotPool`. Here `active` only
covers what is out (a dropped spawn leaves it too high), which is the direction
that `Release` of `SlotPool` needs: a release never finds it at zero. `BoundInv`
(`active + |idle| <= MaxSize`) gives `Claim`; `SlotInv` and `VmInv` say who has a
VM in its hands and that a thread told to end has no owner but the shutdown that
joins it. That nobody stays asleep in a closed pool rests on `AwakeStep`: no step
behind `notify_waiters` adds a caller to the queue, since whoever is about to
poll has a `Notified` from before it.

`AsyncIsleProofs`: types, `OnePlaceEach`, `EarlierAreServed`, `HandlesAreServed`
and `ShutdownSettlesAll`, for any set of requests of either kind, any capacity
and any number of handles. The channel is spoken of by positions of the log
(`Waits`, `Taken`, `Within`); `Positions` is the lemma that ties them to `queue`.
`PlaceInv` says where each unanswered request is and needs `OnceInv` (nothing is
sent twice, or taking a request would not remove it) and `FreshInv` (a refusal
answers a request nobody has seen). `BusyInv` ties the running job to the
receive loop's state: only a sync job stops the loop. `StopInv` gives the loop's
end one of three reasons, Shutdown taken, a sync panic, or no sender and an
empty channel; the last stays true because no sender comes back
(`NoSenderComesBack`) and without one the log does not grow (`LogGrows`).

`AsyncIsleProofs` also has `Spec => ImplementsService`. Each step is compared with
the steps of `Service` in four groups (`IdlingServes`, `DriverServes` and
`SubmitServes`, `ReceiverServes`, `JobServes`); `QueueAfter` says what a send, a
receive and the receiver's drop do to the channel's content as a sequence.
`ServingInv` is needed beside `IInv`: while the loop serves, no `Shutdown` has been
taken and no sync request has panicked, so that the loop leaves by `TakeStop` or
`Crash`, or else with an empty channel and no sender, which is `Retire`. That
`shutdown` returns with nothing running is `EndInv`: the thread is over only when
the `LocalSet` is drained.

`HostProofs`, of `Isle`: types, `LostOnlyByPanic` and `OnlyDropCancels` (a request nobody
asked to cancel is cancelled exactly if its Task was dropped before its result
was taken). `LiveInv` places each request without an answer: it runs, it is in
the channel, or the thread fell. It survives the drop of the channel in a
graceful end only because `LastInv` says that `Shutdown` is the last message, so
that a thread that took it left nothing behind (`PhaseInv`: closing means an
empty inbox). And `IsleSpec => ImplementsService`, for which `ServeInv` adds that
each message is queued once (`OnceInv`), that a request that runs or waits has no
answer yet and one whose answer was taken has none left in its channel
(`PlaceInv`), and that a panic reported by `shutdown` is the thread's
(`PanicInv`). A Task that is polled, waited for, detached or dropped then leaves
the fate of its request as it is (`TaskStays`): an answer taken stays the answer,
and `RecvFailed` is told only of a request that was lost.

`HostProofs`, of `HostSink`: types, `RoomConserved` and `NothingBehindEnd`. `Lines` says
that the semaphore's queue holds waiting sends, once each and without room, so
that a room given goes to exactly one; `RoomInv` keeps the account while the
host is there and bounds it afterwards; `EndInv` says that behind the end nothing
converts and nothing can start to, which is what makes `NothingBehindEnd`
inductive.

`VmProofs`, of `VmCalls`: types, `TraceIsOwn` and `NoSpuriousYield`. `ThreadInv` (a call
in progress has its thread to itself, and a coroutine resumed by Lua code shares
none) and `TraceInv` (what the table has for the thread of a call in progress
was recorded in that call) make the comparison of the error alone sufficient.

`TaskProofs`, of `TaskLib`: types, `UnjoinedIsReachable`, `JoinTellsOutcome` and
`LeftIsCancelled` (a running task whose unjoined handle was collected is
cancelled). `CallInv` says that no two joins wait for one handle, `ToldInv` that
the outcome of a handle that can still be joined is told nowhere yet and is in
its slot once it is done.

`TaskProofs`, of `Scope`: types, `CompletedIsQuiet`, `DrainCancels` and
`OneDeadline`, for any tasks, graces and depth of the tree. `TreeInv` says that
the ancestors of a scope are closed and acyclic, and that on the way from a scope
to each of its descendants the first step is a child that is in the scope's list
or is done (a child leaves `kids` only then); with `FutInv` (a completed scope's list
has only done tasks) this gives `CompletedIsQuiet` without an induction on the
depth: whatever lives below a completed scope lives below a done child, and if
that child completed, the same holds of it in the state before. `DrainCancels`
needs only that a task added during a drain is cancelled at once. `OneDeadline`
is kept by a clamp since the least deadline of the live ancestors bounds all of
them, and the live ancestors of an ancestor are one's own (`TreeInv`);
`DeadlineInv` says that a deadline comes from a poll, so that a scope that was
never polled cannot be the later one.

`VmProofs`, of `HostChan`: types, `NoReceiverAsleep`, `InOrder` and
`BothSidesAgree`, for any senders, receivers, values and capacity. `SenderInv` and
`PlaceInv` say which host thread has which value in its hands and in which one
place each value sent is (the queue, the place at the front, or taken), so that no
value is answered that is not open. `AwakeInv` is what makes `NoReceiverAsleep`
inductive: a receiver that sleeps is registered in the fan and in the core, and
once its poll has looked behind its registration, what `ToTell` names (a value, or the
end of the channel but for an end brought by room given back since that look) has a
wake-up that is still on its way; a wake-up taken by another
receiver wakes the whole fan. The lemmas named `...Room` and `...Types` keep
the account of the semaphore: who holds room after each step in which it changes
hands, and that queue and holders stay within the capacity. `AnswerInv` says for each state of the answer
channel what each side was told; `BothSidesAgree` is two of its lines.

`ChannelProofs`: types, `OneOfferTaken`, `ReportsAgree`, `NoSleepBesideReady` and
`InOrder`, for any tasks, channels and forms of call, so for selects of any number of cases.
`OfferInv` says that a taken offer has claimed the mark of its select, and a
select whose mark is claimed is passed over (`Pairs`): so at most one is taken.
`OwnInv`, `CaseInv` and `FreshInv` follow the values: those of the calls in
progress are their own, and one of them was accepted exactly if its offer was
taken, which is when the sender may still be told "sent"; `TickInv` keeps the
ticks that are replaced out of this account. `RegisteredInv` says that a task that
sleeps is registered with every case of its call (a waker, a waiter, or an offer).
With it a step need not be compared with every sleeper: `Undisturbed` lists what a
case's readiness depends on, `StillAsleep` is the lemma that whoever is not
disturbed still has nothing ready, and each step has to show only that it wakes
whom it disturbs. The ways a call ends (a choice with a peer's offer or waiter, a
choice from the buffer, a default, a cancel, a drop, a handler that was not
entered) are one step for the invariant: `LeavesCall`, `LeavesTold` and
`LeavesQueue` say what they have in common, `ChooseLeaves` and `EndLeaves` that
they have it, and the `Leaves...` lemmas are about that alone.

`InOrder` needs `ValuesInv` beside `IInv`: a buffered channel accepted what was got
from it followed by what it holds (`FifoInv`); the values of a ticker are pairwise
different (`TicksInv`), so that the tick that is replaced is the last one of the
buffer and of what was accepted, and taking it out of both keeps `FifoInv`; and each
value of a rendezvous channel was accepted as often as it is in the front, in the
slot of a waiter or received (`PlacedInv`). A choice moves one value from one place
to one other, and puts back what was in the slots of the cases it leaves; whether
a value goes from a slot to the front or from a peer's offer to a receiver, the
cardinalities and counts of `PlacedInv` have the same sum before and after. `Keep` is a
recursive function: `KeptUpTo` says what its elements are, and `KeptFacts`,
`KeptOnce` and `KeptAll` follow by the least index at which they would fail.

Only model-checked: every liveness property and what rests on fairness, since
`ENABLED` is out of the prover's reach. Every invariant and every refinement that
a passing run checks is proved.
What is proved and not also run
(the types of most modules, `ListBounded`, `RefusedOnlyWhenFull`, `ChildrenOwed`, `FreeSlotsClaimed`,
`OnePlaceEach`, `OnlyDropCancels` and the like) is stated in the modules beside
the properties of the runs.

## What is left out

- Poisoned locks: no code of the crate panics while it holds a mutex of these
  modules.
- Memory orderings: the flag is swapped and read with orderings at least as
  strong as the interleaving model needs, since every decision that depends on
  it is made under the children mutex or repeated after `enable`.
- What requests and tasks return, the rendering of errors and tracebacks, and
  everything Lua that the models above do not name.
- `runtime::Vm` (runtime.rs, lib.rs): a layer without state of its own; most of
  the file is the documentation of the task library, and its contracts are
  stated as properties of the modules that implement them.
- Of the hub, the counting of instructions, the triggers of callbacks and the
  re-installation of a replaced hook: arithmetic that no other part reads.
- Of `AsyncIsle`, function handles (`IsleFunction` and its registry key): only
  the refusal of a foreign one is modelled. Of the channel library, the checks
  of arguments (`read_cases`, the capacity).
- A select over cases of several families: `Channel` mixes channels and timers,
  `TaskLib` has task cases beside "another case" (`Abandon`), `HostChan` and
  `HostSink` have host cases beside the same. The four share `SelectFuture`, which
  treats every case through the same five operations of `Arm`; their product is
  out of TLC's reach.
- `Abandon`ed spawns of a VM: its thread ends on its own when its senders are
  gone, which is the state `ending`.
- Conversions, clocks and tokio's runtime are modelled by what their users see
  of them; tokio's `Notify`, mpsc and semaphore are external.

### What could come next

Liveness by refinement: `Service` under fairness (an accepted request gets its fate
once what is ahead of it ends), with `CallsReturn` and `WaitsEnd` as consequences; a
`select` whose cases are of several families, if its product can be made small
enough for TLC.
