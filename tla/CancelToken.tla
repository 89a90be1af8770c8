----------------------------- MODULE CancelToken -----------------------------
(***************************************************************************)
(* The cancellation tokens of hook.rs: a tree of shared flags, cancelled   *)
(* from any thread while other threads derive children, drop handles and   *)
(* await cancellation.                                                     *)
(*                                                                         *)
(* A token is alive while a handle to it, or to one of its descendants,    *)
(* exists (a child holds its parent strongly, a parent holds its children  *)
(* weakly), or while a canceller has upgraded it.  Inner::cancel recurses  *)
(* from a token into its children; since only the caller that wins the     *)
(* swap of a flag goes on, the frame of that call is a state of the token  *)
(* (stage, pending), and a thread only needs the token its call started at *)
(* (top) and the one it has reached (cur).                                 *)
(***************************************************************************)
EXTENDS Naturals, FiniteSets

CONSTANTS
  Tokens,    \* tokens the program may ever create
  Roots,     \* those CancelToken::new makes; child_token makes the others
  Threads,   \* threads calling cancel() and child_token()
  Waiters,   \* futures of cancelled()
  SweepMin,  \* least length at which dead children are swept (16 in the code)
  None       \* no token, no thread

ASSUME SweepMinAssumption == SweepMin \in Nat \ {0}
ASSUME TokensFinite == IsFiniteSet(Tokens)
ASSUME RootsAssumption == Roots \subseteq Tokens
ASSUME NoneAssumption == None \notin Tokens /\ None \notin Threads

VARIABLES
  parent,    \* token -> the token it was derived from
  anc,       \* token -> itself and the chain of parents it keeps alive; {} before it exists
  flag,      \* tokens whose AtomicBool is set
  handles,   \* tokens the program holds a CancelToken of
  kids,      \* token -> Children.list (weak references)
  sweepAt,   \* token -> Children.sweep_at
  lock,      \* token -> thread inside child_token holding the children mutex
  stage,     \* token -> how far the Inner::cancel that won its flag has come
  pending,   \* token -> children that call has yet to visit
  pc,        \* thread -> what it is executing
  top,       \* thread -> the token its call was made on
  cur,       \* thread -> the token its innermost Inner::cancel is about
  wpc,       \* waiter -> where its cancelled() future is
  wtok,      \* waiter -> the token awaited
  signalled  \* waiters whose Notified has been notified

tokenVars == <<parent, anc, handles>>
listVars  == <<kids, sweepAt, lock>>
callVars  == <<pc, top, cur>>
waitVars  == <<wpc, wtok, signalled>>
vars == <<tokenVars, flag, listVars, stage, pending, callVars, waitVars>>

Stages   == {"none", "notify", "take", "iter", "done"}
ThreadPc == {"idle", "swap", "cancel", "register"}
WaiterPc == {"off", "create", "enable", "recheck", "wait"}

TypeOK ==
  /\ parent \in [Tokens -> Tokens \cup {None}]
  /\ anc \in [Tokens -> SUBSET Tokens]
  /\ flag \subseteq Tokens
  /\ handles \subseteq Tokens
  /\ kids \in [Tokens -> SUBSET Tokens]
  /\ sweepAt \in [Tokens -> Nat]
  /\ lock \in [Tokens -> Threads \cup {None}]
  /\ stage \in [Tokens -> Stages]
  /\ pending \in [Tokens -> SUBSET Tokens]
  /\ pc \in [Threads -> ThreadPc]
  /\ top \in [Threads -> Tokens \cup {None}]
  /\ cur \in [Threads -> Tokens \cup {None}]
  /\ wpc \in [Waiters -> WaiterPc]
  /\ wtok \in [Waiters -> Tokens \cup {None}]
  /\ signalled \subseteq Waiters

Init ==
  /\ parent = [t \in Tokens |-> None]
  /\ anc = [t \in Tokens |-> {}]
  /\ flag = {}
  /\ handles = {}
  /\ kids = [t \in Tokens |-> {}]
  /\ sweepAt = [t \in Tokens |-> 0]
  /\ lock = [t \in Tokens |-> None]
  /\ stage = [t \in Tokens |-> "none"]
  /\ pending = [t \in Tokens |-> {}]
  /\ pc = [th \in Threads |-> "idle"]
  /\ top = [th \in Threads |-> None]
  /\ cur = [th \in Threads |-> None]
  /\ wpc = [w \in Waiters |-> "off"]
  /\ wtok = [w \in Waiters |-> None]
  /\ signalled = {}

------------------------------------------------------------------------------
(* Reference counting: strong references are the program's handles and the *)
(* tokens a running call holds; each keeps its chain of parents.           *)

Busy == {th \in Threads : pc[th] # "idle"}
Referenced == handles \cup {cur[th] : th \in Busy}
AliveWithoutChain(t) == t \in Referenced  \* mutant: a child does not hold its parent
Alive(t) == \E r \in Referenced : t \in anc[r]
Unborn(t) == anc[t] = {}

(* A handle that a call or a future borrows cannot be dropped. *)
Borrowed(t) ==
  \/ \E th \in Busy : top[th] = t
  \/ \E w \in Waiters : wpc[w] # "off" /\ wtok[w] = t

New(t) ==
  /\ t \in Roots
  /\ Unborn(t)
  /\ anc' = [anc EXCEPT ![t] = {t}]
  /\ handles' = handles \cup {t}
  /\ UNCHANGED <<parent, flag, listVars, stage, pending, callVars, waitVars>>

Drop(t) ==
  /\ t \in handles
  /\ ~Borrowed(t)
  /\ handles' = handles \ {t}
  /\ UNCHANGED <<parent, anc, flag, listVars, stage, pending, callVars, waitVars>>

------------------------------------------------------------------------------
(* Inner::cancel *)

CancelCall(th, t) ==
  /\ pc[th] = "idle"
  /\ t \in handles
  /\ pc' = [pc EXCEPT ![th] = "swap"]
  /\ top' = [top EXCEPT ![th] = t]
  /\ cur' = [cur EXCEPT ![th] = t]
  /\ UNCHANGED <<tokenVars, flag, listVars, stage, pending, waitVars>>

Finish(th) ==
  /\ pc' = [pc EXCEPT ![th] = "idle"]
  /\ top' = [top EXCEPT ![th] = None]
  /\ cur' = [cur EXCEPT ![th] = None]

(* The innermost Inner::cancel of th returns: to the loop over the         *)
(* children of the parent, or out of the call.  A child_token() that found *)
(* its parent cancelled hands the child out only here.                     *)
ReturnFromCancel(th) ==
  IF cur[th] = top[th]
  THEN /\ handles' = handles \cup {top[th]}
       /\ Finish(th)
  ELSE /\ pc' = [pc EXCEPT ![th] = "cancel"]
       /\ cur' = [cur EXCEPT ![th] = parent[cur[th]]]
       /\ UNCHANGED <<top, handles>>

SwapFlag(th) ==
  /\ pc[th] = "swap"
  /\ \/ /\ cur[th] \in flag
        /\ ReturnFromCancel(th)
        /\ UNCHANGED <<flag, stage>>
     \/ /\ cur[th] \notin flag
        /\ flag' = flag \cup {cur[th]}
        /\ stage' = [stage EXCEPT ![cur[th]] = "notify"]
        /\ pc' = [pc EXCEPT ![th] = "cancel"]
        /\ UNCHANGED <<top, cur, handles>>
  /\ UNCHANGED <<parent, anc, listVars, pending, waitVars>>

(* Notify::notify_waiters reaches every Notified created before it. *)
Notified(t) == {w \in Waiters : wtok[w] = t /\ wpc[w] \in {"enable", "recheck", "wait"}}

NotifyWaiters(th) ==
  /\ pc[th] = "cancel"
  /\ stage[cur[th]] = "notify"
  /\ signalled' = signalled \cup Notified(cur[th])
  /\ stage' = [stage EXCEPT ![cur[th]] = "take"]
  /\ UNCHANGED <<tokenVars, flag, listVars, pending, callVars, wpc, wtok>>

TakeChildren(th) ==
  /\ pc[th] = "cancel"
  /\ stage[cur[th]] = "take"
  /\ lock[cur[th]] = None
  /\ pending' = [pending EXCEPT ![cur[th]] = kids[cur[th]]]
  /\ kids' = [kids EXCEPT ![cur[th]] = {}]
  /\ stage' = [stage EXCEPT ![cur[th]] = "iter"]
  /\ UNCHANGED <<tokenVars, flag, sweepAt, lock, callVars, waitVars>>

NextChild(th) ==
  /\ pc[th] = "cancel"
  /\ stage[cur[th]] = "iter"
  /\ \E c \in pending[cur[th]] :
       /\ pending' = [pending EXCEPT ![cur[th]] = @ \ {c}]
       /\ \/ /\ Alive(c)
             /\ pc' = [pc EXCEPT ![th] = "swap"]
             /\ cur' = [cur EXCEPT ![th] = c]
          \/ /\ ~Alive(c)
             /\ UNCHANGED <<pc, cur>>
  /\ UNCHANGED <<tokenVars, flag, listVars, stage, top, waitVars>>

CancelDone(th) ==
  /\ pc[th] = "cancel"
  /\ stage[cur[th]] = "iter"
  /\ pending[cur[th]] = {}
  /\ stage' = [stage EXCEPT ![cur[th]] = "done"]
  /\ ReturnFromCancel(th)
  /\ UNCHANGED <<parent, anc, flag, listVars, pending, waitVars>>

------------------------------------------------------------------------------
(* child_token: the flag is read with the children mutex held; the push,   *)
(* after other threads may have run, still is.                             *)

(* mutant: the flag is not read under the lock *)
ChildTokenUnchecked(th, p, c) ==
  /\ pc[th] = "idle" /\ p \in handles /\ c \notin Roots /\ Unborn(c) /\ lock[p] = None
  /\ anc' = [anc EXCEPT ![c] = {c} \cup anc[p]]
  /\ parent' = [parent EXCEPT ![c] = p]
  /\ cur' = [cur EXCEPT ![th] = c]
  /\ pc' = [pc EXCEPT ![th] = "register"]
  /\ top' = [top EXCEPT ![th] = p]
  /\ lock' = [lock EXCEPT ![p] = th]
  /\ UNCHANGED <<flag, handles, kids, sweepAt, stage, pending, waitVars>>

ChildToken(th, p, c) ==
  /\ pc[th] = "idle"
  /\ p \in handles
  /\ c \notin Roots
  /\ Unborn(c)
  /\ lock[p] = None
  /\ anc' = [anc EXCEPT ![c] = {c} \cup anc[p]]
  /\ parent' = [parent EXCEPT ![c] = p]
  /\ cur' = [cur EXCEPT ![th] = c]
  /\ \/ /\ p \in flag
        /\ pc' = [pc EXCEPT ![th] = "swap"]
        /\ top' = [top EXCEPT ![th] = c]
        /\ UNCHANGED lock
     \/ /\ p \notin flag
        /\ pc' = [pc EXCEPT ![th] = "register"]
        /\ top' = [top EXCEPT ![th] = p]
        /\ lock' = [lock EXCEPT ![p] = th]
  /\ UNCHANGED <<flag, handles, kids, sweepAt, stage, pending, waitVars>>

LiveKids(p) == {k \in kids[p] : Alive(k)}
AtLeast(m, n) == IF m >= n THEN m ELSE n

RegisterChild(th) ==
  LET p == top[th]  c == cur[th] IN
  /\ pc[th] = "register"
  /\ \/ /\ Cardinality(kids[p]) >= sweepAt[p]
        /\ kids' = [kids EXCEPT ![p] = LiveKids(p) \cup {c}]
        /\ sweepAt' = [sweepAt EXCEPT ![p] = AtLeast(2 * Cardinality(LiveKids(p)), SweepMin)]
     \/ /\ Cardinality(kids[p]) < sweepAt[p]
        /\ kids' = [kids EXCEPT ![p] = @ \cup {c}]
        /\ UNCHANGED sweepAt
  /\ lock' = [lock EXCEPT ![p] = None]
  /\ handles' = handles \cup {c}
  /\ Finish(th)
  /\ UNCHANGED <<parent, anc, flag, stage, pending, waitVars>>

------------------------------------------------------------------------------
(* cancelled(): check, create the Notified, enable it, check again, await. *)

BeginWait(w, t) ==
  /\ wpc[w] = "off"
  /\ t \in handles
  /\ t \notin flag
  /\ wpc' = [wpc EXCEPT ![w] = "create"]
  /\ wtok' = [wtok EXCEPT ![w] = t]
  /\ UNCHANGED <<tokenVars, flag, listVars, stage, pending, callVars, signalled>>

WaiterStep(w, from, to) ==
  /\ wpc[w] = from
  /\ wpc' = [wpc EXCEPT ![w] = to]
  /\ UNCHANGED <<tokenVars, flag, listVars, stage, pending, callVars, wtok, signalled>>

(* The future resolves, or is dropped, and its Notified with it. *)
EndWait(w, from) ==
  /\ wpc[w] = from
  /\ wpc' = [wpc EXCEPT ![w] = "off"]
  /\ wtok' = [wtok EXCEPT ![w] = None]
  /\ signalled' = signalled \ {w}
  /\ UNCHANGED <<tokenVars, flag, listVars, stage, pending, callVars>>

CreateNotified(w) == WaiterStep(w, "create", "enable")
Enable(w) == WaiterStep(w, "enable", "recheck")

RecheckSkipped(w) == WaiterStep(w, "recheck", "wait")  \* mutant: no second check
Recheck(w) ==
  \/ wtok[w] \in flag /\ EndWait(w, "recheck")
  \/ wtok[w] \notin flag /\ WaiterStep(w, "recheck", "wait")

Wake(w) == w \in signalled /\ EndWait(w, "wait")

(* The future is dropped at its only await point (a select took another    *)
(* branch).                                                                *)
Abandon(w) == EndWait(w, "wait")

------------------------------------------------------------------------------
CancelStep(th) ==
  \/ SwapFlag(th) \/ NotifyWaiters(th) \/ TakeChildren(th)
  \/ NextChild(th) \/ CancelDone(th) \/ RegisterChild(th)

WaitStep(w) == CreateNotified(w) \/ Enable(w) \/ Recheck(w) \/ Wake(w)

Next ==
  \/ \E t \in Tokens : New(t) \/ Drop(t)
  \/ \E th \in Threads : CancelStep(th)
  \/ \E th \in Threads, t \in Tokens : CancelCall(th, t)
  \/ \E th \in Threads, p, c \in Tokens : ChildToken(th, p, c)
  \/ \E w \in Waiters : WaitStep(w) \/ Abandon(w)
  \/ \E w \in Waiters, t \in Tokens : BeginWait(w, t)

Spec == Init /\ [][Next]_vars

(* A call that has begun runs on, and a woken future is polled; the        *)
(* program owes no further call.                                           *)
Fairness ==
  /\ \A th \in Threads : WF_vars(CancelStep(th))
  /\ \A w \in Waiters : WF_vars(WaitStep(w))

FairSpec == Spec /\ Fairness

------------------------------------------------------------------------------
(* A cancelled token answers for each of its live children that is not     *)
(* cancelled yet: the call that won its flag has not taken the list the    *)
(* child is in, has the child ahead of it, or is about to cancel it.  A    *)
(* child between child_token's check and its push belongs to the holder    *)
(* of the lock (hook.rs:73-83, 105-121).                                   *)
Owed(p, c) ==
  \/ stage[p] \in {"notify", "take"} /\ c \in kids[p]
  \/ stage[p] = "iter" /\ c \in pending[p]
  \/ \E th \in Threads : pc[th] = "swap" /\ cur[th] = c
  \/ stage[p] \in {"notify", "take"}
       /\ \E th \in Threads : pc[th] = "register" /\ cur[th] = c

ChildrenOwed ==
  \A c \in Tokens : \A p \in Tokens :
    parent[c] = p /\ Alive(c) /\ p \in flag /\ c \notin flag => Owed(p, c)

(* When no call is running, no live token is left uncancelled under a      *)
(* cancelled ancestor, even one whose intermediate handles were dropped    *)
(* (hook.rs:36-40).                                                        *)
QuietTreeCancelled ==
  Busy = {} => \A c \in Tokens : Alive(c) /\ anc[c] \cap flag # {} => c \in flag

(* A waiter asleep on a cancelled token has been notified, or the call     *)
(* that cancelled the token has still to notify (hook.rs:143-166).         *)
NoLostSignal ==
  \A w \in Waiters :
    wpc[w] = "wait" /\ wtok[w] \in flag => w \in signalled \/ stage[wtok[w]] = "notify"

(* The list of children, dead ones included, never outgrows the threshold  *)
(* the last sweep set: twice the children then alive, or SweepMin          *)
(* (hook.rs:114-118).                                                      *)
ListBounded == \A p \in Tokens : Cardinality(kids[p]) <= sweepAt[p]

(* A cancel reaches every descendant that stays alive, and every future    *)
(* that awaits a cancelled token resolves (hook.rs:36-40, 138).            *)
CancelReachesAll ==
  /\ \A p, c \in Tokens : (p \in flag /\ p \in anc[c]) ~> (c \in flag \/ ~Alive(c))
  /\ \A w \in Waiters, t \in Tokens :
       (wpc[w] = "wait" /\ wtok[w] = t /\ t \in flag) ~> (wpc[w] = "off")

==============================================================================
