------------------------------ MODULE Channel ------------------------------
(***************************************************************************)
(* The local channels of the task library (chan.rs) and the selects that   *)
(* wait on them (select.rs): buffered channels, rendezvous channels (of    *)
(* capacity 0), tickers, and the calls that tasks make on them.  A plain   *)
(* send or recv is a select of one case.  Everything runs on the VM thread,*)
(* so an action is one poll of a call, one call that does not wait, or the *)
(* drop of a call; what interleaves are the polls of different tasks.      *)
(*                                                                         *)
(* A task has at most one call.  The case i of the call of t is <<t, i>>:  *)
(* the name of its offer or of its waiter, whichever it has.  Values are   *)
(* numbered in the order in which they are asked to be sent.               *)
(***************************************************************************)
EXTENDS Naturals, FiniteSets, Sequences, SequencesExt

CONSTANTS Chans,      \* the channels
          Makes,      \* how they may have been created: [Chans -> [cap, ticker]]
          Tasks,      \* the coroutines
          Calls,      \* what a task may call: its cases and how it waits
          MaxValues,  \* bound: values ever sent
          None

CaseKinds == {"recv", "send", "timer"}

ASSUME MakesAssumption ==
  \A m \in Makes : m \in [Chans -> [cap : Nat, ticker : BOOLEAN]] /\ \A c \in Chans : m[c].ticker => m[c].cap = 1
ASSUME CallsAssumption ==
  \A k \in Calls : /\ k.cases \in Seq([kind : CaseKinds, ch : Chans]) /\ k.cases # <<>>
                   /\ k.default \in BOOLEAN /\ k.handler \in BOOLEAN
ASSUME MaxValuesAssumption == MaxValues \in Nat

VARIABLES
  made,        \* task.channel(cap), or task.ticker with capacity 1
  buf,         \* [Chans -> Seq(Values)]: ChanCore::buf
  closed,      \* [Chans -> BOOLEAN]
  recvWakers,  \* [Chans -> SUBSET Tasks]: registered receivers of a buffered channel
  sendWakers,  \* [Chans -> SUBSET Tasks]
  offers,      \* [Chans -> Seq(CaseIds)]: the open offers
  waiters,     \* [Chans -> Seq(CaseIds)]: the receivers waiting on a rendezvous channel
  slot,        \* [CaseIds -> Values or None]: what try_send put in a waiter
  offer,       \* [CaseIds -> OfferStates]: the case's offer
  call,        \* [Tasks -> the call in progress or None]
  mark,        \* [Tasks -> BOOLEAN]: the SelectMark of the call is claimed
  due,         \* tasks whose timer has expired
  woken,       \* tasks the executor will poll
  cancelled,   \* tasks whose token is cancelled
  next,        \* the next value
  told,        \* [Values -> what the sender was told]
  accepted,    \* [Chans -> Seq(Values)]: the sends completed, in order
  got          \* [Chans -> Seq(Values)]: the values handed over, in order

chanVars == <<made, buf, closed, recvWakers, sendWakers, offers, waiters>>
callVars == <<slot, offer, call, mark, due, woken, cancelled>>
ghosts == <<next, told, accepted, got>>
vars == <<chanVars, callVars, ghosts>>

Values == 1..MaxValues
MaxCases == Max({Len(k.cases) : k \in Calls})
CaseIds == Tasks \X (1..MaxCases)
OfferStates == {"none", "open", "taken", "withdrawn"}
ASSUME MaxCasesAssumption == MaxCases \in Nat /\ \A k \in Calls : Len(k.cases) <= MaxCases

Busy == {t \in Tasks : call[t] # None}
Room(c) == made[c].cap
Rendezvous(c) == Room(c) = 0
Ticker(c) == made[c].ticker
CasesOf(k) == DOMAIN k.cases
IsCase(k, i, kind, c) == k.cases[i].kind = kind /\ k.cases[i].ch = c
Sends(k) == {i \in CasesOf(k) : k.cases[i].kind = "send"}
Timed(k) == \E i \in CasesOf(k) : k.cases[i].kind = "timer"

\* A call of a form, polled from the case start on, that sends the values from first on.
CallOf(form, start, first) ==
  [cases |-> form.cases, default |-> form.default, handler |-> form.handler, start |-> start,
   vals |-> [i \in CasesOf(form) |-> first + Cardinality({j \in Sends(form) : j < i})]]

ASSUME NoneAssumption ==
  /\ None \notin Values \cup CaseIds
  /\ \A form \in Calls : \A start \in CasesOf(form), first \in 1..(MaxValues + 1) :
       CallOf(form, start, first) # None

\* The members of S in seq, in their order.
Keep(seq, S) ==
  LET kept[n \in 0..Len(seq)] ==
        IF n = 0 THEN <<>>
        ELSE IF seq[n] \in S THEN Append(kept[n - 1], seq[n]) ELSE kept[n - 1]
  IN kept[Len(seq)]

\* A call in progress is one that may wait.
Waiting(k) ==
  \E form \in Calls : \E start \in CasesOf(form), first \in 1..(MaxValues + 1) :
    /\ k = CallOf(form, start, first) /\ ~form.default
    /\ \A i \in Sends(k) : k.vals[i] < next /\ ~Ticker(k.cases[i].ch)

TypeOK ==
  /\ made \in Makes
  /\ buf \in [Chans -> Seq(Values)] /\ accepted \in [Chans -> Seq(Values)]
  /\ got \in [Chans -> Seq(Values)] /\ closed \in [Chans -> BOOLEAN]
  /\ recvWakers \in [Chans -> SUBSET Tasks] /\ sendWakers \in [Chans -> SUBSET Tasks]
  /\ offers \in [Chans -> Seq(CaseIds)] /\ waiters \in [Chans -> Seq(CaseIds)]
  /\ slot \in [CaseIds -> Values \cup {None}] /\ offer \in [CaseIds -> OfferStates]
  /\ mark \in [Tasks -> BOOLEAN] /\ woken \subseteq Busy /\ cancelled \subseteq Busy /\ due \subseteq Busy
  /\ next \in 1..(MaxValues + 1) /\ told \in [Values -> {"nothing", "sent", "failed"}]
  /\ call = [t \in Tasks |-> call[t]] /\ \A t \in Busy : Waiting(call[t])
  /\ \A c \in Chans : ~Rendezvous(c) => Len(buf[c]) <= Room(c) /\ offers[c] = <<>> /\ waiters[c] = <<>>
  /\ \A c \in Chans : \A o \in Range(offers[c]) :
       offer[o] = "open" /\ call[o[1]] # None /\ IsCase(call[o[1]], o[2], "send", c)
  /\ \A c \in Chans : \A w \in Range(waiters[c]) :
       call[w[1]] # None /\ IsCase(call[w[1]], w[2], "recv", c)

Init ==
  /\ made \in Makes
  /\ buf = [c \in Chans |-> <<>>] /\ accepted = buf /\ got = buf
  /\ offers = buf /\ waiters = buf
  /\ closed = [c \in Chans |-> FALSE]
  /\ recvWakers = [c \in Chans |-> {}] /\ sendWakers = recvWakers
  /\ slot = [a \in CaseIds |-> None] /\ offer = [a \in CaseIds |-> "none"]
  /\ call = [t \in Tasks |-> None] /\ mark = [t \in Tasks |-> FALSE]
  /\ due = {} /\ woken = {} /\ cancelled = {}
  /\ next = 1 /\ told = [v \in Values |-> "nothing"]

(***************************************************************************)
(* Pairing.  The mark of a select that already has its case, or that is    *)
(* the caller's own, is passed over.                                       *)
(***************************************************************************)
\* mutant: the mark of a select is not looked at
PairsUnmarked(t, a) == a[1] # t
Pairs(t, a) == ~mark[a[1]] /\ a[1] # t
\* The offers a receive of t (None: try_recv) may take, in the order they were posted.
Takeable(t, c) == Keep(offers[c], {o \in CaseIds : Pairs(t, o)})
\* The waiters a send of t (None: try_send) may fill, in arrival order.
Fillable(t, c) == Keep(waiters[c], {w \in CaseIds : slot[w] = None /\ Pairs(t, w)})

\* receiver_wakers: whom a value at the front, an offer or the close wakes.
Receivers(c) == recvWakers[c] \cup {w[1] : w \in Range(waiters[c])}

ValueOf(k, i) == k.vals[i]

\* A value at the front, or for a waiter of a rendezvous channel in its slot or on offer.
RecvReady(t, i, c) ==
  \/ closed[c] \/ buf[c] # <<>>
  \/ Rendezvous(c) /\ (slot[<<t, i>>] # None \/ Takeable(t, c) # <<>>)

\* A send into a buffered channel is over when there is room, or when it is closed.
RoomIn(c) == closed[c] \/ Len(buf[c]) < Room(c)

\* One into a rendezvous channel, when its offer was taken or withdrawn by the close; a send
\* that may not wait posts none and needs a waiter to fill.
SendReady(t, i, c, default) ==
  IF ~Rendezvous(c) THEN RoomIn(c)
  ELSE \/ offer[<<t, i>>] \in {"taken", "withdrawn"}
       \/ offer[<<t, i>>] = "none" /\ (closed[c] \/ (default /\ Fillable(t, c) # <<>>))

Ready(t, k, i) ==
  LET c == k.cases[i].ch IN
  CASE k.cases[i].kind = "timer" -> t \in due
    [] k.cases[i].kind = "recv"  -> RecvReady(t, i, c)
    [] k.cases[i].kind = "send"  -> SendReady(t, i, c, k.default)

\* Where a receive that is ready finds its value: Receiving::poll looks in its slot,
\* then in the buffer, then among the offers, and then at the close.
RecvFrom(t, k, i) ==
  LET c == k.cases[i].ch IN
  CASE slot[<<t, i>>] # None -> "slot"
    [] slot[<<t, i>>] = None /\ buf[c] # <<>> -> "buf"
    [] slot[<<t, i>>] = None /\ buf[c] = <<>> /\ Takeable(t, c) # <<>> -> "offer"
    [] OTHER -> "closed"

ValueAt(t, k, i, from) ==
  LET c == k.cases[i].ch IN
  CASE from = "slot" -> slot[<<t, i>>]
    [] from = "buf" -> Head(buf[c])
    [] from = "offer" -> LET o == Head(Takeable(t, c)) IN ValueOf(call[o[1]], o[2])
    [] from = "closed" -> None

(***************************************************************************)
(* SelectFuture: its cases are polled from a start position on, and the    *)
(* first that is ready is chosen; a delivered send comes before any poll.  *)
(***************************************************************************)
Order(k) == [j \in CasesOf(k) |-> ((k.start + j - 2) % Len(k.cases)) + 1]
ReadyAt(t, k) == {j \in CasesOf(k) : Ready(t, k, Order(k)[j])}
\* mutant: a taken offer is not looked for
DeliveredNone(t, k) == {}
DeliveredCases(t, k) == {i \in CasesOf(k) : offer[<<t, i>>] = "taken"}

\* A send polled without its offer posts one, unless it may not wait.
Posts(t, k, i) == /\ k.cases[i].kind = "send" /\ Rendezvous(k.cases[i].ch)
                  /\ offer[<<t, i>>] = "none" /\ ~k.default
Waits(t, k, i) == /\ k.cases[i].kind = "recv" /\ Rendezvous(k.cases[i].ch) /\ ~k.default
                  /\ <<t, i>> \notin Range(waiters[k.cases[i].ch])
PostedOn(t, k, polled) == {k.cases[i].ch : i \in {i \in polled : Posts(t, k, i)}}
\* Whether a poll that does not end leaves t waiting on a buffered channel.
Registers(k, polled, kind, c) == ~Rendezvous(c) /\ \E i \in polled : IsCase(k, i, kind, c) /\ ~k.default

Without(t, ids) == Keep(ids, {a \in CaseIds : a[1] # t})

\* mutant: the senders whose offers were taken or withdrawn are not woken
WakeLists(rs, ss, ts) == (UNION {Receivers(c) : c \in rs}) \cup (UNION {sendWakers[c] : c \in ss})
\* The wake-ups of one step: the receivers of the channels rs, the senders of ss, and ts.
WakeAll(rs, ss, ts) == (UNION {Receivers(c) : c \in rs}) \cup (UNION {sendWakers[c] : c \in ss}) \cup ts

\* mutant: a receive that waits on a buffered channel does not register
RegisteredSenders(t, k, polled, rs, ss) ==
  /\ UNCHANGED recvWakers
  /\ sendWakers' = [c \in Chans |->
       IF c \in ss THEN {} ELSE sendWakers[c] \cup {u \in {t} : Registers(k, polled, "send", c)}]
Registered(t, k, polled, rs, ss) ==
  /\ recvWakers' = [c \in Chans |->
       IF c \in rs THEN {} ELSE recvWakers[c] \cup {u \in {t} : Registers(k, polled, "recv", c)}]
  /\ sendWakers' = [c \in Chans |->
       IF c \in ss THEN {} ELSE sendWakers[c] \cup {u \in {t} : Registers(k, polled, "send", c)}]

\* The values that try_send left in the waiters of the cases is, as their withdrawal puts
\* them in front: the last case's first.
GivenBack(t, k, is, c) ==
  LET last == Len(k.cases)
      full == {i \in is : IsCase(k, i, "recv", c) /\ slot[<<t, i>>] # None}
      ids  == Keep([j \in CasesOf(k) |-> last + 1 - j], full)
  IN [j \in DOMAIN ids |-> slot[<<t, ids[j]>>]]

\* mutant: the value goes to the back of the channel
PutBehind(vs, seq) == seq \o vs
\* unrecv: a received value that was not handed over goes back to the front.
PutBack(vs, seq) == vs \o seq

\* The call of t is over: its offers and waiters leave the channels.  The offer taken and
\* the waiter filled in the same step, if any, are of other tasks.
Leave(t, taken, filled, v) ==
  /\ call' = [call EXCEPT ![t] = None]
  /\ mark' = [u \in Tasks |-> u # t /\ (mark[u] \/ (taken # None /\ u = taken[1]))]
  /\ slot' = [a \in CaseIds |-> IF a[1] = t THEN None ELSE IF a = filled THEN v ELSE slot[a]]
  /\ offer' = [a \in CaseIds |->
       IF a[1] = t THEN "none" ELSE IF a = taken THEN "taken" ELSE offer[a]]
  /\ offers' = [c \in Chans |-> Keep(Without(t, offers[c]), CaseIds \ {taken})]
  /\ waiters' = [c \in Chans |-> Without(t, waiters[c])]
  /\ due' = due \ {t} /\ cancelled' = cancelled \ {t}

\* What the sender of each value of the call is told: what[i] of the case i.
Tell(k, what) ==
  told' = [v \in Values |-> IF \E i \in Sends(k) : ValueOf(k, i) = v
                            THEN what[CHOOSE i \in Sends(k) : ValueOf(k, i) = v] ELSE told[v]]

\* The case i, chosen: a send whose value is still its own pushes it or fills a waiter with
\* it; a receive takes the value from where it is.
Opens(t, k, i) == k.cases[i].kind = "send" /\ offer[<<t, i>>] = "none" /\ ~closed[k.cases[i].ch]
From(t, k, i) == IF k.cases[i].kind = "recv" THEN RecvFrom(t, k, i) ELSE "nowhere"
Moved(t, k, i) == IF k.cases[i].kind = "recv" THEN ValueAt(t, k, i, From(t, k, i))
                  ELSE IF Opens(t, k, i) THEN ValueOf(k, i) ELSE None
TakenOffer(t, k, i) == IF From(t, k, i) = "offer" THEN Head(Takeable(t, k.cases[i].ch)) ELSE None
FilledWaiter(t, k, i) == IF Opens(t, k, i) /\ Rendezvous(k.cases[i].ch)
                         THEN Head(Fillable(t, k.cases[i].ch)) ELSE None

\* The case i is chosen after the cases polled were found not ready.  raised: the handler was
\* not entered (the cancel hook raised before it), so Arm::untake gives the value back.
Choose(t, k, i, polled, raised) ==
  LET kind == k.cases[i].kind
      c    == k.cases[i].ch
      from == From(t, k, i)
      open == Opens(t, k, i)
      push == open /\ ~Rendezvous(c)
      v    == Moved(t, k, i)
      back == kind = "recv" /\ v # None /\ raised
      taken  == TakenOffer(t, k, i)
      filled == FilledWaiter(t, k, i)
      others == CasesOf(k) \ {i}
      given  == {d \in Chans : GivenBack(t, k, others, d) # <<>>}
      rs == PostedOn(t, k, polled) \cup given \cup {d \in {c} : push \/ back}
      ss == {d \in {c} : from = "buf" /\ ~Rendezvous(c)}
  IN /\ raised => k.handler
     /\ Leave(t, taken, filled, v)
     /\ Registered(t, k, polled, rs, ss)
     /\ woken' = ((woken \cup WakeAll(rs, ss, {a[1] : a \in {taken, filled} \ {None}})) \cap Busy) \ {t}
     /\ buf' = [d \in Chans |->
          PutBack((IF d = c /\ back THEN <<v>> ELSE <<>>) \o GivenBack(t, k, others, d),
            IF d # c THEN buf[d] ELSE IF from = "buf" THEN Tail(buf[c])
           ELSE IF push THEN Append(buf[c], v) ELSE buf[c])]
     /\ accepted' = IF from = "offer" \/ open THEN [accepted EXCEPT ![c] = Append(@, v)] ELSE accepted
     /\ got' = IF kind = "recv" /\ v # None /\ ~raised THEN [got EXCEPT ![c] = Append(@, v)] ELSE got
     /\ Tell(k, [j \in Sends(k) |-> IF j # i THEN "failed" ELSE IF raised THEN "nothing"
                           ELSE IF open \/ offer[<<t, i>>] = "taken" THEN "sent" ELSE "failed"])
     /\ UNCHANGED <<made, closed>>

\* Nothing is chosen and the call ends: the default of a select, a cancel, or a drop.
GiveUp(t, k, polled, what) ==
  LET given == {d \in Chans : GivenBack(t, k, CasesOf(k), d) # <<>>} IN
  /\ Leave(t, None, None, None)
  /\ Registered(t, k, polled, given, {})
  /\ woken' = ((woken \cup WakeAll(given, {}, {})) \cap Busy) \ {t}
  /\ buf' = [d \in Chans |-> PutBack(GivenBack(t, k, CasesOf(k), d), buf[d])]
  /\ Tell(k, [j \in Sends(k) |-> what])
  /\ UNCHANGED <<made, closed, accepted, got>>

\* Nothing is ready: every case registers, posts or waits, in the order of the poll.
Wait(t, k) ==
  LET all   == CasesOf(k)
      order == Order(k)
      posts(c) == Keep(order, {i \in all : k.cases[i].ch = c /\ Posts(t, k, i)})
      waits(c) == Keep(order, {i \in all : k.cases[i].ch = c /\ Waits(t, k, i)})
      rs == PostedOn(t, k, all)
      \* a case of its own that waits where another posts is woken with the rest
      self == {u \in {t} : \E i, j \in all : /\ i < j /\ Waits(t, k, order[i]) /\ Posts(t, k, order[j])
                                             /\ k.cases[order[i]].ch = k.cases[order[j]].ch}
  IN /\ call' = [call EXCEPT ![t] = k]
     /\ offers' = [c \in Chans |-> offers[c] \o [j \in DOMAIN posts(c) |-> <<t, posts(c)[j]>>]]
     /\ waiters' = [c \in Chans |-> waiters[c] \o [j \in DOMAIN waits(c) |-> <<t, waits(c)[j]>>]]
     /\ offer' = [a \in CaseIds |-> IF a[1] = t /\ a[2] \in all /\ Posts(t, k, a[2]) THEN "open" ELSE offer[a]]
     /\ Registered(t, k, all, rs, {})
     /\ woken' = (woken \ {t}) \cup WakeAll(rs, {}, self)
     /\ UNCHANGED <<made, buf, closed, slot, mark, due, cancelled, told, accepted, got>>

\* One poll of the select (SelectFuture::poll, poll_now).
PollSelect(t, k) ==
  IF DeliveredCases(t, k) # {} THEN \E raised \in BOOLEAN :
    Choose(t, k, Min(DeliveredCases(t, k)), {}, raised)
  ELSE IF ReadyAt(t, k) # {} THEN \E raised \in BOOLEAN :
    LET j == Min(ReadyAt(t, k)) IN Choose(t, k, Order(k)[j], {Order(k)[h] : h \in 1..(j - 1)}, raised)
  ELSE IF k.default THEN GiveUp(t, k, {}, "failed")
  ELSE Wait(t, k)

(***************************************************************************)
(* The calls that wait: send, recv, select and select_raw.                 *)
(***************************************************************************)
\* read_cases and the first poll.  The start position is the VM's next turn, which the
\* other selects of the VM move: any position.  A send to a ticker raises.
Start(t) ==
  \E form \in Calls : \E start \in CasesOf(form) :
    LET n == Cardinality(Sends(form))
        k == CallOf(form, start, next)
    IN /\ call[t] = None /\ next + n <= MaxValues + 1
       /\ \A i \in Sends(form) : ~Ticker(form.cases[i].ch)
       /\ PollSelect(t, k) /\ next' = next + n

\* The clock passes the deadline of a timer case.
Expire(t) ==
  /\ call[t] # None /\ Timed(call[t]) /\ t \notin due
  /\ due' = due \cup {t} /\ woken' = woken \cup {t}
  /\ UNCHANGED <<chanVars, slot, offer, call, mark, cancelled, ghosts>>

\* The token of a waiting task is cancelled.
Cancel(t) ==
  /\ call[t] # None /\ t \notin cancelled
  /\ cancelled' = cancelled \cup {t} /\ woken' = woken \cup {t}
  /\ UNCHANGED <<chanVars, slot, offer, call, mark, due, ghosts>>

\* wait_select, wait_send and cancellable look at the token first, but a delivered send
\* is returned as sent.
Poll(t) ==
  /\ t \in woken
  /\ IF t \in cancelled /\ DeliveredCases(t, call[t]) = {}
     THEN GiveUp(t, call[t], {}, "failed")
     ELSE PollSelect(t, call[t])
  /\ UNCHANGED next

\* The coroutine is dropped while it waits (the end of the grace, a dropped run): Drop for
\* Receiving and for Sending withdraw.
Drop(t) == call[t] # None /\ GiveUp(t, call[t], {}, "nothing") /\ UNCHANGED next

(***************************************************************************)
(* The calls that do not wait, by whatever runs on the VM.                 *)
(***************************************************************************)
Owner(a) == {a[1]}

TrySend(c) ==
  LET v == next IN
  /\ next <= MaxValues /\ ~Ticker(c)
  /\ next' = next + 1
  /\ \/ /\ closed[c] \/ (IF Rendezvous(c) THEN Fillable(None, c) = <<>> ELSE Len(buf[c]) >= Room(c))
        /\ told' = [told EXCEPT ![v] = "failed"]
        /\ UNCHANGED <<buf, recvWakers, slot, woken, accepted>>
     \/ /\ ~closed[c] /\ told' = [told EXCEPT ![v] = "sent"]
        /\ accepted' = [accepted EXCEPT ![c] = Append(@, v)]
        /\ \/ /\ Rendezvous(c) /\ Fillable(None, c) # <<>>
              /\ LET w == Head(Fillable(None, c)) IN
                   slot' = [slot EXCEPT ![w] = v] /\ woken' = woken \cup Owner(w)
              /\ UNCHANGED <<buf, recvWakers>>
           \/ /\ ~Rendezvous(c) /\ Len(buf[c]) < Room(c)
              /\ buf' = [buf EXCEPT ![c] = Append(@, v)]
              /\ woken' = (woken \cup recvWakers[c]) \cap Busy
              /\ recvWakers' = [recvWakers EXCEPT ![c] = {}]
              /\ UNCHANGED slot
  /\ UNCHANGED <<made, closed, sendWakers, offers, waiters, offer, call, mark, due, cancelled, got>>

\* A try_recv of an empty channel changes nothing.
TryRecv(c) ==
  /\ \/ /\ buf[c] # <<>>
        /\ buf' = [buf EXCEPT ![c] = Tail(@)] /\ got' = [got EXCEPT ![c] = Append(@, Head(buf[c]))]
        /\ woken' = (woken \cup sendWakers[c]) \cap Busy
        /\ sendWakers' = [sendWakers EXCEPT ![c] = {}]
        /\ UNCHANGED <<offers, offer, mark, accepted>>
     \/ /\ buf[c] = <<>> /\ Rendezvous(c) /\ Takeable(None, c) # <<>>
        /\ LET o == Head(Takeable(None, c))
               v == ValueOf(call[o[1]], o[2]) IN
             /\ offers' = [offers EXCEPT ![c] = Keep(@, CaseIds \ {o})]
             /\ offer' = [offer EXCEPT ![o] = "taken"] /\ mark' = [mark EXCEPT ![o[1]] = TRUE]
             /\ woken' = woken \cup Owner(o)
             /\ accepted' = [accepted EXCEPT ![c] = Append(@, v)] /\ got' = [got EXCEPT ![c] = Append(@, v)]
        /\ UNCHANGED <<buf, sendWakers>>
  /\ UNCHANGED <<made, closed, recvWakers, waiters, slot, call, due, cancelled, next, told>>

Close(c) ==
  LET withdrawn == Range(offers[c]) IN
  /\ ~closed[c] /\ closed' = [closed EXCEPT ![c] = TRUE]
  /\ offers' = [offers EXCEPT ![c] = <<>>]
  /\ offer' = [a \in CaseIds |-> IF a \in withdrawn THEN "withdrawn" ELSE offer[a]]
  /\ woken' = (woken \cup WakeAll({c}, {c}, {a[1] : a \in withdrawn})) \cap Busy
  /\ recvWakers' = [recvWakers EXCEPT ![c] = {}] /\ sendWakers' = [sendWakers EXCEPT ![c] = {}]
  /\ UNCHANGED <<made, buf, waiters, slot, call, mark, due, cancelled, ghosts>>

\* run_ticker pushes a tick: an unread one is replaced, and forgotten.
Tick(c) ==
  LET old  == IF Len(buf[c]) >= Room(c) THEN {Last(buf[c])} ELSE {}
      others == Values \ old IN
  /\ Ticker(c) /\ ~closed[c] /\ next <= MaxValues
  /\ next' = next + 1
  /\ buf' = [buf EXCEPT ![c] = Append(Keep(@, others), next)]
  /\ accepted' = [accepted EXCEPT ![c] = Append(Keep(@, others), next)]
  /\ woken' = (woken \cup Receivers(c)) \cap Busy
  /\ recvWakers' = [recvWakers EXCEPT ![c] = {}]
  /\ UNCHANGED <<made, closed, sendWakers, offers, waiters, slot, offer, call, mark, due, cancelled, told, got>>

Next ==
  \/ \E t \in Tasks : \/ Start(t) \/ Poll(t) \/ Expire(t) \/ Cancel(t) \/ Drop(t)
  \/ \E c \in Chans : TrySend(c) \/ TryRecv(c) \/ Close(c) \/ Tick(c)

Spec == Init /\ [][Next]_vars
\* A poll takes its task off the run queue (a poll that wakes its own task does not post again,
\* so the next one does), and so does a drop; the executor gets to every woken task.
OffQueue(t) == t \in woken /\ woken' \in SUBSET (Tasks \ {t})
FairSpec == Spec /\ \A t \in Tasks : WF_woken(OffQueue(t))

(***************************************************************************)
(* Properties.                                                             *)
(***************************************************************************)
\* What a sender is told is what became of its value: one that is told it failed (closed,
\* cancelled, another case chosen) is never received, and one that is told it sent did send
\* (select.rs wait_send, take_delivered).
ReportsAgree ==
  \A v \in Values : LET sent == \E c \in Chans : v \in Range(accepted[c]) IN
    /\ told[v] = "failed" => ~sent
    /\ told[v] = "sent" => sent

\* At most one of the offers of a select is taken (chan.rs take_offer, SelectMark).
OneOfferTaken == \A t \in Tasks : Cardinality({i \in 1..MaxCases : offer[<<t, i>>] = "taken"}) <= 1

\* No task sleeps beside a case that is ready, or after its cancel: every value, offer,
\* room, close and deadline wakes whoever can use it (chan.rs receiver_wakers, register).
NoSleepBesideReady ==
  \A t \in Busy \ woken : /\ t \notin cancelled /\ DeliveredCases(t, call[t]) = {}
                          /\ \A i \in CasesOf(call[t]) : ~Ready(t, call[t], i)

Count(v, seq) == Cardinality({j \in DOMAIN seq : seq[j] = v})
SlotsWith(v, c) == {a \in CaseIds : /\ slot[a] = v /\ call[a[1]] # None
                                    /\ IsCase(call[a[1]], a[2], "recv", c)}

\* A value is neither lost, duplicated nor overtaken, whichever select, cancel or drop it
\* crosses: a buffered channel is first in, first out, also when a value is given back to its
\* front (chan.rs unrecv); a value a rendezvous channel accepted is in one place, the front,
\* the slot of a waiter or the hands of a receiver (chan.rs take_offer, Receiving::withdraw).
InOrder ==
  \A c \in Chans :
    IF Rendezvous(c)
    THEN \A v \in Values : Count(v, buf[c]) + Cardinality(SlotsWith(v, c)) + Count(v, got[c]) = Count(v, accepted[c])
    ELSE accepted[c] = got[c] \o buf[c]

\* Every call that waits on a closed channel or under a cancelled token returns.
WaitsEnd ==
  \A t \in Tasks :
    (t \in Busy /\ (t \in cancelled \/ \E i \in CasesOf(call[t]) : closed[call[t].cases[i].ch]))
      ~> (t \notin Busy)
=============================================================================
