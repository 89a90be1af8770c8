--------------------------- MODULE ChannelProofs ---------------------------
EXTENDS Channel, SequenceTheorems, FiniteSetTheorems, WellFoundedInduction, TLAPS

(***************************************************************************)
(* Sequences.                                                              *)
(***************************************************************************)
\* A set of naturals that is not empty has a least member.
LEMMA LeastOf ==
  ASSUME NEW S \in SUBSET Nat, S # {}
  PROVE  \E x \in S : \A y \in S : x <= y
<1> DEFINE R == {ss \in Nat \X Nat : ss[1] < ss[2]}
<1>1. IsWellFoundedOn(R, Nat) BY NatLessThanWellFounded DEF OpToRel
<1>2. \A y, x \in Nat : y < x => <<y, x>> \in R OBVIOUS
<1> HIDE DEF R
<1>3. PICK x \in S : \A y \in S : <<y, x>> \notin R BY <1>1, WFMin
<1>4. \A y \in S : x <= y
  <2> SUFFICES ASSUME NEW y \in S PROVE x <= y OBVIOUS
  <2>1. x \in Nat /\ y \in Nat OBVIOUS
  <2>2. ~(y < x) BY <1>2, <1>3, <2>1
  <2> QED BY <2>1, <2>2
<1> QED BY <1>4

\* f is what Keep computes of the first m elements of seq.
KeptUpTo(f, seq, S, m) ==
  f = [n \in 0..m |-> IF n = 0 THEN <<>>
                      ELSE IF seq[n] \in S THEN Append(f[n - 1], seq[n]) ELSE f[n - 1]]

LEMMA KeepUnfolds ==
  ASSUME NEW seq, NEW S
  PROVE  Keep(seq, S) = (CHOOSE f : KeptUpTo(f, seq, S, Len(seq)))[Len(seq)]
BY DEF Keep, KeptUpTo

LEMMA KeptExists ==
  ASSUME NEW seq, NEW S, NEW len \in Nat
  PROVE  \E f : KeptUpTo(f, seq, S, len)
<1> DEFINE Bad == {m \in Nat : ~ \E f : KeptUpTo(f, seq, S, m)}
<1>1. ASSUME NEW m \in Nat, \A x \in Nat : x < m => x \notin Bad PROVE m \notin Bad
  <2>1. CASE m = 0
    <3> DEFINE f == [n \in 0..m |-> <<>>]
    <3>1. KeptUpTo(f, seq, S, m) BY <2>1 DEF KeptUpTo
    <3> HIDE DEF f
    <3> QED BY <3>1
  <2>2. CASE m # 0
    <3>1. PICK f : KeptUpTo(f, seq, S, m - 1) BY <1>1, <2>2
    <3> DEFINE last == IF seq[m] \in S THEN Append(f[m - 1], seq[m]) ELSE f[m - 1]
               g == [n \in 0..m |-> IF n < m THEN f[n] ELSE last]
    <3>2. KeptUpTo(g, seq, S, m)
      <4>1. ASSUME NEW n \in 0..m
            PROVE  g[n] = IF n = 0 THEN <<>> ELSE IF seq[n] \in S THEN Append(g[n - 1], seq[n]) ELSE g[n - 1]
        <5>1. CASE n = m
          <6>1. n - 1 \in 0..m /\ n - 1 < m BY <2>2, <5>1
          <6>2. g[n - 1] = f[n - 1] BY <6>1
          <6>3. g[n] = last BY <5>1
          <6> QED BY <2>2, <5>1, <6>2, <6>3
        <5>2. CASE n < m
          <6>1. n \in 0..(m - 1) /\ (n # 0 => n - 1 \in 0..m /\ n - 1 < m) BY <2>2, <5>2
          <6>2. f[n] = IF n = 0 THEN <<>> ELSE IF seq[n] \in S THEN Append(f[n - 1], seq[n]) ELSE f[n - 1]
            BY <3>1, <6>1 DEF KeptUpTo
          <6>3. g[n] = f[n] /\ (n # 0 => g[n - 1] = f[n - 1]) BY <5>2, <6>1
          <6> QED BY <6>2, <6>3
        <5> QED BY <5>1, <5>2
      <4>2. g = [n \in 0..m |-> g[n]] OBVIOUS
      <4> HIDE DEF g
      <4> QED BY <4>1, <4>2 DEF KeptUpTo
    <3> HIDE DEF g
    <3> QED BY <3>2
  <2> QED BY <2>1, <2>2
<1> HIDE DEF Bad
<1>2. Bad = {}
  <2>1. Bad \in SUBSET Nat BY DEF Bad
  <2> QED BY <1>1, <2>1, LeastOf
<1> QED BY <1>2 DEF Bad

LEMMA AppendRange ==
  ASSUME NEW T, NEW seq \in Seq(T), NEW x \in T
  PROVE  Append(seq, x) \in Seq(T) /\ Range(Append(seq, x)) = Range(seq) \cup {x}
<1> DEFINE one == <<x>>
<1>1. one \in Seq(T) /\ Range(one) = {x} BY DEF Range
<1>2. Append(seq, x) = seq \o one BY AppendIsConcat
<1> HIDE DEF one
<1>3. Range(seq \o one) = Range(seq) \cup Range(one) BY <1>1, RangeConcatenation
<1>4. Append(seq, x) \in Seq(T) BY AppendProperties
<1> QED BY <1>1, <1>2, <1>3, <1>4

Firsts(seq, n) == {seq[i] : i \in 1..n}

LEMMA FirstsFacts ==
  ASSUME NEW seq
  PROVE  /\ Firsts(seq, 0) = {}
         /\ \A n \in Nat \ {0} : Firsts(seq, n) = Firsts(seq, n - 1) \cup {seq[n]}
<1>1. Firsts(seq, 0) = {} BY DEF Firsts
<1>2. ASSUME NEW n \in Nat \ {0} PROVE 1..n = (1..(n - 1)) \cup {n} OBVIOUS
<1> QED BY <1>1, <1>2 DEF Firsts

LEMMA KeptFacts ==
  ASSUME NEW T, NEW seq \in Seq(T), NEW S, NEW f, KeptUpTo(f, seq, S, Len(seq))
  PROVE  \A n \in 0..Len(seq) : f[n] \in Seq(T) /\ Range(f[n]) = Firsts(seq, n) \cap S
<1> DEFINE Good(m) == f[m] \in Seq(T) /\ Range(f[m]) = Firsts(seq, m) \cap S
           Bad == {m \in 0..Len(seq) : ~Good(m)}
<1>0. Len(seq) \in Nat /\ \A i \in 1..Len(seq) : seq[i] \in T BY LenProperties, ElementOfSeq
<1>1. ASSUME NEW m \in 0..Len(seq), \A x \in 0..Len(seq) : x < m => Good(x) PROVE Good(m)
  <2>1. CASE m = 0
    <3>1. f[m] = <<>> BY <1>0, <2>1 DEF KeptUpTo
    <3>2. Range(f[m]) = {} BY <3>1 DEF Range
    <3>3. Firsts(seq, m) = {} BY <2>1, FirstsFacts
    <3> QED BY <3>1, <3>2, <3>3
  <2>2. CASE m # 0
    <3>1. m - 1 \in 0..Len(seq) /\ m - 1 < m /\ m \in 1..Len(seq) /\ m \in Nat \ {0} BY <1>0, <2>2
    <3>2. Good(m - 1)
      <4> HIDE DEF Good
      <4> QED BY <1>1, <3>1
    <3>3. f[m] = IF seq[m] \in S THEN Append(f[m - 1], seq[m]) ELSE f[m - 1]
      BY <1>0, <2>2 DEF KeptUpTo
    <3>4. Firsts(seq, m) = Firsts(seq, m - 1) \cup {seq[m]} BY <3>1, FirstsFacts
    <3>5. seq[m] \in T BY <1>0, <3>1
    <3>6. Range(Append(f[m - 1], seq[m])) = Range(f[m - 1]) \cup {seq[m]} /\ Append(f[m - 1], seq[m]) \in Seq(T)
      BY <3>2, <3>5, AppendRange
    <3> QED BY <3>2, <3>3, <3>4, <3>6
  <2> QED BY <2>1, <2>2
<1> HIDE DEF Good
<1>2. Bad = {}
  <2>1. Bad \in SUBSET Nat /\ \A m \in 0..Len(seq) : m \notin Bad <=> Good(m) BY <1>0
  <2>2. \A m \in Bad : m \in 0..Len(seq) BY <1>0
  <2> HIDE DEF Bad
  <2>3. ASSUME Bad # {} PROVE FALSE
    <3>1. PICK m \in Bad : \A y \in Bad : m <= y BY <2>1, <2>3, LeastOf
    <3>2. \A x \in 0..Len(seq) : x < m => x \notin Bad BY <2>2, <3>1, <1>0
    <3> QED BY <1>1, <2>1, <2>2, <3>1, <3>2
  <2> QED BY <2>3
<1>3. \A n \in 0..Len(seq) : Good(n) BY <1>2
<1> QED BY <1>3 DEF Good

\* Keep returns the members of S that seq has, and nothing else.
LEMMA KeepFacts ==
  ASSUME NEW T, NEW seq \in Seq(T), NEW S
  PROVE  /\ Keep(seq, S) \in Seq(T)
         /\ Range(Keep(seq, S)) = Range(seq) \cap S
<1>0. Len(seq) \in Nat BY LenProperties
<1> DEFINE f == CHOOSE f : KeptUpTo(f, seq, S, Len(seq))
<1>1. KeptUpTo(f, seq, S, Len(seq)) BY <1>0, KeptExists
<1>2. Keep(seq, S) = f[Len(seq)] BY KeepUnfolds
<1> HIDE DEF f
<1>3. Range(seq) = Firsts(seq, Len(seq)) BY RangeEquality DEF Firsts
<1>4. Len(seq) \in 0..Len(seq) BY <1>0
<1>5. f[Len(seq)] \in Seq(T) /\ Range(f[Len(seq)]) = Firsts(seq, Len(seq)) \cap S
  BY <1>1, <1>4, KeptFacts
<1> QED BY <1>2, <1>3, <1>5

\* What a sequence has at its head, it has.
LEMMA HeadInRange ==
  ASSUME NEW T, NEW seq \in Seq(T), seq # <<>>
  PROVE  Head(seq) \in Range(seq) /\ Head(seq) \in T
<1>1. Len(seq) \in Nat \ {0} BY EmptySeq
<1>2. Head(seq) = seq[1] /\ 1 \in DOMAIN seq BY <1>1, LenProperties
<1> QED BY <1>2, HeadTailProperties DEF Range

LEMMA EmptyRange ==
  ASSUME NEW T, NEW seq \in Seq(T)
  PROVE  Range(seq) = {} <=> seq = <<>>
<1>1. seq # <<>> => Range(seq) # {} BY HeadInRange
<1>2. Range(<<>>) = {} BY DEF Range
<1> QED BY <1>1, <1>2

LEMMA TailRange ==
  ASSUME NEW T, NEW seq \in Seq(T), seq # <<>>
  PROVE  /\ Tail(seq) \in Seq(T) /\ Range(Tail(seq)) \subseteq Range(seq)
         /\ Len(Tail(seq)) = Len(seq) - 1 /\ Len(seq) \in Nat /\ Len(seq) > 0
<1>1. /\ Tail(seq) \in Seq(T) /\ Len(Tail(seq)) = Len(seq) - 1 /\ Len(seq) \in Nat /\ Len(seq) > 0
      /\ \A i \in 1..Len(Tail(seq)) : Tail(seq)[i] = seq[i + 1]
  BY HeadTailProperties, EmptySeq, LenProperties
<1>2. \A i \in 1..Len(Tail(seq)) : i + 1 \in 1..Len(seq) BY <1>1
<1>3. Range(Tail(seq)) = {Tail(seq)[i] : i \in 1..Len(Tail(seq))} BY <1>1, RangeEquality
<1>4. Range(seq) = {seq[i] : i \in 1..Len(seq)} BY RangeEquality
<1> QED BY <1>1, <1>2, <1>3, <1>4

(***************************************************************************)
(* The inductive strengthening.                                            *)
(***************************************************************************)
\* A task that is in no call has nothing of one.
IdleInv ==
  \A t \in Tasks : call[t] = None =>
    ~mark[t] /\ \A a \in CaseIds : a[1] = t => offer[a] = "none" /\ slot[a] = None

\* Offers are of sends into rendezvous channels, and a taken one has claimed its select; a
\* value waits in the slot of a receive from one.
OfferInv ==
  /\ \A a \in CaseIds : offer[a] # "none" =>
       /\ call[a[1]] # None /\ a[2] \in Sends(call[a[1]]) /\ Rendezvous(call[a[1]].cases[a[2]].ch)
       /\ offer[a] = "taken" => mark[a[1]]
  /\ \A x, y \in CaseIds : offer[x] = "taken" /\ offer[y] = "taken" /\ x[1] = y[1] => x = y
SlotInv ==
  \A a \in CaseIds : slot[a] # None =>
    /\ call[a[1]] # None /\ a[2] \in CasesOf(call[a[1]])
    /\ call[a[1]].cases[a[2]].kind = "recv" /\ Rendezvous(call[a[1]].cases[a[2]].ch)

\* Nobody registers with a rendezvous channel other than by an offer or a waiter, and a
\* waiter is of a case that its call has.
WakerInv ==
  /\ \A c \in Chans : Rendezvous(c) => recvWakers[c] = {} /\ sendWakers[c] = {}
  /\ \A c \in Chans : \A w \in Range(waiters[c]) : w[2] \in CasesOf(call[w[1]])

\* The values of the calls in progress are their own; one was accepted exactly if its offer
\* was taken, and nobody was told of it yet.
OwnInv ==
  \A t, u \in Busy : \A i \in Sends(call[t]), j \in Sends(call[u]) :
    call[t].vals[i] = call[u].vals[j] => t = u /\ i = j
CaseInv ==
  \A t \in Busy : \A i \in Sends(call[t]) :
    /\ told[call[t].vals[i]] = "nothing"
    /\ \A c \in Chans : call[t].vals[i] \in Range(accepted[c]) <=>
                          offer[<<t, i>>] = "taken" /\ c = call[t].cases[i].ch
FreshInv ==
  \A v \in Values : v >= next => told[v] = "nothing" /\ \A c \in Chans : v \notin Range(accepted[c])
\* Nobody is told of a tick.
TickInv == \A c \in Chans : Ticker(c) => \A v \in Range(accepted[c]) : told[v] = "nothing"

\* Whoever sleeps is registered with every case of its call.
RegisteredIn(t, k) ==
  \A i \in CasesOf(k) : LET c == k.cases[i].ch IN
    /\ k.cases[i].kind = "recv" /\ ~Rendezvous(c) => t \in recvWakers[c]
    /\ k.cases[i].kind = "recv" /\ Rendezvous(c) => <<t, i>> \in Range(waiters[c])
    /\ k.cases[i].kind = "send" /\ ~Rendezvous(c) => t \in sendWakers[c]
    /\ k.cases[i].kind = "send" /\ Rendezvous(c) => offer[<<t, i>>] # "none"
RegisteredInv == \A t \in Busy \ woken : RegisteredIn(t, call[t])
\* Nothing is ready for the call k of t.
NothingReady(t, k) ==
  t \notin cancelled /\ DeliveredCases(t, k) = {} /\ \A i \in CasesOf(k) : ~Ready(t, k, i)

IInv ==
  /\ TypeOK /\ IdleInv /\ OfferInv /\ SlotInv /\ WakerInv
  /\ OwnInv /\ CaseInv /\ FreshInv /\ TickInv /\ ReportsAgree
  /\ RegisteredInv /\ NoSleepBesideReady

(***************************************************************************)
(* Calls.                                                                  *)
(***************************************************************************)
Shape(k) ==
  /\ Len(k.cases) \in Nat \ {0} /\ Len(k.cases) <= MaxCases /\ CasesOf(k) = 1..Len(k.cases)
  /\ \A i \in CasesOf(k) : k.cases[i].kind \in CaseKinds /\ k.cases[i].ch \in Chans
  /\ k.start \in CasesOf(k) /\ k.default \in BOOLEAN /\ k.handler \in BOOLEAN
  /\ \A i \in CasesOf(k) : k.vals[i] \in Nat
  /\ \A i, j \in Sends(k) : k.vals[i] = k.vals[j] => i = j

\* The sends of a form are numbered without a gap.
LEMMA SendsNumbered ==
  ASSUME NEW form \in Calls
  PROVE  /\ IsFiniteSet(Sends(form)) /\ Cardinality(Sends(form)) \in Nat
         /\ \A i \in CasesOf(form) : Cardinality({h \in Sends(form) : h < i}) \in Nat
         /\ \A i \in Sends(form) : Cardinality({h \in Sends(form) : h < i}) < Cardinality(Sends(form))
         /\ \A i, j \in Sends(form) : i < j =>
              Cardinality({h \in Sends(form) : h < i}) < Cardinality({h \in Sends(form) : h < j})
<1> DEFINE S == Sends(form)  Below(i) == {h \in S : h < i}
<1>1. CasesOf(form) = 1..Len(form.cases) /\ Len(form.cases) \in Nat
  BY CallsAssumption, LenProperties DEF CasesOf
<1>2. S \subseteq 1..Len(form.cases) BY <1>1 DEF Sends
<1>3. IsFiniteSet(S)
  <2>1. IsFiniteSet(1..Len(form.cases)) BY <1>1, FS_Interval
  <2> QED BY <1>2, <2>1, FS_Subset
<1>a. S \subseteq Nat BY <1>2
<1> HIDE DEF S
<1>4. \A i : IsFiniteSet(Below(i)) /\ Cardinality(Below(i)) \in Nat
  <2> TAKE i
  <2>1. Below(i) \subseteq S OBVIOUS
  <2> QED BY <1>3, <2>1, FS_Subset, FS_CardinalityType
<1>5. ASSUME NEW i \in S, NEW A, IsFiniteSet(A), Below(i) \subseteq A, i \in A
      PROVE  Cardinality(Below(i)) < Cardinality(A)
  <2>1. i \notin Below(i) BY <1>a
  <2>2. Cardinality(Below(i) \cup {i}) = Cardinality(Below(i)) + 1 BY <1>4, <2>1, FS_AddElement
  <2>3. Cardinality(Below(i) \cup {i}) <= Cardinality(A) /\ Cardinality(A) \in Nat
    <3>1. Below(i) \cup {i} \subseteq A BY <1>5
    <3> HIDE DEF Below
    <3> QED BY <1>5, <3>1, FS_Subset, FS_CardinalityType
  <2> HIDE DEF Below
  <2> QED BY <1>4, <2>2, <2>3
<1>6. ASSUME NEW i \in S, NEW j \in S, i < j PROVE Cardinality(Below(i)) < Cardinality(Below(j))
  <2>0. i \in Nat /\ j \in Nat /\ \A h \in S : h \in Nat BY <1>a
  <2>1. Below(i) \subseteq Below(j)
    <3>1. \A h \in S : h < i => h < j BY <1>6, <2>0
    <3> QED BY <3>1
  <2>a. i \in Below(j) BY <1>6
  <2> HIDE DEF Below
  <2> QED BY <1>4, <1>5, <2>1, <2>a
<1>7. ASSUME NEW i \in S PROVE Cardinality(Below(i)) < Cardinality(S)
  <2>1. Below(i) \subseteq S OBVIOUS
  <2> HIDE DEF Below
  <2> QED BY <1>3, <1>5, <2>1
<1>8. Cardinality(S) \in Nat BY <1>3, FS_CardinalityType
<1> QED BY <1>3, <1>4, <1>6, <1>7, <1>8 DEF S

LEMMA CallShape ==
  ASSUME NEW form \in Calls, NEW start \in CasesOf(form), NEW first \in Nat
  PROVE  LET k == CallOf(form, start, first) IN
         /\ Shape(k) /\ k.default = form.default /\ CasesOf(k) = CasesOf(form) /\ Sends(k) = Sends(form)
         /\ k.cases = form.cases
         /\ \A i \in Sends(k) : first <= k.vals[i] /\ k.vals[i] < first + Cardinality(Sends(form))
<1> DEFINE k == CallOf(form, start, first)
           Rank(i) == Cardinality({h \in Sends(form) : h < i})
<1>1. /\ k.cases = form.cases /\ k.default = form.default /\ k.handler = form.handler
      /\ k.start = start /\ CasesOf(k) = CasesOf(form) /\ Sends(k) = Sends(form)
      /\ \A i \in CasesOf(k) : k.vals[i] = first + Rank(i)
  BY DEF CallOf, CasesOf, Sends
<1> HIDE DEF k, Rank
<1>2. CasesOf(form) = 1..Len(form.cases) /\ Len(form.cases) \in Nat \ {0} /\ Len(form.cases) <= MaxCases
  <2>1. form.cases \in Seq([kind : CaseKinds, ch : Chans]) /\ form.cases # <<>> BY CallsAssumption
  <2> QED BY <2>1, LenProperties, EmptySeq, MaxCasesAssumption DEF CasesOf
<1>3. \A i \in CasesOf(form) : form.cases[i].kind \in CaseKinds /\ form.cases[i].ch \in Chans
  <2>1. form.cases \in Seq([kind : CaseKinds, ch : Chans]) BY CallsAssumption
  <2>2. \A i \in CasesOf(form) : form.cases[i] \in [kind : CaseKinds, ch : Chans] BY <1>2, <2>1, ElementOfSeq
  <2> QED BY <2>2
<1>4. /\ \A i \in CasesOf(form) : Rank(i) \in Nat /\ Cardinality(Sends(form)) \in Nat
      /\ \A i \in Sends(form) : Rank(i) < Cardinality(Sends(form))
      /\ \A i, j \in Sends(form) : i < j => Rank(i) < Rank(j)
  BY SendsNumbered DEF Rank
<1>5. Sends(form) \subseteq CasesOf(form) BY DEF Sends
<1>6. \A i, j \in Sends(form) : Rank(i) = Rank(j) => i = j
  <2> SUFFICES ASSUME NEW i \in Sends(form), NEW j \in Sends(form), Rank(i) = Rank(j), i # j PROVE FALSE
    OBVIOUS
  <2>1. i \in Nat /\ j \in Nat /\ Rank(i) \in Nat /\ Rank(j) \in Nat BY <1>2, <1>4, <1>5
  <2>2. i < j \/ j < i BY <2>1
  <2> QED BY <1>4, <2>1, <2>2
<1>7. form.default \in BOOLEAN /\ form.handler \in BOOLEAN BY CallsAssumption
<1>8. Shape(k)
  <2>1. \A i \in CasesOf(k) : k.vals[i] \in Nat BY <1>1, <1>4
  <2>2. \A i, j \in Sends(k) : k.vals[i] = k.vals[j] => i = j
    <3> SUFFICES ASSUME NEW i \in Sends(k), NEW j \in Sends(k), k.vals[i] = k.vals[j] PROVE i = j
      OBVIOUS
    <3>1. Rank(i) \in Nat /\ Rank(j) \in Nat /\ first + Rank(i) = first + Rank(j) BY <1>1, <1>4, <1>5
    <3>2. Rank(i) = Rank(j) BY <3>1
    <3> QED BY <1>1, <1>6, <3>2
  <2> QED BY <1>1, <1>2, <1>3, <1>7, <2>1, <2>2 DEF Shape
<1>9. \A i \in Sends(k) : first <= k.vals[i] /\ k.vals[i] < first + Cardinality(Sends(form))
  <2> SUFFICES ASSUME NEW i \in Sends(k)
               PROVE  first <= k.vals[i] /\ k.vals[i] < first + Cardinality(Sends(form))
    OBVIOUS
  <2>1. k.vals[i] = first + Rank(i) /\ Rank(i) \in Nat /\ Cardinality(Sends(form)) \in Nat
        /\ Rank(i) < Cardinality(Sends(form))
    BY <1>1, <1>4, <1>5
  <2> QED BY <2>1
<1> QED BY <1>1, <1>8, <1>9 DEF k

\* k is the call of t in progress, or one that t begins, with values not used before.
Begins(t, k) ==
  /\ call[t] = k \/ call[t] = None
  /\ \E form \in Calls : \E start \in CasesOf(form), first \in 1..(MaxValues + 1) :
       k = CallOf(form, start, first)
  /\ next' \in 1..(MaxValues + 1) /\ next <= next'
  /\ \A i \in Sends(k) : /\ k.vals[i] \in Values /\ k.vals[i] < next' /\ ~Ticker(k.cases[i].ch)
                         /\ call[t] = None => next <= k.vals[i]

LEMMA BeginsShape ==
  ASSUME NEW t, NEW k, Begins(t, k)
  PROVE  Shape(k) /\ k # None
<1>0. PICK form \in Calls : \E start \in CasesOf(form), first \in 1..(MaxValues + 1) : k = CallOf(form, start, first)
  BY DEF Begins
<1>1. PICK start \in CasesOf(form), first \in 1..(MaxValues + 1) : k = CallOf(form, start, first)
  BY <1>0
<1>2. first \in Nat BY MaxValuesAssumption
<1> QED BY <1>1, <1>2, CallShape, NoneAssumption

LEMMA CaseNamed ==
  ASSUME NEW t \in Tasks, NEW k, Shape(k), NEW i \in CasesOf(k)
  PROVE  <<t, i>> \in CaseIds /\ i \in Nat
<1>1. i \in 1..MaxCases BY MaxCasesAssumption DEF Shape
<1> QED BY <1>1 DEF CaseIds, Shape

LEMMA IdsNamed ==
  ASSUME NEW a \in CaseIds
  PROVE  a[1] \in Tasks /\ a[2] \in 1..MaxCases /\ a = <<a[1], a[2]>> /\ a # None
BY NoneAssumption DEF CaseIds

\* A task in a call has one that waits.
LEMMA BusyCalls ==
  ASSUME TypeOK, NEW t \in Busy
  PROVE  /\ t \in Tasks /\ call[t] # None /\ Shape(call[t]) /\ ~call[t].default
         /\ \A i \in Sends(call[t]) : /\ call[t].vals[i] \in Values /\ call[t].vals[i] < next
                                      /\ ~Ticker(call[t].cases[i].ch)
         /\ next' \in 1..(MaxValues + 1) /\ next <= next' => Begins(t, call[t])
<1>1. t \in Tasks /\ call[t] # None BY DEF Busy
<1>a. Waiting(call[t]) BY DEF TypeOK
<1>b. PICK form \in Calls : \E start \in CasesOf(form), first \in 1..(MaxValues + 1) :
        /\ call[t] = CallOf(form, start, first) /\ ~form.default
        /\ \A i \in Sends(call[t]) : call[t].vals[i] < next /\ ~Ticker(call[t].cases[i].ch)
  BY <1>a DEF Waiting
<1>2. PICK start \in CasesOf(form), first \in 1..(MaxValues + 1) :
        /\ call[t] = CallOf(form, start, first) /\ ~form.default
        /\ \A i \in Sends(call[t]) : call[t].vals[i] < next /\ ~Ticker(call[t].cases[i].ch)
  BY <1>b
<1>3. first \in Nat /\ first >= 1 BY MaxValuesAssumption
<1>4. /\ Shape(call[t]) /\ ~call[t].default
      /\ \A i \in Sends(call[t]) : first <= call[t].vals[i]
  BY <1>2, <1>3, CallShape
<1>5. ASSUME NEW i \in Sends(call[t]) PROVE call[t].vals[i] \in Values
  <2>1. call[t].vals[i] \in Nat BY <1>4 DEF Shape, Sends
  <2>2. next \in 1..(MaxValues + 1) /\ call[t].vals[i] < next /\ first <= call[t].vals[i] BY <1>2, <1>4 DEF TypeOK
  <2> QED BY <1>3, <2>1, <2>2, MaxValuesAssumption DEF Values
<1>6. ASSUME next' \in 1..(MaxValues + 1) /\ next <= next' PROVE Begins(t, call[t])
  <2>1. ASSUME NEW i \in Sends(call[t]) PROVE call[t].vals[i] < next'
    <3>1. call[t].vals[i] \in Nat /\ call[t].vals[i] < next BY <1>2, <1>4 DEF Shape, Sends
    <3>2. next \in Nat /\ next' \in Nat BY <1>6, MaxValuesAssumption DEF TypeOK
    <3> QED BY <1>6, <3>1, <3>2
  <2> QED BY <1>1, <1>2, <1>5, <1>6, <2>1 DEF Begins
<1> QED BY <1>1, <1>2, <1>4, <1>5, <1>6

(***************************************************************************)
(* The sequences of a step.                                                *)
(***************************************************************************)
\* What try_send left in the cases of a call goes back to rendezvous channels only.
LEMMA GivenFacts ==
  ASSUME IInv, NEW t \in Tasks, NEW k, Shape(k), call[t] = k \/ call[t] = None,
         NEW is \in SUBSET CasesOf(k), NEW c \in Chans
  PROVE  /\ GivenBack(t, k, is, c) \in Seq(Values)
         /\ ~Rendezvous(c) \/ call[t] = None => GivenBack(t, k, is, c) = <<>>
<1> DEFINE full == {i \in is : IsCase(k, i, "recv", c) /\ slot[<<t, i>>] # None}
           down == [j \in CasesOf(k) |-> Len(k.cases) + 1 - j]
           ids == Keep(down, full)
           given == [j \in DOMAIN ids |-> slot[<<t, ids[j]>>]]
<1>1. GivenBack(t, k, is, c) = given BY DEF GivenBack
<1>2. down \in Seq(CasesOf(k))
  <2>1. CasesOf(k) = 1..Len(k.cases) /\ Len(k.cases) \in Nat BY DEF Shape
  <2>2. \A j \in 1..Len(k.cases) : Len(k.cases) + 1 - j \in 1..Len(k.cases) BY <2>1
  <2> QED BY <2>1, <2>2, SeqDef
<1>3. \A i \in full : slot[<<t, i>>] \in Values
  <2>1. slot \in [CaseIds -> Values \cup {None}] BY DEF IInv, TypeOK
  <2> QED BY <2>1, CaseNamed
<1>4. ASSUME ~Rendezvous(c) \/ call[t] = None PROVE full = {}
  <2> SUFFICES ASSUME NEW i \in is, IsCase(k, i, "recv", c), slot[<<t, i>>] # None PROVE FALSE
    OBVIOUS
  <2>1. <<t, i>> \in CaseIds /\ <<t, i>>[1] = t /\ <<t, i>>[2] = i BY CaseNamed
  <2>2. call[t] # None /\ Rendezvous(call[t].cases[i].ch) BY <2>1 DEF IInv, SlotInv
  <2> QED BY <1>4, <2>2 DEF IsCase
<1> HIDE DEF full, down
<1>5. ids \in Seq(CasesOf(k)) /\ Range(ids) = Range(down) \cap full BY <1>2, KeepFacts
<1>6. given \in Seq(Values) /\ (full = {} => given = <<>>)
  <2> HIDE DEF ids
  <2>1. DOMAIN ids = 1..Len(ids) /\ Len(ids) \in Nat BY <1>5, LenProperties
  <2>2. \A j \in 1..Len(ids) : ids[j] \in full BY <1>5, <2>1 DEF Range
  <2>3. given = [j \in 1..Len(ids) |-> slot[<<t, ids[j]>>]] BY <2>1
  <2>4. \A j \in 1..Len(ids) : slot[<<t, ids[j]>>] \in Values BY <1>3, <2>2
  <2>5. given \in Seq(Values) BY <2>1, <2>3, <2>4, SeqDef
  <2>6. full = {} => Len(ids) = 0 BY <2>1, <2>2
  <2>7. Len(ids) = 0 => given = <<>> BY <2>3
  <2> QED BY <2>5, <2>6, <2>7
<1> QED BY <1>1, <1>4, <1>6

\* Whoever may be paired with is there, and its select not claimed.
LEMMA PairFacts ==
  ASSUME IInv, NEW t, NEW c \in Chans
  PROVE  /\ Takeable(t, c) \in Seq(CaseIds) /\ Fillable(t, c) \in Seq(CaseIds)
         /\ \A o : o \in Range(Takeable(t, c)) <=> o \in Range(offers[c]) /\ Pairs(t, o)
         /\ \A w : w \in Range(Fillable(t, c)) <=> w \in Range(waiters[c]) /\ slot[w] = None /\ Pairs(t, w)
         /\ (Takeable(t, c) # <<>> =>
               /\ Head(Takeable(t, c)) \in Range(offers[c]) /\ Pairs(t, Head(Takeable(t, c)))
               /\ Head(Takeable(t, c)) \in CaseIds)
         /\ (Fillable(t, c) # <<>> =>
               /\ Head(Fillable(t, c)) \in Range(waiters[c]) /\ Pairs(t, Head(Fillable(t, c)))
               /\ slot[Head(Fillable(t, c))] = None /\ Head(Fillable(t, c)) \in CaseIds)
<1> DEFINE P == {o \in CaseIds : Pairs(t, o)}  Q == {w \in CaseIds : slot[w] = None /\ Pairs(t, w)}
<1>1. offers[c] \in Seq(CaseIds) /\ waiters[c] \in Seq(CaseIds) BY DEF IInv, TypeOK
<1>2. Range(offers[c]) \subseteq CaseIds /\ Range(waiters[c]) \subseteq CaseIds BY <1>1, RangeOfSeq
<1>3. Takeable(t, c) = Keep(offers[c], P) /\ Fillable(t, c) = Keep(waiters[c], Q)
  BY DEF Takeable, Fillable
<1>4. /\ \A o \in CaseIds : o \in P <=> Pairs(t, o)
      /\ \A w \in CaseIds : w \in Q <=> slot[w] = None /\ Pairs(t, w)
  OBVIOUS
<1> HIDE DEF P, Q
<1>5. /\ Keep(offers[c], P) \in Seq(CaseIds) /\ Range(Keep(offers[c], P)) = Range(offers[c]) \cap P
      /\ Keep(waiters[c], Q) \in Seq(CaseIds) /\ Range(Keep(waiters[c], Q)) = Range(waiters[c]) \cap Q
  BY <1>1, KeepFacts
<1>6. /\ Takeable(t, c) # <<>> => Head(Takeable(t, c)) \in Range(Takeable(t, c))
      /\ Fillable(t, c) # <<>> => Head(Fillable(t, c)) \in Range(Fillable(t, c))
  BY <1>3, <1>5, HeadInRange
<1> QED BY <1>2, <1>3, <1>4, <1>5, <1>6

(***************************************************************************)
(* The poll of a select.                                                   *)
(***************************************************************************)
\* Whatever the start position, a poll gets to every case.
LEMMA OrderFacts ==
  ASSUME NEW k, Shape(k)
  PROVE  /\ Order(k) \in Seq(CasesOf(k)) /\ DOMAIN Order(k) = CasesOf(k)
         /\ \A j \in CasesOf(k) : Order(k)[j] \in CasesOf(k)
         /\ \A i \in CasesOf(k) : \E j \in CasesOf(k) : Order(k)[j] = i
<1> DEFINE n == Len(k.cases)  s == k.start
<1>1. n \in Nat \ {0} /\ s \in 1..n /\ CasesOf(k) = 1..n BY DEF Shape
<1> DEFINE Mod(x) == x % n
<1>2. Order(k) = [j \in 1..n |-> Mod(s + j - 2) + 1] BY <1>1 DEF Order
<1> HIDE DEF n, s
<1>3. \A x \in Nat : Mod(x) \in 0..(n - 1) BY <1>1
<1>4. \A x \in 0..(n - 1) : Mod(x) = x /\ Mod(x + n) = x BY <1>1
<1> HIDE DEF Mod
<1>6. ASSUME NEW j \in 1..n PROVE Mod(s + j - 2) + 1 \in 1..n
  <2>1. s + j - 2 \in Nat BY <1>1
  <2>2. Mod(s + j - 2) \in 0..(n - 1) BY <1>3, <2>1
  <2> QED BY <1>1, <2>2
<1>7. ASSUME NEW i \in 1..n PROVE \E j \in 1..n : Mod(s + j - 2) + 1 = i
  <2>0. i - 1 \in 0..(n - 1) /\ i \in Nat /\ s \in Nat BY <1>1
  <2>1. CASE i >= s
    <3>1. i - s + 1 \in 1..n /\ s + (i - s + 1) - 2 = i - 1 BY <1>1, <2>0, <2>1
    <3>2. Mod(s + (i - s + 1) - 2) = i - 1 BY <1>4, <2>0, <3>1
    <3>3. Mod(s + (i - s + 1) - 2) + 1 = i BY <2>0, <3>2
    <3> QED BY <3>1, <3>3
  <2>2. CASE i < s
    <3>1. i - s + 1 + n \in 1..n /\ s + (i - s + 1 + n) - 2 = (i - 1) + n BY <1>1, <2>0, <2>2
    <3>2. Mod(s + (i - s + 1 + n) - 2) = i - 1 BY <1>4, <2>0, <3>1
    <3>3. Mod(s + (i - s + 1 + n) - 2) + 1 = i BY <2>0, <3>2
    <3> QED BY <3>1, <3>3
  <2> QED BY <2>0, <2>1, <2>2
<1>8. Order(k) \in Seq(1..n)
  <2>1. Order(k) \in [1..n -> 1..n] BY <1>2, <1>6
  <2> QED BY <1>1, <2>1, SeqDef
<1> QED BY <1>1, <1>2, <1>6, <1>7, <1>8

LEMMA LeastMember ==
  ASSUME NEW S \in SUBSET Nat, S # {}
  PROVE  Min(S) \in S /\ \A y \in S : Min(S) <= y
<1>1. \E x \in S : \A y \in S : x <= y BY LeastOf
<1> QED BY <1>1 DEF Min

\* The case i is chosen in a poll of the call k.
Chooses(t, k, i, polled, raised) ==
  /\ Choose(t, k, i, polled, raised)
  /\ i \in CasesOf(k) /\ polled \subseteq CasesOf(k) /\ raised \in BOOLEAN
  /\ \/ i \in DeliveredCases(t, k)
     \/ DeliveredCases(t, k) = {} /\ Ready(t, k, i)

LEMMA PollCases ==
  ASSUME NEW t, NEW k, Shape(k), PollSelect(t, k)
  PROVE  \/ \E i, polled, raised : Chooses(t, k, i, polled, raised)
         \/ k.default /\ DeliveredCases(t, k) = {} /\ GiveUp(t, k, {}, "failed")
         \/ /\ ~k.default /\ DeliveredCases(t, k) = {} /\ Wait(t, k)
            /\ \A i \in CasesOf(k) : ~Ready(t, k, i)
<1> DEFINE D == DeliveredCases(t, k)  R == ReadyAt(t, k)
<1>0. CasesOf(k) \subseteq Nat /\ CasesOf(k) = 1..Len(k.cases) /\ Len(k.cases) \in Nat BY DEF Shape
<1>1. D \subseteq CasesOf(k) /\ R \subseteq CasesOf(k) BY DEF DeliveredCases, ReadyAt
<1>2. CASE D # {}
  <2>1. Min(D) \in D BY <1>0, <1>1, <1>2, LeastMember
  <2>2. PICK raised \in BOOLEAN : Choose(t, k, Min(D), {}, raised) BY <1>2 DEF PollSelect
  <2>3. Chooses(t, k, Min(D), {}, raised) BY <1>1, <2>1, <2>2 DEF Chooses
  <2> QED BY <2>3
<1>3. CASE D = {} /\ R # {}
  <2> DEFINE j == Min(R)  polled == {Order(k)[h] : h \in 1..(j - 1)}
  <2>1. j \in R BY <1>0, <1>1, <1>3, LeastMember
  <2>2. PICK raised \in BOOLEAN : Choose(t, k, Order(k)[j], polled, raised) BY <1>3 DEF PollSelect
  <2> HIDE DEF j
  <2>3. j \in CasesOf(k) /\ Ready(t, k, Order(k)[j]) BY <1>1, <2>1 DEF ReadyAt
  <2>4. \A h \in 1..(j - 1) : h \in CasesOf(k) BY <1>0, <2>3
  <2>5. polled \subseteq CasesOf(k) /\ Order(k)[j] \in CasesOf(k) BY <2>3, <2>4, OrderFacts
  <2>6. Chooses(t, k, Order(k)[j], polled, raised) BY <1>3, <2>2, <2>3, <2>5 DEF Chooses
  <2> QED BY <2>6
<1>4. CASE D = {} /\ R = {} /\ k.default BY <1>4 DEF PollSelect
<1>5. CASE D = {} /\ R = {} /\ ~k.default
  <2>1. Wait(t, k) BY <1>5 DEF PollSelect
  <2>2. \A j \in CasesOf(k) : ~Ready(t, k, Order(k)[j]) BY <1>5 DEF ReadyAt
  <2>3. \A i \in CasesOf(k) : ~Ready(t, k, i) BY <2>2, OrderFacts
  <2> QED BY <1>5, <2>1, <2>3
<1> QED BY <1>2, <1>3, <1>4, <1>5

\* A call ends without a choice: its default, its cancel, or its drop.
Ends(t, k, what) ==
  /\ GiveUp(t, k, {}, what)
  /\ what = "nothing" \/ (what = "failed" /\ DeliveredCases(t, k) = {})
Sleeps(t, k) ==
  /\ Wait(t, k) /\ ~k.default /\ DeliveredCases(t, k) = {} /\ \A i \in CasesOf(k) : ~Ready(t, k, i)

\* Every step is one of a call of a task, or one of a channel.
Moves(t, k) ==
  /\ Begins(t, k)
  /\ \/ \E i, polled, raised : Chooses(t, k, i, polled, raised)
     \/ \E what : Ends(t, k, what)
     \/ Sleeps(t, k) /\ t \notin cancelled

LEMMA NextCases ==
  ASSUME TypeOK, [Next]_vars
  PROVE  \/ \E t \in Tasks : \E k : Moves(t, k)
         \/ \E t \in Tasks : Expire(t) \/ Cancel(t)
         \/ \E c \in Chans : TrySend(c) \/ TryRecv(c) \/ Close(c) \/ Tick(c)
         \/ UNCHANGED vars
<1>0. next \in 1..(MaxValues + 1) /\ cancelled \subseteq Busy /\ woken \subseteq Busy BY DEF TypeOK
<1>1. ASSUME NEW t \in Tasks, Start(t) PROVE \E k : Moves(t, k)
  <2>1. PICK form \in Calls : \E start \in CasesOf(form) :
          LET n == Cardinality(Sends(form))
              k == CallOf(form, start, next)
          IN /\ call[t] = None /\ next + n <= MaxValues + 1
             /\ \A i \in Sends(form) : ~Ticker(form.cases[i].ch)
             /\ PollSelect(t, k) /\ next' = next + n
    BY <1>1 DEF Start
  <2> DEFINE n == Cardinality(Sends(form))
  <2>2. PICK start \in CasesOf(form) :
             /\ call[t] = None /\ next + n <= MaxValues + 1
             /\ \A i \in Sends(form) : ~Ticker(form.cases[i].ch)
             /\ PollSelect(t, CallOf(form, start, next)) /\ next' = next + n
    BY <2>1
  <2> DEFINE k == CallOf(form, start, next)
  <2>3. n \in Nat BY SendsNumbered
  <2>4. next \in Nat /\ next >= 1 BY <1>0, MaxValuesAssumption
  <2>5. /\ Shape(k) /\ Sends(k) = Sends(form) /\ k.cases = form.cases
        /\ \A i \in Sends(k) : next <= k.vals[i] /\ k.vals[i] < next + n
    BY <2>4, CallShape
  <2>6. Begins(t, k)
    <3>1. \E f \in Calls : \E s \in CasesOf(f), first \in 1..(MaxValues + 1) : k = CallOf(f, s, first)
      BY <1>0
    <3> HIDE DEF k, n
    <3>2. next' \in 1..(MaxValues + 1) /\ next <= next' BY <2>2, <2>3, <2>4, MaxValuesAssumption
    <3>3. ASSUME NEW i \in Sends(k)
          PROVE  k.vals[i] \in Values /\ k.vals[i] < next' /\ ~Ticker(k.cases[i].ch) /\ next <= k.vals[i]
      <4>1. k.vals[i] \in Nat BY <2>5 DEF Shape, Sends
      <4>2. next <= k.vals[i] /\ k.vals[i] < next + n BY <2>5
      <4> QED BY <2>2, <2>3, <2>4, <2>5, <4>1, <4>2, MaxValuesAssumption DEF Values
    <3> QED BY <2>2, <3>1, <3>2, <3>3 DEF Begins
  <2>7. PollSelect(t, k) BY <2>2
  <2>8. t \notin cancelled BY <1>0, <2>2 DEF Busy
  <2> HIDE DEF k
  <2> QED BY <2>5, <2>6, <2>7, <2>8, PollCases DEF Moves, Ends, Sleeps
<1>2. ASSUME NEW t \in Tasks, Poll(t) PROVE Moves(t, call[t])
  <2>1. t \in Busy /\ next' = next BY <1>0, <1>2 DEF Poll
  <2>2. next' \in 1..(MaxValues + 1) /\ next <= next'
    BY <1>0, <2>1, MaxValuesAssumption
  <2>3. Begins(t, call[t]) /\ Shape(call[t]) BY <2>1, <2>2, BusyCalls
  <2>4. CASE t \in cancelled /\ DeliveredCases(t, call[t]) = {}
    BY <1>2, <2>3, <2>4 DEF Poll, Moves, Ends
  <2>5. CASE ~(t \in cancelled /\ DeliveredCases(t, call[t]) = {})
    <3>1. PollSelect(t, call[t]) BY <1>2, <2>5 DEF Poll
    <3> QED BY <2>3, <2>5, <3>1, PollCases DEF Moves, Ends, Sleeps
  <2> QED BY <2>4, <2>5
<1>3. ASSUME NEW t \in Tasks, Drop(t) PROVE Moves(t, call[t])
  <2>1. t \in Busy /\ next' = next BY <1>3 DEF Drop, Busy
  <2>2. next' \in 1..(MaxValues + 1) /\ next <= next'
    BY <1>0, <2>1, MaxValuesAssumption
  <2>3. Begins(t, call[t]) BY <2>1, <2>2, BusyCalls
  <2> QED BY <1>3, <2>3 DEF Drop, Moves, Ends
<1> QED BY <1>1, <1>2, <1>3 DEF Next

(***************************************************************************)
(* Types.                                                                  *)
(***************************************************************************)
\* TypeOK in two parts: the channels with what is told of them, and the calls.
ChanTypes ==
  /\ made \in Makes /\ next \in 1..(MaxValues + 1)
  /\ buf \in [Chans -> Seq(Values)] /\ accepted \in [Chans -> Seq(Values)]
  /\ got \in [Chans -> Seq(Values)] /\ closed \in [Chans -> BOOLEAN]
  /\ recvWakers \in [Chans -> SUBSET Tasks] /\ sendWakers \in [Chans -> SUBSET Tasks]
  /\ told \in [Values -> {"nothing", "sent", "failed"}]
  /\ \A c \in Chans : ~Rendezvous(c) => Len(buf[c]) <= Room(c)
CallTypes ==
  /\ offers \in [Chans -> Seq(CaseIds)] /\ waiters \in [Chans -> Seq(CaseIds)]
  /\ slot \in [CaseIds -> Values \cup {None}] /\ offer \in [CaseIds -> OfferStates]
  /\ mark \in [Tasks -> BOOLEAN]
  /\ call = [t \in Tasks |-> call[t]] /\ \A t \in Busy : Waiting(call[t])
  /\ \A c \in Chans : ~Rendezvous(c) => offers[c] = <<>> /\ waiters[c] = <<>>
  /\ \A c \in Chans : \A o \in Range(offers[c]) :
       offer[o] = "open" /\ call[o[1]] # None /\ IsCase(call[o[1]], o[2], "send", c)
  /\ \A c \in Chans : \A w \in Range(waiters[c]) :
       call[w[1]] # None /\ IsCase(call[w[1]], w[2], "recv", c)
QueueTypes == woken \subseteq Busy /\ cancelled \subseteq Busy /\ due \subseteq Busy

LEMMA TypeParts == TypeOK <=> ChanTypes /\ CallTypes /\ QueueTypes
BY DEF TypeOK, ChanTypes, CallTypes, QueueTypes

LEMMA ChanFacts ==
  ASSUME TypeOK, NEW c \in Chans
  PROVE  Room(c) \in Nat /\ Ticker(c) \in BOOLEAN /\ (Ticker(c) => Room(c) = 1)
<1>1. made \in Makes BY DEF TypeOK
<1>2. made \in [Chans -> [cap : Nat, ticker : BOOLEAN]] /\ \A d \in Chans : made[d].ticker => made[d].cap = 1
  BY <1>1, MakesAssumption
<1> QED BY <1>2 DEF Room, Ticker

\* What waits may wait on while the channels are what they were.
LEMMA WaitingStays ==
  ASSUME NEW k, Waiting(k), Shape(k), made' = made, next \in Nat, next' \in Nat, next <= next'
  PROVE  Waiting(k)'
<1>1. PICK form \in Calls : \E start \in CasesOf(form), first \in 1..(MaxValues + 1) :
        /\ k = CallOf(form, start, first) /\ ~form.default
        /\ \A i \in Sends(k) : k.vals[i] < next /\ ~Ticker(k.cases[i].ch)
  BY DEF Waiting
<1>2. \A i \in Sends(k) : k.vals[i] < next => k.vals[i] < next'
  <2>1. \A i \in Sends(k) : k.vals[i] \in Nat BY DEF Shape, Sends
  <2> QED BY <2>1
<1> QED BY <1>1, <1>2 DEF Waiting, Ticker

\* The end of the call of t.
LEMMA LeaveEffect ==
  ASSUME CallTypes, NEW t \in Tasks, NEW taken, NEW filled, NEW v, Leave(t, taken, filled, v)
  PROVE  /\ call' = [call EXCEPT ![t] = None] /\ Busy' = Busy \ {t}
         /\ \A u \in Tasks \ {t} : call'[u] = call[u]
         /\ \A c \in Chans :
              /\ offers'[c] \in Seq(CaseIds) /\ waiters'[c] \in Seq(CaseIds)
              /\ \A o : o \in Range(offers'[c]) <=> o \in Range(offers[c]) /\ o[1] # t /\ o # taken
              /\ \A w : w \in Range(waiters'[c]) <=> w \in Range(waiters[c]) /\ w[1] # t
<1>1. call' = [call EXCEPT ![t] = None] BY DEF Leave
<1>2. Busy' = Busy \ {t} /\ \A u \in Tasks \ {t} : call'[u] = call[u]
  <2>1. call = [u \in Tasks |-> call[u]] BY DEF CallTypes
  <2> QED BY <1>1, <2>1 DEF Busy
<1>3. ASSUME NEW c \in Chans
      PROVE  /\ offers'[c] \in Seq(CaseIds) /\ waiters'[c] \in Seq(CaseIds)
             /\ Range(offers'[c]) = {o \in Range(offers[c]) : o[1] # t /\ o # taken}
             /\ Range(waiters'[c]) = {w \in Range(waiters[c]) : w[1] # t}
  <2> DEFINE S == {a \in CaseIds : a[1] # t}  U == CaseIds \ {taken}
  <2>1. offers[c] \in Seq(CaseIds) /\ waiters[c] \in Seq(CaseIds) BY DEF CallTypes
  <2>2. Range(offers[c]) \subseteq CaseIds /\ Range(waiters[c]) \subseteq CaseIds BY <2>1, RangeOfSeq
  <2>3. offers'[c] = Keep(Keep(offers[c], S), U) /\ waiters'[c] = Keep(waiters[c], S)
    BY DEF Leave, Without
  <2>4. \A x \in CaseIds : (x \in S <=> x[1] # t) /\ (x \in U <=> x # taken) OBVIOUS
  <2> HIDE DEF S, U
  <2>5. /\ Keep(offers[c], S) \in Seq(CaseIds) /\ Range(Keep(offers[c], S)) = Range(offers[c]) \cap S
        /\ Keep(waiters[c], S) \in Seq(CaseIds) /\ Range(Keep(waiters[c], S)) = Range(waiters[c]) \cap S
    BY <2>1, KeepFacts
  <2>6. /\ Keep(Keep(offers[c], S), U) \in Seq(CaseIds)
        /\ Range(Keep(Keep(offers[c], S), U)) = Range(Keep(offers[c], S)) \cap U
    BY <2>5, KeepFacts
  <2> QED BY <2>2, <2>3, <2>4, <2>5, <2>6
<1> QED BY <1>1, <1>2, <1>3

LEMMA LeaveTypes ==
  ASSUME TypeOK, NEW t \in Tasks, NEW taken, NEW filled, NEW v \in Values \cup {None},
         Leave(t, taken, filled, v), made' = made, next' \in 1..(MaxValues + 1), next <= next'
  PROVE  CallTypes' /\ due' \subseteq Busy' /\ cancelled' \subseteq Busy'
<1>0. CallTypes /\ ChanTypes /\ QueueTypes BY TypeParts
<1>1. /\ call' = [call EXCEPT ![t] = None] /\ Busy' = Busy \ {t}
      /\ \A u \in Tasks \ {t} : call'[u] = call[u]
      /\ \A c \in Chans :
           /\ offers'[c] \in Seq(CaseIds) /\ waiters'[c] \in Seq(CaseIds)
           /\ \A o : o \in Range(offers'[c]) <=> o \in Range(offers[c]) /\ o[1] # t /\ o # taken
           /\ \A w : w \in Range(waiters'[c]) <=> w \in Range(waiters[c]) /\ w[1] # t
  BY <1>0, LeaveEffect
<1>2. offers' \in [Chans -> Seq(CaseIds)] /\ waiters' \in [Chans -> Seq(CaseIds)]
  <2>1. offers' = [c \in Chans |-> offers'[c]] /\ waiters' = [c \in Chans |-> waiters'[c]] BY DEF Leave
  <2> QED BY <1>1, <2>1
<1>3. slot' \in [CaseIds -> Values \cup {None}] /\ offer' \in [CaseIds -> OfferStates]
      /\ mark' \in [Tasks -> BOOLEAN]
  BY <1>0 DEF CallTypes, Leave, OfferStates
<1>4. call' = [u \in Tasks |-> call'[u]]
  <2>1. call = [u \in Tasks |-> call[u]] BY <1>0 DEF CallTypes
  <2> QED BY <1>1, <2>1
<1>5. \A u \in Busy' : Waiting(call[u])'
  <2> SUFFICES ASSUME NEW u \in Busy' PROVE Waiting(call[u])'
    OBVIOUS
  <2>1. u \in Busy /\ u \in Tasks \ {t} BY <1>1 DEF Busy
  <2>2. Shape(call[u]) /\ Waiting(call[u]) BY <1>0, <2>1, BusyCalls DEF CallTypes
  <2>3. next \in Nat /\ next' \in Nat BY <1>0, MaxValuesAssumption DEF ChanTypes
  <2>4. \A k : k = call[u] => Waiting(k)' BY <2>2, <2>3, WaitingStays
  <2>5. call'[u] = call[u] BY <1>1, <2>1
  <2> QED BY <2>4, <2>5
<1>6. \A c \in Chans : ~Rendezvous(c)' => offers'[c] = <<>> /\ waiters'[c] = <<>>
  <2> SUFFICES ASSUME NEW c \in Chans, ~Rendezvous(c)' PROVE offers'[c] = <<>> /\ waiters'[c] = <<>>
    OBVIOUS
  <2>1. ~Rendezvous(c) BY DEF Rendezvous, Room
  <2>2. offers[c] = <<>> /\ waiters[c] = <<>> BY <1>0, <2>1 DEF CallTypes
  <2>3. Range(offers'[c]) = {} /\ Range(waiters'[c]) = {}
    <3>1. Range(offers[c]) = {} /\ Range(waiters[c]) = {} BY <2>2 DEF Range
    <3> QED BY <1>1, <3>1
  <2> QED BY <1>1, <2>3, EmptyRange
<1>7. ASSUME NEW c \in Chans, NEW o \in Range(offers'[c])
      PROVE  offer'[o] = "open" /\ call'[o[1]] # None /\ IsCase(call'[o[1]], o[2], "send", c)
  <2>1. o \in CaseIds /\ o \in Range(offers[c]) /\ o[1] # t /\ o # taken
    BY <1>1, RangeOfSeq
  <2>2. offer'[o] = offer[o] /\ call'[o[1]] = call[o[1]]
    BY <1>1, <2>1, IdsNamed DEF Leave
  <2> QED BY <1>0, <2>1, <2>2 DEF CallTypes
<1>8. ASSUME NEW c \in Chans, NEW w \in Range(waiters'[c])
      PROVE  call'[w[1]] # None /\ IsCase(call'[w[1]], w[2], "recv", c)
  <2>1. w \in CaseIds /\ w \in Range(waiters[c]) /\ w[1] # t BY <1>1, RangeOfSeq
  <2>2. call'[w[1]] = call[w[1]] BY <1>1, <2>1, IdsNamed
  <2> QED BY <1>0, <2>1, <2>2 DEF CallTypes
<1>9. CallTypes' BY <1>2, <1>3, <1>4, <1>5, <1>6, <1>7, <1>8 DEF CallTypes, IsCase
<1>10. due' \subseteq Busy' /\ cancelled' \subseteq Busy' BY <1>0, <1>1 DEF Leave, QueueTypes
<1> QED BY <1>9, <1>10

(***************************************************************************)
(* The case that is chosen.                                                *)
(***************************************************************************)
\* An open offer is of a call in progress, and so is a waiter.
LEMMA OfferFacts ==
  ASSUME IInv, NEW c \in Chans, NEW o \in Range(offers[c])
  PROVE  /\ o \in CaseIds /\ o[1] \in Busy /\ o[2] \in Sends(call[o[1]]) /\ call[o[1]].cases[o[2]].ch = c
         /\ offer[o] = "open" /\ Rendezvous(c) /\ call[o[1]].vals[o[2]] \in Values
<1>0. TypeOK /\ CallTypes BY TypeParts DEF IInv
<1>1. o \in CaseIds BY <1>0, RangeOfSeq DEF CallTypes
<1>2. offer[o] = "open" /\ call[o[1]] # None /\ IsCase(call[o[1]], o[2], "send", c) BY <1>0 DEF CallTypes
<1>3. o[1] \in Busy BY <1>1, <1>2, IdsNamed DEF Busy
<1>4. o[2] \in Sends(call[o[1]]) BY <1>1, <1>2 DEF IInv, OfferInv
<1>5. call[o[1]].cases[o[2]].ch = c BY <1>2 DEF IsCase
<1>6. Rendezvous(c)
  <2>1. offers[c] # <<>> BY DEF Range
  <2> QED BY <1>0, <2>1 DEF CallTypes
<1> QED BY <1>0, <1>1, <1>2, <1>3, <1>4, <1>5, <1>6, BusyCalls

LEMMA WaiterFacts ==
  ASSUME IInv, NEW c \in Chans, NEW w \in Range(waiters[c])
  PROVE  /\ w \in CaseIds /\ w[1] \in Busy /\ IsCase(call[w[1]], w[2], "recv", c)
         /\ Rendezvous(c)
<1>0. TypeOK /\ CallTypes BY TypeParts DEF IInv
<1>1. w \in CaseIds BY <1>0, RangeOfSeq DEF CallTypes
<1>2. call[w[1]] # None /\ IsCase(call[w[1]], w[2], "recv", c) BY <1>0 DEF CallTypes
<1>3. w[1] \in Busy BY <1>1, <1>2, IdsNamed DEF Busy
<1>4. Rendezvous(c)
  <2>1. waiters[c] # <<>> BY DEF Range
  <2> QED BY <1>0, <2>1 DEF CallTypes
<1> QED BY <1>1, <1>2, <1>3, <1>4

\* A receive of the case i finds its value v at one place, the offer o if it is that.
Received(t, k, i, c, from, v, o) ==
  /\ from \in {"slot", "buf", "offer", "closed"}
  /\ from = "slot" => call[t] = k /\ Rendezvous(c) /\ v \in Values /\ v = slot[<<t, i>>]
  /\ from # "slot" => slot[<<t, i>>] = None
  /\ from = "buf" => buf[c] # <<>> /\ v = Head(buf[c]) /\ v \in Values
  /\ from = "offer" =>
       o \in Range(offers[c]) /\ Pairs(t, o) /\ v = call[o[1]].vals[o[2]] /\ v \in Values
  /\ from = "closed" => v = None

LEMMA RecvFacts ==
  ASSUME IInv, NEW t \in Tasks, NEW k, Begins(t, k), NEW i \in CasesOf(k), k.cases[i].kind = "recv",
         NEW c, c = k.cases[i].ch, NEW from, from = From(t, k, i), NEW v, v = Moved(t, k, i),
         NEW o, o = Head(Takeable(t, c))
  PROVE  Received(t, k, i, c, from, v, o)
<1>0. TypeOK /\ CallTypes /\ ChanTypes /\ Shape(k) BY TypeParts, BeginsShape DEF IInv
<1>1. c \in Chans /\ <<t, i>> \in CaseIds BY <1>0, CaseNamed DEF Shape
<1>2. from = RecvFrom(t, k, i) /\ v = ValueAt(t, k, i, from) BY DEF From, Moved
<1>3. /\ from \in {"slot", "buf", "offer", "closed"}
      /\ from = "slot" => slot[<<t, i>>] # None
      /\ from # "slot" => slot[<<t, i>>] = None
      /\ from = "buf" => buf[c] # <<>>
      /\ from = "offer" => Takeable(t, c) # <<>>
  BY <1>2 DEF RecvFrom
<1>4. /\ from = "slot" => v = slot[<<t, i>>]
      /\ from = "buf" => v = Head(buf[c])
      /\ from = "offer" => v = call[o[1]].vals[o[2]]
      /\ from = "closed" => v = None
  BY <1>2 DEF ValueAt, ValueOf
<1>5. from = "slot" => call[t] = k /\ Rendezvous(c) /\ v \in Values
  <2>1. ASSUME slot[<<t, i>>] # None PROVE call[t] # None /\ Rendezvous(call[t].cases[i].ch)
    <3>1. <<t, i>>[1] = t /\ <<t, i>>[2] = i OBVIOUS
    <3> QED BY <1>1, <2>1, <3>1 DEF IInv, SlotInv
  <2>2. slot[<<t, i>>] \in Values \cup {None} BY <1>0, <1>1 DEF CallTypes
  <2>3. call[t] = k \/ call[t] = None BY DEF Begins
  <2> SUFFICES ASSUME from = "slot" PROVE call[t] = k /\ Rendezvous(c) /\ v \in Values
    OBVIOUS
  <2>4. slot[<<t, i>>] # None /\ v = slot[<<t, i>>] BY <1>3, <1>4
  <2>5. call[t] = k /\ Rendezvous(k.cases[i].ch) BY <2>1, <2>3, <2>4
  <2> QED BY <2>2, <2>4, <2>5
<1>6. from = "buf" => v \in Values
  <2>1. buf[c] \in Seq(Values) BY <1>0, <1>1 DEF ChanTypes
  <2> QED BY <1>3, <1>4, <2>1, HeadInRange
<1>7. from = "offer" => o \in Range(offers[c]) /\ Pairs(t, o) /\ v \in Values
  <2> SUFFICES ASSUME from = "offer" PROVE o \in Range(offers[c]) /\ Pairs(t, o) /\ v \in Values
    OBVIOUS
  <2>1. Takeable(t, c) # <<>> /\ v = call[o[1]].vals[o[2]] BY <1>3, <1>4
  <2>2. o \in Range(offers[c]) /\ Pairs(t, o) BY <1>1, <2>1, PairFacts
  <2>3. call[o[1]].vals[o[2]] \in Values BY <1>1, <2>2, OfferFacts
  <2> QED BY <2>1, <2>2, <2>3
<1> QED BY <1>3, <1>4, <1>5, <1>6, <1>7 DEF Received

\* The other side of the choice: an offer that is taken, a waiter that is filled, or none.
LEMMA ChosenFacts ==
  ASSUME IInv, NEW t \in Tasks, NEW k, Begins(t, k), NEW i, NEW polled, NEW raised,
         Chooses(t, k, i, polled, raised),
         NEW c, c = k.cases[i].ch, NEW from, from = From(t, k, i), NEW v, v = Moved(t, k, i),
         NEW taken, taken = TakenOffer(t, k, i), NEW filled, filled = FilledWaiter(t, k, i)
  PROVE  /\ i \in CasesOf(k) /\ c \in Chans /\ v \in Values \cup {None}
         /\ taken # None =>
              /\ from = "offer" /\ k.cases[i].kind = "recv"
              /\ taken \in Range(offers[c]) /\ Pairs(t, taken) /\ v = call[taken[1]].vals[taken[2]]
              /\ v \in Values /\ filled = None
         /\ from = "offer" => taken # None
         /\ filled # None =>
              /\ filled \in Range(waiters[c]) /\ slot[filled] = None /\ Pairs(t, filled)
              /\ Opens(t, k, i) /\ Rendezvous(c)
         /\ Opens(t, k, i) =>
              /\ i \in Sends(k) /\ v = k.vals[i] /\ v \in Values /\ ~closed[c] /\ offer[<<t, i>>] = "none"
              /\ k.cases[i].kind = "send" /\ taken = None
              /\ Rendezvous(c) => filled # None
              /\ ~Rendezvous(c) => Len(buf[c]) < Room(c)
<1>0. TypeOK /\ CallTypes /\ ChanTypes /\ Shape(k) BY TypeParts, BeginsShape DEF IInv
<1>1. i \in CasesOf(k) /\ c \in Chans BY <1>0 DEF Chooses, Shape
<1>2. CASE k.cases[i].kind = "recv"
  <2>1. ~Opens(t, k, i) /\ filled = None BY <1>2 DEF Opens, FilledWaiter
  <2> DEFINE o == Head(Takeable(t, c))
  <2>2. taken = IF from = "offer" THEN o ELSE None BY DEF TakenOffer
  <2>a. o = Head(Takeable(t, c)) OBVIOUS
  <2> HIDE DEF o
  <2>b. Received(t, k, i, c, from, v, o) BY <1>1, <1>2, <2>a, RecvFacts
  <2>3. /\ from \in {"slot", "buf", "offer", "closed"}
        /\ from \in {"slot", "buf", "offer"} => v \in Values
        /\ from = "closed" => v = None
        /\ from = "offer" => o \in Range(offers[c]) /\ Pairs(t, o) /\ v = call[o[1]].vals[o[2]]
    BY <2>b DEF Received
  <2>4. from = "offer" => o \in CaseIds /\ o # None BY <1>1, <2>3, OfferFacts, IdsNamed
  <2> QED BY <1>1, <1>2, <2>1, <2>2, <2>3, <2>4
<1>3. CASE k.cases[i].kind # "recv"
  <2> DEFINE w == Head(Fillable(t, c))
  <2>1. from = "nowhere" /\ taken = None BY <1>3 DEF From, TakenOffer
  <2>2. v = (IF Opens(t, k, i) THEN k.vals[i] ELSE None) BY <1>3 DEF Moved, ValueOf
  <2>3. filled = IF Opens(t, k, i) /\ Rendezvous(c) THEN w ELSE None BY DEF FilledWaiter
  <2>4. ASSUME Opens(t, k, i)
        PROVE  /\ i \in Sends(k) /\ k.vals[i] \in Values /\ ~closed[c] /\ offer[<<t, i>>] = "none"
               /\ k.cases[i].kind = "send"
               /\ Rendezvous(c) => Fillable(t, c) # <<>>
               /\ ~Rendezvous(c) => Len(buf[c]) < Room(c)
    <3>1. k.cases[i].kind = "send" /\ ~closed[c] /\ offer[<<t, i>>] = "none" BY <2>4 DEF Opens
    <3>2. i \in Sends(k) /\ k.vals[i] \in Values BY <1>1, <3>1 DEF Sends, Begins
    <3>3. i \notin DeliveredCases(t, k) BY <3>1 DEF DeliveredCases
    <3>4. SendReady(t, i, c, k.default) BY <3>1, <3>3 DEF Chooses, Ready
    <3> QED BY <3>1, <3>2, <3>4 DEF SendReady, RoomIn
  <2>5. Fillable(t, c) # <<>> => w \in Range(waiters[c]) /\ Pairs(t, w) /\ slot[w] = None /\ w \in CaseIds
    BY <1>1, PairFacts
  <2>6. w \in CaseIds => w # None BY IdsNamed
  <2> HIDE DEF w
  <2> QED BY <1>1, <2>1, <2>2, <2>3, <2>4, <2>5, <2>6
<1> QED BY <1>2, <1>3

(***************************************************************************)
(* The end of a call, whatever ended it.                                   *)
(***************************************************************************)
\* The call k of t ends, with an offer taken or a waiter filled on c, if any.
LeavesCall(t, k, c, taken, filled, v) ==
  /\ Begins(t, k) /\ Leave(t, taken, filled, v)
  /\ c \in Chans /\ v \in Values \cup {None} /\ UNCHANGED <<made, closed>>
  /\ taken # None => taken \in Range(offers[c]) /\ Pairs(t, taken)
  /\ filled # None =>
       filled \in Range(waiters[c]) /\ slot[filled] = None /\ Pairs(t, filled) /\ v \in Values
\* The values of added are accepted, and what the sends of k are told agrees with that.
LeavesTold(t, k, c, taken, added) ==
  /\ \A d \in Chans : Range(accepted'[d]) = IF d = c THEN Range(accepted[d]) \cup added ELSE Range(accepted[d])
  /\ \A w \in added : \/ taken # None /\ w = call[taken[1]].vals[taken[2]]
                      \/ \E j \in Sends(k) : w = k.vals[j] /\ c = k.cases[j].ch
  /\ taken # None => call[taken[1]].vals[taken[2]] \in added
  /\ \A j \in Sends(k) :
       /\ told'[k.vals[j]] = "failed" => offer[<<t, j>>] # "taken" /\ k.vals[j] \notin added
       /\ told'[k.vals[j]] = "sent" => offer[<<t, j>>] = "taken" \/ k.vals[j] \in added
  /\ \A w \in Values : (\A j \in Sends(k) : k.vals[j] # w) => told'[w] = told[w]
\* Whoever the end makes ready is woken.
LeavesQueue(t, k, taken, filled, polled, rs, ss) ==
  /\ Registered(t, k, polled, rs, ss)
  /\ woken' = ((woken \cup WakeAll(rs, ss, {a[1] : a \in {taken, filled} \ {None}})) \cap Busy) \ {t}
  /\ \A d \in Chans : buf[d] = <<>> /\ buf'[d] # <<>> => d \in rs
  /\ \A d \in Chans : ~Rendezvous(d) /\ Len(buf'[d]) < Len(buf[d]) => d \in ss

\* Two calls do not send the same value.
LEMMA OtherValues ==
  ASSUME IInv, NEW t \in Tasks, NEW k, Begins(t, k), NEW u \in Busy \ {t},
         NEW x \in Sends(call[u]), NEW j \in Sends(k)
  PROVE  call[u].vals[x] # k.vals[j]
<1>0. TypeOK BY DEF IInv
<1>1. CASE call[t] = k
  <2>1. t \in Busy
    <3>1. k # None BY BeginsShape
    <3> QED BY <1>1, <3>1 DEF Busy
  <2> QED BY <1>1, <2>1 DEF IInv, OwnInv
<1>2. CASE call[t] = None
  <2>1. next <= k.vals[j] /\ k.vals[j] \in Values BY <1>2 DEF Begins
  <2>2. call[u].vals[x] < next /\ call[u].vals[x] \in Values BY <1>0, BusyCalls
  <2>3. next \in Nat /\ call[u].vals[x] \in Nat /\ k.vals[j] \in Nat
    BY <1>0, <2>1, <2>2, MaxValuesAssumption DEF TypeOK, Values
  <2> QED BY <2>1, <2>2, <2>3
<1> QED BY <1>1, <1>2 DEF Begins

\* The values of a call that is polled: nobody was told of them, and one was accepted exactly
\* if its offer was taken.
LEMMA OwnFacts ==
  ASSUME IInv, NEW t \in Tasks, NEW k, Begins(t, k), NEW j \in Sends(k)
  PROVE  /\ k.vals[j] \in Values /\ k.vals[j] < next' /\ ~Ticker(k.cases[j].ch) /\ told[k.vals[j]] = "nothing"
         /\ \A d \in Chans : k.vals[j] \in Range(accepted[d]) <=> offer[<<t, j>>] = "taken" /\ d = k.cases[j].ch
         /\ k.cases[j].ch \in Chans
<1>1. k.vals[j] \in Values /\ k.vals[j] < next' /\ ~Ticker(k.cases[j].ch) BY DEF Begins
<1>2. Shape(k) /\ k # None /\ j \in CasesOf(k) BY BeginsShape DEF Sends
<1>3. CASE call[t] = k
  <2>1. t \in Busy BY <1>2, <1>3 DEF Busy
  <2>2. /\ told[k.vals[j]] = "nothing"
        /\ \A d \in Chans : k.vals[j] \in Range(accepted[d]) <=> offer[<<t, j>>] = "taken" /\ d = k.cases[j].ch
    BY <1>3, <2>1 DEF IInv, CaseInv
  <2> QED BY <1>1, <1>2, <2>2 DEF Shape
<1>4. CASE call[t] = None
  <2>1. next <= k.vals[j] BY <1>4 DEF Begins
  <2>2. k.vals[j] >= next BY <2>1
  <2>3. told[k.vals[j]] = "nothing" /\ \A d \in Chans : k.vals[j] \notin Range(accepted[d])
    BY <1>1, <2>2 DEF IInv, FreshInv
  <2>4. offer[<<t, j>>] = "none"
    <3>1. <<t, j>> \in CaseIds /\ <<t, j>>[1] = t BY <1>2, CaseNamed
    <3> QED BY <1>4, <3>1 DEF IInv, IdleInv
  <2> QED BY <1>1, <1>2, <2>3, <2>4 DEF Shape
<1> QED BY <1>3, <1>4 DEF Begins

\* Tell says of each send of k what there is to say of its case.
LEMMA TellFacts ==
  ASSUME TypeOK, NEW k, Shape(k), \A i \in Sends(k) : k.vals[i] \in Values,
         NEW what, Tell(k, what), \A i \in Sends(k) : what[i] \in {"nothing", "sent", "failed"}
  PROVE  /\ \A i \in Sends(k) : told'[k.vals[i]] = what[i]
         /\ \A v \in Values : (\A i \in Sends(k) : k.vals[i] # v) => told'[v] = told[v]
         /\ told' \in [Values -> {"nothing", "sent", "failed"}]
<1> DEFINE W(v) == CHOOSE i \in Sends(k) : k.vals[i] = v
<1>1. told' = [v \in Values |-> IF \E i \in Sends(k) : k.vals[i] = v THEN what[W(v)] ELSE told[v]]
  BY DEF Tell, ValueOf
<1>3. \A v : (\E i \in Sends(k) : k.vals[i] = v) => W(v) \in Sends(k) /\ k.vals[W(v)] = v
  OBVIOUS
<1> HIDE DEF W
<1>4. ASSUME NEW i \in Sends(k) PROVE told'[k.vals[i]] = what[i]
  <2>1. \E j \in Sends(k) : k.vals[j] = k.vals[i] OBVIOUS
  <2>2. W(k.vals[i]) \in Sends(k) /\ k.vals[W(k.vals[i])] = k.vals[i] BY <1>3, <2>1
  <2>3. W(k.vals[i]) = i BY <2>2 DEF Shape
  <2> QED BY <1>1, <2>1, <2>3
<1>5. ASSUME NEW v \in Values, \A i \in Sends(k) : k.vals[i] # v PROVE told'[v] = told[v]
  BY <1>1, <1>5
<1>6. told' \in [Values -> {"nothing", "sent", "failed"}]
  <2>1. ASSUME NEW v \in Values PROVE told'[v] \in {"nothing", "sent", "failed"}
    <3>1. CASE \E i \in Sends(k) : k.vals[i] = v BY <1>4, <3>1
    <3>2. CASE \A i \in Sends(k) : k.vals[i] # v BY <1>5, <3>2 DEF TypeOK
    <3> QED BY <3>1, <3>2
  <2>2. told' = [v \in Values |-> told'[v]] BY <1>1
  <2> QED BY <2>1, <2>2
<1> QED BY <1>4, <1>5, <1>6

\* A poll that chooses is the end of the call.
LEMMA ChooseLeaves ==
  ASSUME IInv, NEW t \in Tasks, NEW k, Begins(t, k), NEW i, NEW polled, NEW raised,
         Chooses(t, k, i, polled, raised)
  PROVE  /\ ChanTypes'
         /\ \E c, taken, filled, v, added, rs, ss :
              /\ LeavesCall(t, k, c, taken, filled, v) /\ LeavesTold(t, k, c, taken, added)
              /\ LeavesQueue(t, k, taken, filled, polled, rs, ss)
<1> DEFINE kind == k.cases[i].kind
           c    == k.cases[i].ch
           from == From(t, k, i)
           open == Opens(t, k, i)
           push == open /\ ~Rendezvous(c)
           v    == Moved(t, k, i)
           back == kind = "recv" /\ v # None /\ raised
           taken  == TakenOffer(t, k, i)
           filled == FilledWaiter(t, k, i)
           others == CasesOf(k) \ {i}
           G(d)  == GivenBack(t, k, others, d)
           given  == {d \in Chans : G(d) # <<>>}
           rs == PostedOn(t, k, polled) \cup given \cup {d \in {c} : push \/ back}
           ss == {d \in {c} : from = "buf" /\ ~Rendezvous(c)}
           added == IF from = "offer" \/ open THEN {v} ELSE {}
           front(d) == IF d = c /\ back THEN <<v>> ELSE <<>>
           rest(d) == IF d # c THEN buf[d] ELSE IF from = "buf" THEN Tail(buf[c])
                      ELSE IF push THEN Append(buf[c], v) ELSE buf[c]
           what == [j \in Sends(k) |-> IF j # i THEN "failed" ELSE IF raised THEN "nothing"
                           ELSE IF open \/ offer[<<t, i>>] = "taken" THEN "sent" ELSE "failed"]
<1>1. /\ Leave(t, taken, filled, v)
      /\ Registered(t, k, polled, rs, ss)
      /\ woken' = ((woken \cup WakeAll(rs, ss, {a[1] : a \in {taken, filled} \ {None}})) \cap Busy) \ {t}
      /\ buf' = [d \in Chans |-> (front(d) \o G(d)) \o rest(d)]
      /\ accepted' = IF from = "offer" \/ open THEN [accepted EXCEPT ![c] = Append(@, v)] ELSE accepted
      /\ got' = IF kind = "recv" /\ v # None /\ ~raised THEN [got EXCEPT ![c] = Append(@, v)] ELSE got
      /\ Tell(k, what)
      /\ UNCHANGED <<made, closed>>
      /\ raised \in BOOLEAN
      /\ i \in DeliveredCases(t, k) \/ DeliveredCases(t, k) = {}
  BY DEF Chooses, Choose, PutBack
<1>2. TypeOK /\ ChanTypes /\ CallTypes /\ QueueTypes /\ Shape(k) BY TypeParts, BeginsShape DEF IInv
<1>3. /\ i \in CasesOf(k) /\ c \in Chans /\ v \in Values \cup {None}
      /\ taken # None =>
           /\ from = "offer" /\ kind = "recv"
           /\ taken \in Range(offers[c]) /\ Pairs(t, taken) /\ v = call[taken[1]].vals[taken[2]]
           /\ v \in Values /\ filled = None
      /\ from = "offer" => taken # None
      /\ filled # None =>
           /\ filled \in Range(waiters[c]) /\ slot[filled] = None /\ Pairs(t, filled)
           /\ open /\ Rendezvous(c)
      /\ open =>
           /\ i \in Sends(k) /\ v = k.vals[i] /\ v \in Values /\ ~closed[c] /\ offer[<<t, i>>] = "none"
           /\ kind = "send" /\ taken = None
           /\ Rendezvous(c) => filled # None
           /\ ~Rendezvous(c) => Len(buf[c]) < Room(c)
  BY ChosenFacts
<1>4. kind # "recv" => from = "nowhere" BY DEF From
<1>5. kind = "recv" => /\ from \in {"slot", "buf", "offer", "closed"} /\ (from = "slot" => Rendezvous(c))
                       /\ (from = "buf" => buf[c] # <<>> /\ v = Head(buf[c]) /\ v \in Values)
                       /\ (from = "closed" => v = None)
  <2>1. ASSUME kind = "recv" PROVE Received(t, k, i, c, from, v, Head(Takeable(t, c)))
    BY <1>3, <2>1, RecvFacts
  <2> QED BY <2>1 DEF Received
<1>6. \A d \in Chans : G(d) \in Seq(Values) /\ (~Rendezvous(d) => G(d) = <<>>)
  BY <1>2, GivenFacts DEF Begins
<1>7. /\ \A d \in Chans : d \notin rs => G(d) = <<>> /\ (d = c => ~push /\ ~back)
      /\ \A d \in Chans : d \notin ss => ~(d = c /\ from = "buf" /\ ~Rendezvous(c))
  OBVIOUS
<1>8. /\ added \subseteq {v}
      /\ from = "offer" \/ open => added = {v}
      /\ added # {} => from = "offer" \/ open
  OBVIOUS
<1>9. /\ open = Opens(t, k, i) /\ (push <=> open /\ ~Rendezvous(c))
      /\ back => kind = "recv" /\ v \in Values
      /\ \A d : front(d) = IF d = c /\ back THEN <<v>> ELSE <<>>
      /\ \A d : rest(d) = IF d # c THEN buf[d] ELSE IF from = "buf" THEN Tail(buf[c])
                      ELSE IF push THEN Append(buf[c], v) ELSE buf[c]
  BY <1>3
<1>10. \A j \in Sends(k) : what[j] = IF j # i THEN "failed" ELSE IF raised THEN "nothing"
                           ELSE IF open \/ offer[<<t, i>>] = "taken" THEN "sent" ELSE "failed"
  OBVIOUS
<1> HIDE DEF kind, c, from, open, push, v, back, taken, filled, G, rs, ss, added, front, rest, what
<1>11. ASSUME NEW d \in Chans
       PROVE  /\ buf'[d] \in Seq(Values)
              /\ d \notin rs => buf'[d] = rest(d)
              /\ buf[d] = <<>> /\ buf'[d] # <<>> => d \in rs
              /\ ~Rendezvous(d) => Len(buf'[d]) <= Room(d)
              /\ ~Rendezvous(d) /\ d \notin ss => Len(buf'[d]) >= Len(buf[d])
  <2>0. buf[d] \in Seq(Values) /\ Len(buf[d]) \in Nat /\ Room(d) \in Nat
    BY <1>2, ChanFacts, LenProperties DEF ChanTypes
  <2>1. buf'[d] = (front(d) \o G(d)) \o rest(d) BY <1>1
  <2>2. from = "buf" => kind = "recv" /\ buf[c] # <<>> /\ v \in Values BY <1>4, <1>5
  <2>3. ASSUME d = c, from = "buf"
        PROVE  /\ rest(d) \in Seq(Values) /\ Len(rest(d)) = Len(buf[d]) - 1 /\ buf[d] # <<>>
    BY <1>9, <2>0, <2>2, <2>3, TailRange
  <2>4. ASSUME d = c, from # "buf", push
        PROVE  /\ rest(d) \in Seq(Values) /\ Len(rest(d)) = Len(buf[d]) + 1 /\ ~Rendezvous(d) /\ Len(buf[d]) < Room(d)
               /\ ~back
    <3>1. v \in Values /\ ~Rendezvous(c) /\ Len(buf[c]) < Room(c) /\ ~back BY <1>3, <1>9, <2>4
    <3> QED BY <1>9, <2>0, <2>4, <3>1, AppendProperties
  <2>5. ASSUME ~(d = c /\ (from = "buf" \/ push)) PROVE rest(d) = buf[d] BY <1>9, <2>5
  <2>6. rest(d) \in Seq(Values) /\ Len(rest(d)) \in Nat
    BY <2>0, <2>3, <2>4, <2>5, LenProperties
  <2>7. /\ front(d) \in Seq(Values) /\ Len(front(d)) \in Nat /\ Len(front(d)) <= 1
        /\ (d = c /\ back => Len(front(d)) = 1) /\ (~(d = c /\ back) => Len(front(d)) = 0)
    <3>0. /\ \A x \in Values : <<x>> \in Seq(Values) /\ Len(<<x>>) = 1
          /\ <<>> \in Seq(Values) /\ Len(<<>>) = 0
      OBVIOUS
    <3>1. CASE d = c /\ back
      <4>1. front(d) = <<v>> /\ v \in Values BY <1>9, <3>1
      <4> QED BY <3>0, <3>1, <4>1
    <3>2. CASE ~(d = c /\ back)
      <4>1. front(d) = <<>> BY <1>9, <3>2
      <4> QED BY <3>0, <3>2, <4>1
    <3> QED BY <3>1, <3>2
  <2>8. G(d) \in Seq(Values) /\ Len(G(d)) \in Nat BY <1>6, LenProperties
  <2>9. /\ buf'[d] \in Seq(Values) /\ Len(buf'[d]) = Len(front(d)) + Len(G(d)) + Len(rest(d))
        /\ Len(buf'[d]) \in Nat
    <3>1. front(d) \o G(d) \in Seq(Values) /\ Len(front(d) \o G(d)) = Len(front(d)) + Len(G(d))
      BY <2>7, <2>8, ConcatProperties
    <3>2. /\ (front(d) \o G(d)) \o rest(d) \in Seq(Values)
          /\ Len((front(d) \o G(d)) \o rest(d)) = Len(front(d) \o G(d)) + Len(rest(d))
      BY <2>6, <3>1, ConcatProperties
    <3> QED BY <2>1, <3>1, <3>2, LenProperties
  <2>10. d \notin rs => front(d) = <<>> /\ G(d) = <<>> BY <1>7, <1>9
  <2>11. d \notin rs => buf'[d] = rest(d)
    <3>1. ASSUME d \notin rs PROVE buf'[d] = rest(d)
      <4>1. front(d) = <<>> /\ G(d) = <<>> BY <2>10, <3>1
      <4> QED BY <2>1, <2>6, <4>1, ConcatEmptySeq
    <3> QED BY <3>1
  <2>12. ASSUME d \notin rs, buf[d] = <<>> PROVE buf'[d] = <<>>
    <3>1. ~(d = c /\ push) /\ ~(d = c /\ from = "buf") BY <1>7, <2>3, <2>12
    <3> QED BY <2>5, <2>11, <2>12, <3>1
  <2>13. ASSUME ~Rendezvous(d)
         PROVE  /\ Len(buf'[d]) <= Room(d) /\ (d \notin ss => Len(buf'[d]) >= Len(buf[d]))
    <3>1. Len(G(d)) = 0 BY <1>6, <2>13
    <3>2. Len(buf[d]) <= Room(d) BY <1>2, <2>13 DEF ChanTypes
    <3>3. d = c /\ back => from = "buf"
      <4>1. ASSUME d = c, back PROVE from = "buf"
        <5>1. kind = "recv" /\ v # None BY <1>9, <4>1, NoneAssumption
        <5>2. from # "slot" /\ from # "closed" BY <1>5, <2>13, <4>1, <5>1
        <5>3. from # "offer"
          <6>1. from = "offer" => taken \in Range(offers[c]) BY <1>3
          <6>2. from = "offer" => Rendezvous(c) BY <1>3, <6>1, OfferFacts
          <6> QED BY <2>13, <4>1, <6>2
        <5> QED BY <1>5, <5>1, <5>2, <5>3
      <4> QED BY <4>1
    <3>4. CASE d = c /\ from = "buf"
      <4>1. Len(rest(d)) = Len(buf[d]) - 1 /\ d \in ss BY <1>7, <2>3, <2>13, <3>4
      <4> QED BY <2>0, <2>6, <2>7, <2>8, <2>9, <3>1, <3>2, <4>1
    <3>5. CASE d = c /\ from # "buf" /\ push
      <4>1. Len(rest(d)) = Len(buf[d]) + 1 /\ Len(buf[d]) < Room(d) /\ ~back BY <2>4, <3>5
      <4> QED BY <2>0, <2>6, <2>7, <2>8, <2>9, <3>1, <3>2, <4>1
    <3>6. CASE ~(d = c /\ (from = "buf" \/ push))
      <4>1. rest(d) = buf[d] /\ Len(front(d)) = 0 BY <2>5, <2>7, <3>3, <3>6
      <4> QED BY <2>0, <2>6, <2>7, <2>8, <2>9, <3>1, <3>2, <4>1
    <3> QED BY <3>4, <3>5, <3>6
  <2> QED BY <2>9, <2>11, <2>12, <2>13
<1>12. accepted' \in [Chans -> Seq(Values)] /\ got' \in [Chans -> Seq(Values)]
  <2>1. from = "offer" \/ open => v \in Values BY <1>3
  <2>2. v # None => v \in Values BY <1>3
  <2>3. v \in Values => \A d \in Chans : Append(accepted[d], v) \in Seq(Values) /\ Append(got[d], v) \in Seq(Values)
    BY <1>2, AppendProperties DEF ChanTypes
  <2> QED BY <1>1, <1>2, <1>3, <2>1, <2>2, <2>3 DEF ChanTypes
<1>13. /\ \A j \in Sends(k) : told'[k.vals[j]] = what[j]
       /\ \A w \in Values : (\A j \in Sends(k) : k.vals[j] # w) => told'[w] = told[w]
       /\ told' \in [Values -> {"nothing", "sent", "failed"}]
  <2>1. \A j \in Sends(k) : k.vals[j] \in Values BY DEF Begins
  <2>2. \A j \in Sends(k) : what[j] \in {"nothing", "sent", "failed"} BY <1>10
  <2> QED BY <1>1, <1>2, <2>1, <2>2, TellFacts
<1>14. recvWakers' \in [Chans -> SUBSET Tasks] /\ sendWakers' \in [Chans -> SUBSET Tasks]
  BY <1>1, <1>2 DEF Registered, ChanTypes
<1>15. ChanTypes'
  <2>1. buf' = [d \in Chans |-> buf'[d]] BY <1>1
  <2>2. buf' \in [Chans -> Seq(Values)] BY <1>11, <2>1
  <2> QED BY <1>1, <1>2, <1>11, <1>12, <1>13, <1>14, <2>2 DEF ChanTypes, Begins, Rendezvous, Room
<1>16. LeavesCall(t, k, c, taken, filled, v) BY <1>1, <1>3 DEF LeavesCall
<1>17. LeavesQueue(t, k, taken, filled, polled, rs, ss)
  <2>1. \A d \in Chans : ~Rendezvous(d) /\ d \notin ss => ~(Len(buf'[d]) < Len(buf[d]))
    <3> SUFFICES ASSUME NEW d \in Chans, ~Rendezvous(d), d \notin ss PROVE ~(Len(buf'[d]) < Len(buf[d]))
      OBVIOUS
    <3>1. Len(buf[d]) \in Nat /\ Len(buf'[d]) \in Nat BY <1>2, <1>11, LenProperties DEF ChanTypes
    <3> QED BY <1>11, <3>1
  <2> QED BY <1>1, <1>11, <2>1 DEF LeavesQueue
<1>18. LeavesTold(t, k, c, taken, added)
  <2>1. \A d \in Chans : Range(accepted'[d]) = IF d = c THEN Range(accepted[d]) \cup added ELSE Range(accepted[d])
    <3>1. accepted[c] \in Seq(Values) /\ accepted \in [Chans -> Seq(Values)] BY <1>2, <1>3 DEF ChanTypes
    <3>2. CASE from = "offer" \/ open
      <4>1. Range(Append(accepted[c], v)) = Range(accepted[c]) \cup {v} BY <1>3, <3>1, <3>2, AppendRange
      <4> QED BY <1>1, <1>3, <1>8, <3>1, <3>2, <4>1
    <3>3. CASE ~(from = "offer" \/ open) BY <1>1, <1>8, <3>3
    <3> QED BY <3>2, <3>3
  <2>2. \A w \in added : \/ taken # None /\ w = call[taken[1]].vals[taken[2]]
                         \/ \E j \in Sends(k) : w = k.vals[j] /\ c = k.cases[j].ch
    BY <1>3, <1>8 DEF c
  <2>3. taken # None => call[taken[1]].vals[taken[2]] \in added BY <1>3, <1>8
  <2>4. ASSUME NEW j \in Sends(k), told'[k.vals[j]] = "failed"
        PROVE  offer[<<t, j>>] # "taken" /\ k.vals[j] \notin added
    <3>1. what[j] = "failed" /\ (j = i => ~open /\ offer[<<t, i>>] # "taken") BY <1>10, <1>13, <2>4
    <3>2. j \in CasesOf(k) BY DEF Sends
    <3>3. offer[<<t, j>>] # "taken"
      <4>1. CASE j = i BY <3>1, <4>1
      <4>2. CASE j # i /\ i \in DeliveredCases(t, k)
        <5>1. offer[<<t, i>>] = "taken" /\ <<t, i>> \in CaseIds /\ <<t, j>> \in CaseIds
          BY <1>2, <1>3, <3>2, <4>2, CaseNamed DEF DeliveredCases
        <5>2. <<t, i>>[1] = <<t, j>>[1] /\ <<t, i>> # <<t, j>> BY <4>2
        <5> QED BY <5>1, <5>2 DEF IInv, OfferInv
      <4>3. CASE DeliveredCases(t, k) = {} BY <3>2, <4>3 DEF DeliveredCases
      <4> QED BY <1>1, <4>1, <4>2, <4>3
    <3>4. k.vals[j] \notin added
      <4>1. CASE added = {} BY <4>1
      <4>2. CASE open /\ added # {}
        <5>1. v = k.vals[i] /\ i \in Sends(k) /\ j # i BY <1>3, <3>1, <4>2
        <5>2. k.vals[j] # v BY <1>2, <5>1 DEF Shape
        <5> QED BY <1>8, <5>2
      <4>3. CASE from = "offer" /\ added # {}
        <5>1. taken \in Range(offers[c]) /\ Pairs(t, taken) /\ v = call[taken[1]].vals[taken[2]] BY <1>3, <4>3
        <5>2. taken[1] \in Busy \ {t} /\ taken[2] \in Sends(call[taken[1]]) BY <1>3, <5>1, OfferFacts DEF Pairs
        <5>3. v # k.vals[j] BY <5>1, <5>2, OtherValues
        <5> QED BY <1>8, <5>3
      <4> QED BY <1>8, <4>1, <4>2, <4>3
    <3> QED BY <3>3, <3>4
  <2>5. ASSUME NEW j \in Sends(k), told'[k.vals[j]] = "sent"
        PROVE  offer[<<t, j>>] = "taken" \/ k.vals[j] \in added
    <3>1. j = i /\ (open \/ offer[<<t, i>>] = "taken") BY <1>10, <1>13, <2>5
    <3> QED BY <1>3, <1>8, <3>1
  <2> QED BY <1>13, <2>1, <2>2, <2>3, <2>4, <2>5 DEF LeavesTold
<1> QED BY <1>15, <1>16, <1>17, <1>18

\* A call that ends without a choice.
LEMMA EndLeaves ==
  ASSUME IInv, NEW t \in Tasks, NEW k, Begins(t, k), NEW what, Ends(t, k, what)
  PROVE  /\ ChanTypes'
         /\ \E c, taken, filled, v, added, rs, ss :
              /\ LeavesCall(t, k, c, taken, filled, v) /\ LeavesTold(t, k, c, taken, added)
              /\ LeavesQueue(t, k, taken, filled, {}, rs, ss)
<1> DEFINE G(d)  == GivenBack(t, k, CasesOf(k), d)
           given  == {d \in Chans : G(d) # <<>>}
           whats == [j \in Sends(k) |-> what]
           c == k.cases[1].ch
<1>1. /\ Leave(t, None, None, None)
      /\ Registered(t, k, {}, given, {})
      /\ woken' = ((woken \cup WakeAll(given, {}, {})) \cap Busy) \ {t}
      /\ buf' = [d \in Chans |-> G(d) \o buf[d]]
      /\ Tell(k, whats)
      /\ UNCHANGED <<made, closed, accepted, got>>
      /\ what = "nothing" \/ (what = "failed" /\ DeliveredCases(t, k) = {})
  BY DEF Ends, GiveUp, PutBack
<1>2. TypeOK /\ ChanTypes /\ CallTypes /\ QueueTypes /\ Shape(k) BY TypeParts, BeginsShape DEF IInv
<1>3. c \in Chans BY <1>2 DEF Shape
<1>4. \A d \in Chans : G(d) \in Seq(Values) /\ (~Rendezvous(d) => G(d) = <<>>)
  BY <1>2, GivenFacts DEF Begins
<1>5. \A d \in Chans : d \notin given => G(d) = <<>> OBVIOUS
<1>6. \A j \in Sends(k) : whats[j] = what OBVIOUS
<1>7. {a[1] : a \in {None, None} \ {None}} = {} OBVIOUS
<1> HIDE DEF G, given, whats, c
<1>8. ASSUME NEW d \in Chans
      PROVE  /\ buf'[d] \in Seq(Values) /\ (d \notin given => buf'[d] = buf[d])
             /\ (~Rendezvous(d) => buf'[d] = buf[d])
  <2>1. buf[d] \in Seq(Values) BY <1>2 DEF ChanTypes
  <2>2. buf'[d] = G(d) \o buf[d] BY <1>1
  <2>3. G(d) \o buf[d] \in Seq(Values) BY <1>4, <2>1, ConcatProperties
  <2>4. G(d) = <<>> => G(d) \o buf[d] = buf[d] BY <2>1, ConcatEmptySeq
  <2> QED BY <1>4, <1>5, <2>2, <2>3, <2>4
<1>9. /\ \A j \in Sends(k) : told'[k.vals[j]] = what
      /\ \A w \in Values : (\A j \in Sends(k) : k.vals[j] # w) => told'[w] = told[w]
      /\ told' \in [Values -> {"nothing", "sent", "failed"}]
  <2>1. \A j \in Sends(k) : k.vals[j] \in Values BY DEF Begins
  <2>2. \A j \in Sends(k) : whats[j] \in {"nothing", "sent", "failed"} BY <1>1, <1>6
  <2> QED BY <1>1, <1>2, <1>6, <2>1, <2>2, TellFacts
<1>10. recvWakers' \in [Chans -> SUBSET Tasks] /\ sendWakers' \in [Chans -> SUBSET Tasks]
  BY <1>1, <1>2 DEF Registered, ChanTypes
<1>11. ChanTypes'
  <2>1. buf' = [d \in Chans |-> buf'[d]] BY <1>1
  <2>2. buf' \in [Chans -> Seq(Values)] BY <1>8, <2>1
  <2> QED BY <1>1, <1>2, <1>8, <1>9, <1>10, <2>2 DEF ChanTypes, Begins, Rendezvous, Room
<1>12. LeavesCall(t, k, c, None, None, None) BY <1>1, <1>3 DEF LeavesCall
<1>13. LeavesTold(t, k, c, None, {})
  <2>1. ASSUME NEW j \in Sends(k), told'[k.vals[j]] = "failed" PROVE offer[<<t, j>>] # "taken"
    <3>1. DeliveredCases(t, k) = {} /\ j \in CasesOf(k) BY <1>1, <1>9, <2>1 DEF Sends
    <3> QED BY <3>1 DEF DeliveredCases
  <2>2. \A j \in Sends(k) : told'[k.vals[j]] # "sent" BY <1>1, <1>9
  <2> QED BY <1>1, <1>9, <2>1, <2>2 DEF LeavesTold
<1>14. LeavesQueue(t, k, None, None, {}, given, {})
  <2>1. \A d \in Chans : ~Rendezvous(d) => ~(Len(buf'[d]) < Len(buf[d]))
    <3> SUFFICES ASSUME NEW d \in Chans, ~Rendezvous(d) PROVE ~(Len(buf'[d]) < Len(buf[d]))
      OBVIOUS
    <3>1. buf'[d] = buf[d] /\ Len(buf[d]) \in Nat BY <1>2, <1>8, LenProperties DEF ChanTypes
    <3> QED BY <3>1
  <2>2. \A d \in Chans : buf[d] = <<>> /\ buf'[d] # <<>> => d \in given BY <1>8
  <2> QED BY <1>1, <1>7, <2>1, <2>2 DEF LeavesQueue
<1> QED BY <1>11, <1>12, <1>13, <1>14

(***************************************************************************)
(* Sleep.                                                                  *)
(***************************************************************************)
\* A step that concerns u neither in its call nor where it is registered.
Undisturbed(u) ==
  /\ UNCHANGED made /\ call'[u] = call[u] /\ u \notin cancelled' /\ (u \in due' => u \in due)
  /\ \A a \in CaseIds : a[1] = u => offer'[a] = offer[a] /\ slot'[a] = slot[a]
  /\ \A c \in Chans : u \in recvWakers[c] =>
       u \in recvWakers'[c] /\ closed'[c] = closed[c] /\ (buf[c] = <<>> => buf'[c] = <<>>)
  /\ \A c \in Chans : u \in sendWakers[c] =>
       u \in sendWakers'[c] /\ closed'[c] = closed[c] /\ ~(Len(buf'[c]) < Len(buf[c]))
  /\ \A c \in Chans : \A w \in Range(waiters[c]) : w[1] = u =>
       /\ w \in Range(waiters'[c]) /\ closed'[c] = closed[c] /\ (buf[c] = <<>> => buf'[c] = <<>>)
       /\ \A o \in Range(offers'[c]) : o[1] # u /\ ~mark'[o[1]] => o \in Range(offers[c]) /\ ~mark[o[1]]

\* Whom a step does not disturb still has nothing ready.
LEMMA StillAsleep ==
  ASSUME IInv, TypeOK', NEW u \in Busy \ woken, Undisturbed(u), NEW k, k = call[u]
  PROVE  RegisteredIn(u, k)' /\ NothingReady(u, k)'
<1>0. TypeOK /\ ChanTypes /\ CallTypes /\ Shape(k) /\ ~k.default
  BY TypeParts, BusyCalls DEF IInv
<1>1. RegisteredIn(u, k) /\ NothingReady(u, k)
  BY DEF IInv, RegisteredInv, NoSleepBesideReady, NothingReady
<1>2. ASSUME NEW i \in CasesOf(k)
      PROVE  <<u, i>> \in CaseIds /\ offer'[<<u, i>>] = offer[<<u, i>>] /\ slot'[<<u, i>>] = slot[<<u, i>>]
  <2>1. <<u, i>> \in CaseIds /\ <<u, i>>[1] = u BY <1>0, CaseNamed DEF Busy
  <2> QED BY <2>1 DEF Undisturbed
<1>3. ASSUME NEW i \in CasesOf(k), NEW c, c = k.cases[i].ch
      PROVE  /\ c \in Chans /\ Rendezvous(c)' = Rendezvous(c)
             /\ k.cases[i].kind = "recv" /\ ~Rendezvous(c) => u \in recvWakers[c] /\ u \in recvWakers'[c]
             /\ k.cases[i].kind = "recv" /\ Rendezvous(c) =>
                  <<u, i>> \in Range(waiters[c]) /\ <<u, i>> \in Range(waiters'[c])
             /\ k.cases[i].kind = "send" /\ ~Rendezvous(c) => u \in sendWakers[c] /\ u \in sendWakers'[c]
             /\ k.cases[i].kind = "send" /\ Rendezvous(c) =>
                  offer[<<u, i>>] # "none" /\ offer'[<<u, i>>] # "none"
  <2>1. c \in Chans BY <1>0, <1>3 DEF Shape
  <2>2. Rendezvous(c)' = Rendezvous(c) BY DEF Rendezvous, Room, Undisturbed
  <2>3. <<u, i>>[1] = u OBVIOUS
  <2> QED BY <1>1, <1>2, <1>3, <2>1, <2>2, <2>3 DEF RegisteredIn, Undisturbed
<1>4. RegisteredIn(u, k)' BY <1>3 DEF RegisteredIn
<1>5. u \notin cancelled' /\ DeliveredCases(u, k)' = {}
  <2>1. \A i \in CasesOf(k) : offer[<<u, i>>] # "taken" BY <1>1 DEF NothingReady, DeliveredCases
  <2> QED BY <1>2, <2>1 DEF DeliveredCases, Undisturbed
<1>6. ASSUME NEW i \in CasesOf(k), NEW c, c = k.cases[i].ch PROVE ~Ready(u, k, i)'
  <2>0. ~Ready(u, k, i) BY <1>1 DEF NothingReady
  <2>1. CASE k.cases[i].kind = "timer"
    <3>1. u \notin due BY <2>0, <2>1 DEF Ready
    <3> QED BY <2>1, <3>1 DEF Ready, Undisturbed
  <2>2. CASE k.cases[i].kind = "recv"
    <3>1. ~closed[c] /\ buf[c] = <<>> /\ ~(Rendezvous(c) /\ (slot[<<u, i>>] # None \/ Takeable(u, c) # <<>>))
      BY <1>6, <2>0, <2>2 DEF Ready, RecvReady
    <3>2. ~closed'[c] /\ buf'[c] = <<>>
      <4>1. CASE Rendezvous(c)
        <5>1. <<u, i>> \in Range(waiters[c]) /\ <<u, i>>[1] = u /\ c \in Chans BY <1>3, <1>6, <2>2, <4>1
        <5> QED BY <3>1, <5>1 DEF Undisturbed
      <4>2. CASE ~Rendezvous(c)
        <5>1. u \in recvWakers[c] /\ c \in Chans BY <1>3, <1>6, <2>2, <4>2
        <5> QED BY <3>1, <5>1 DEF Undisturbed
      <4> QED BY <4>1, <4>2
    <3>3. ASSUME Rendezvous(c), Takeable(u, c)' # <<>> PROVE FALSE
      <4> DEFINE S == {o \in CaseIds : ~mark'[o[1]] /\ o[1] # u}
      <4>1. Takeable(u, c)' = Keep(offers'[c], S) BY DEF Takeable, Pairs
      <4>2. c \in Chans /\ offers'[c] \in Seq(CaseIds) BY <1>3, <1>6 DEF TypeOK
      <4>3. \A o \in S : ~mark'[o[1]] /\ o[1] # u OBVIOUS
      <4> HIDE DEF S
      <4>4. PICK o : o \in Range(offers'[c]) /\ o \in S
        <5>1. Keep(offers'[c], S) \in Seq(CaseIds) /\ Range(Keep(offers'[c], S)) = Range(offers'[c]) \cap S
          BY <4>2, KeepFacts
        <5>2. Head(Keep(offers'[c], S)) \in Range(Keep(offers'[c], S)) BY <3>3, <4>1, <5>1, HeadInRange
        <5> QED BY <5>1, <5>2
      <4>5. <<u, i>> \in Range(waiters[c]) /\ <<u, i>>[1] = u BY <1>3, <1>6, <2>2, <3>3
      <4>6. o \in Range(offers[c]) /\ ~mark[o[1]] /\ o[1] # u BY <4>2, <4>3, <4>4, <4>5 DEF Undisturbed
      <4>7. o \in Range(Takeable(u, c)) BY <4>2, <4>6, PairFacts DEF Pairs
      <4>8. Takeable(u, c) # <<>> BY <4>7 DEF Range
      <4> QED BY <3>1, <3>3, <4>8
    <3>4. Rendezvous(c)' = Rendezvous(c) /\ slot'[<<u, i>>] = slot[<<u, i>>] BY <1>2, <1>3, <1>6
    <3>5. ~RecvReady(u, i, c)' BY <3>1, <3>2, <3>3, <3>4 DEF RecvReady
    <3> QED BY <1>6, <2>2, <3>5 DEF Ready
  <2>3. CASE k.cases[i].kind = "send"
    <3>1. ~SendReady(u, i, c, k.default) BY <1>6, <2>0, <2>3 DEF Ready
    <3>2. c \in Chans /\ Rendezvous(c)' = Rendezvous(c) /\ Room(c)' = Room(c) BY <1>3, <1>6 DEF Room, Undisturbed
    <3>3. CASE Rendezvous(c)
      <4>1. offer'[<<u, i>>] = offer[<<u, i>>] /\ offer[<<u, i>>] # "none" BY <1>2, <1>3, <1>6, <2>3, <3>3
      <4>2. offer[<<u, i>>] \notin {"taken", "withdrawn"} BY <3>1, <3>3 DEF SendReady
      <4>3. ~SendReady(u, i, c, k.default)' BY <3>2, <3>3, <4>1, <4>2 DEF SendReady
      <4> QED BY <1>6, <2>3, <4>3 DEF Ready
    <3>4. CASE ~Rendezvous(c)
      <4>1. u \in sendWakers[c] BY <1>3, <1>6, <2>3, <3>4
      <4>2. ~closed[c] /\ ~(Len(buf[c]) < Room(c)) BY <3>1, <3>4 DEF SendReady, RoomIn
      <4>3. Len(buf[c]) \in Nat /\ Len(buf'[c]) \in Nat /\ Room(c) \in Nat
        <5>1. buf[c] \in Seq(Values) /\ buf'[c] \in Seq(Values) BY <3>2 DEF TypeOK, IInv
        <5> QED BY <1>0, <3>2, <5>1, LenProperties, ChanFacts
      <4>4. ~closed'[c] /\ ~(Len(buf'[c]) < Len(buf[c])) BY <3>2, <4>1, <4>2 DEF Undisturbed
      <4>5. ~(Len(buf'[c]) < Room(c)) BY <4>2, <4>3, <4>4
      <4>6. ~SendReady(u, i, c, k.default)' BY <3>2, <3>4, <4>4, <4>5 DEF SendReady, RoomIn
      <4> QED BY <1>6, <2>3, <4>6 DEF Ready
    <3> QED BY <3>3, <3>4
  <2>4. k.cases[i].kind \in CaseKinds BY <1>0 DEF Shape
  <2> QED BY <2>1, <2>2, <2>3, <2>4 DEF CaseKinds
<1>7. \A i \in CasesOf(k) : ~Ready(u, k, i)' BY <1>6
<1> QED BY <1>4, <1>5, <1>7 DEF NothingReady

\* So the invariants of sleep are kept if every sleeper is undisturbed or falls asleep with nothing ready.
LEMMA SleepKept ==
  ASSUME IInv, TypeOK',
         \A u \in Busy' \ woken' : \/ u \in Busy \ woken /\ Undisturbed(u)
                                   \/ \E k : k = call'[u] /\ RegisteredIn(u, k)' /\ NothingReady(u, k)'
  PROVE  RegisteredInv' /\ NoSleepBesideReady'
<1>1. ASSUME NEW u \in Busy' \ woken', NEW k, k = call'[u] PROVE RegisteredIn(u, k)' /\ NothingReady(u, k)'
  <2>1. CASE u \in Busy \ woken /\ Undisturbed(u)
    <3>1. k = call[u] BY <1>1, <2>1 DEF Undisturbed
    <3> QED BY <2>1, <3>1, StillAsleep
  <2>2. CASE \E h : h = call'[u] /\ RegisteredIn(u, h)' /\ NothingReady(u, h)' BY <1>1, <2>2
  <2> QED BY <2>1, <2>2
<1> QED BY <1>1 DEF RegisteredInv, NoSleepBesideReady, NothingReady

(***************************************************************************)
(* What the end of a call keeps.                                           *)
(***************************************************************************)
\* Whose the taken offer and the filled waiter are.
LEMMA LeavesOthers ==
  ASSUME IInv, NEW t \in Tasks, NEW k, NEW c, NEW taken, NEW filled, NEW v,
         LeavesCall(t, k, c, taken, filled, v)
  PROVE  /\ taken # None =>
              /\ taken \in CaseIds /\ taken[1] \in Busy \ {t} /\ taken[2] \in Sends(call[taken[1]])
              /\ call[taken[1]].cases[taken[2]].ch = c /\ offer[taken] = "open" /\ Rendezvous(c)
              /\ ~mark[taken[1]] /\ call[taken[1]].vals[taken[2]] \in Values
         /\ filled # None =>
              /\ filled \in CaseIds /\ filled[1] \in Busy \ {t} /\ IsCase(call[filled[1]], filled[2], "recv", c)
              /\ filled[2] \in CasesOf(call[filled[1]]) /\ Rendezvous(c) /\ slot[filled] = None
              /\ v \in Values
<1>1. c \in Chans BY DEF LeavesCall
<1>2. ASSUME taken # None
      PROVE  /\ taken \in CaseIds /\ taken[1] \in Busy \ {t} /\ taken[2] \in Sends(call[taken[1]])
              /\ call[taken[1]].cases[taken[2]].ch = c /\ offer[taken] = "open" /\ Rendezvous(c)
              /\ ~mark[taken[1]] /\ call[taken[1]].vals[taken[2]] \in Values
  <2>1. taken \in Range(offers[c]) /\ Pairs(t, taken) BY <1>2 DEF LeavesCall
  <2> QED BY <1>1, <2>1, OfferFacts DEF Pairs
<1>3. ASSUME filled # None
      PROVE  /\ filled \in CaseIds /\ filled[1] \in Busy \ {t} /\ IsCase(call[filled[1]], filled[2], "recv", c)
             /\ filled[2] \in CasesOf(call[filled[1]]) /\ Rendezvous(c) /\ slot[filled] = None /\ v \in Values
  <2>1. filled \in Range(waiters[c]) /\ slot[filled] = None /\ Pairs(t, filled) /\ v \in Values
    BY <1>3 DEF LeavesCall
  <2>2. filled \in CaseIds /\ filled[1] \in Busy /\ IsCase(call[filled[1]], filled[2], "recv", c) /\ Rendezvous(c)
    BY <1>1, <2>1, WaiterFacts
  <2>3. filled[2] \in CasesOf(call[filled[1]]) BY <1>1, <2>1 DEF IInv, WakerInv
  <2> QED BY <2>1, <2>2, <2>3 DEF Pairs
<1> QED BY <1>2, <1>3

LEMMA LeavesCalls ==
  ASSUME IInv, NEW t \in Tasks, NEW k, NEW c, NEW taken, NEW filled, NEW v,
         LeavesCall(t, k, c, taken, filled, v)
  PROVE  /\ Busy' = Busy \ {t} /\ call'[t] = None /\ \A u \in Tasks \ {t} : call'[u] = call[u]
         /\ \A d \in Chans :
              /\ Rendezvous(d)' = Rendezvous(d) /\ Ticker(d)' = Ticker(d)
              /\ \A o : o \in Range(offers'[d]) <=> o \in Range(offers[d]) /\ o[1] # t /\ o # taken
              /\ \A w : w \in Range(waiters'[d]) <=> w \in Range(waiters[d]) /\ w[1] # t
         /\ \A a \in CaseIds :
              /\ a[1] = t => offer'[a] = "none" /\ slot'[a] = None
              /\ a[1] # t => /\ offer'[a] = (IF a = taken THEN "taken" ELSE offer[a])
                             /\ slot'[a] = (IF a = filled THEN v ELSE slot[a])
         /\ \A u \in Tasks : mark'[u] = (u # t /\ (mark[u] \/ (taken # None /\ u = taken[1])))
<1>0. CallTypes BY TypeParts DEF IInv
<1>1. Leave(t, taken, filled, v) /\ made' = made BY DEF LeavesCall
<1>2. call'[t] = None
  <2>1. call' = [call EXCEPT ![t] = None] /\ call = [u \in Tasks |-> call[u]] BY <1>0, <1>1, LeaveEffect DEF CallTypes
  <2> QED BY <2>1
<1>3. \A d \in Chans : Rendezvous(d)' = Rendezvous(d) /\ Ticker(d)' = Ticker(d)
  BY <1>1 DEF Rendezvous, Ticker, Room
<1>4. /\ \A a \in CaseIds :
              /\ a[1] = t => offer'[a] = "none" /\ slot'[a] = None
              /\ a[1] # t => /\ offer'[a] = (IF a = taken THEN "taken" ELSE offer[a])
                             /\ slot'[a] = (IF a = filled THEN v ELSE slot[a])
      /\ \A u \in Tasks : mark'[u] = (u # t /\ (mark[u] \/ (taken # None /\ u = taken[1])))
  BY <1>1 DEF Leave
<1> QED BY <1>0, <1>1, <1>2, <1>3, <1>4, LeaveEffect

LEMMA LeavesTypes ==
  ASSUME IInv, NEW t \in Tasks, NEW k, NEW c, NEW taken, NEW filled, NEW v, NEW polled, NEW rs, NEW ss,
         LeavesCall(t, k, c, taken, filled, v), LeavesQueue(t, k, taken, filled, polled, rs, ss), ChanTypes'
  PROVE  TypeOK'
<1>1. TypeOK BY DEF IInv
<1>2. CallTypes' /\ due' \subseteq Busy' /\ cancelled' \subseteq Busy'
  BY <1>1, LeaveTypes DEF LeavesCall, Begins
<1>3. woken' \subseteq Busy'
  <2>1. Busy' = Busy \ {t} BY LeavesCalls
  <2>2. woken' \subseteq Busy \ {t} BY DEF LeavesQueue
  <2> QED BY <2>1, <2>2
<1>4. QueueTypes' BY <1>2, <1>3 DEF QueueTypes
<1> QED BY <1>2, <1>4 DEF TypeOK, ChanTypes, CallTypes, QueueTypes

LEMMA LeavesState ==
  ASSUME IInv, NEW t \in Tasks, NEW k, NEW c, NEW taken, NEW filled, NEW v, NEW polled, NEW rs, NEW ss,
         LeavesCall(t, k, c, taken, filled, v), LeavesQueue(t, k, taken, filled, polled, rs, ss)
  PROVE  IdleInv' /\ OfferInv' /\ SlotInv' /\ WakerInv'
<1>1. /\ Busy' = Busy \ {t} /\ call'[t] = None /\ \A u \in Tasks \ {t} : call'[u] = call[u]
      /\ \A d \in Chans :
              /\ Rendezvous(d)' = Rendezvous(d)
              /\ \A w : w \in Range(waiters'[d]) <=> w \in Range(waiters[d]) /\ w[1] # t
      /\ \A a \in CaseIds :
              /\ a[1] = t => offer'[a] = "none" /\ slot'[a] = None
              /\ a[1] # t => /\ offer'[a] = (IF a = taken THEN "taken" ELSE offer[a])
                             /\ slot'[a] = (IF a = filled THEN v ELSE slot[a])
      /\ \A u \in Tasks : mark'[u] = (u # t /\ (mark[u] \/ (taken # None /\ u = taken[1])))
  BY LeavesCalls
<1>2. /\ taken # None =>
           /\ taken \in CaseIds /\ taken[1] \in Busy \ {t} /\ taken[2] \in Sends(call[taken[1]])
           /\ call[taken[1]].cases[taken[2]].ch = c /\ offer[taken] = "open" /\ Rendezvous(c)
           /\ ~mark[taken[1]]
      /\ filled # None =>
           /\ filled \in CaseIds /\ filled[1] \in Busy \ {t} /\ IsCase(call[filled[1]], filled[2], "recv", c)
           /\ filled[2] \in CasesOf(call[filled[1]]) /\ Rendezvous(c) /\ slot[filled] = None
  BY LeavesOthers
<1>a. \A a \in CaseIds : a # None /\ a[1] \in Tasks BY IdsNamed
<1>b. \A u \in Tasks : u \in Busy <=> call[u] # None BY DEF Busy
<1>3. IdleInv'
  <2> SUFFICES ASSUME NEW u \in Tasks, call'[u] = None
               PROVE  ~mark'[u] /\ \A a \in CaseIds : a[1] = u => offer'[a] = "none" /\ slot'[a] = None
    BY DEF IdleInv
  <2>1. CASE u = t BY <1>1, <2>1
  <2>2. CASE u # t
    <3>1. call[u] = None BY <1>1, <2>2
    <3>2. ~mark[u] /\ \A a \in CaseIds : a[1] = u => offer[a] = "none" /\ slot[a] = None
      BY <3>1 DEF IInv, IdleInv
    <3>3. (taken # None => u # taken[1]) /\ (filled # None => u # filled[1]) BY <1>2, <1>b, <3>1
    <3> QED BY <1>1, <1>a, <2>2, <3>2, <3>3
  <2> QED BY <2>1, <2>2
<1>4. OfferInv'
  <2>0. OfferInv BY DEF IInv
  <2>1. ASSUME NEW a \in CaseIds, offer'[a] # "none"
        PROVE  /\ a[1] # t /\ offer[a] # "none" /\ call'[a[1]] = call[a[1]]
               /\ offer'[a] = "taken" => mark'[a[1]] /\ (offer[a] = "taken" \/ (taken # None /\ a = taken))
    <3>1. a[1] # t /\ a[1] \in Tasks /\ a # None BY <1>1, <1>a, <2>1
    <3>2. offer'[a] = (IF a = taken THEN "taken" ELSE offer[a]) BY <1>1, <3>1
    <3>3. offer[a] # "none" BY <1>2, <2>1, <3>1, <3>2
    <3>4. offer'[a] = "taken" => offer[a] = "taken" \/ (taken # None /\ a = taken) BY <3>1, <3>2
    <3>5. offer[a] = "taken" => mark[a[1]] BY <2>0, <3>3 DEF OfferInv
    <3> QED BY <1>1, <3>1, <3>3, <3>4, <3>5
  <2>2. ASSUME NEW a \in CaseIds, offer'[a] # "none"
        PROVE  /\ call'[a[1]] # None /\ a[2] \in Sends(call'[a[1]]) /\ made'[call'[a[1]].cases[a[2]].ch].cap = 0
               /\ offer'[a] = "taken" => mark'[a[1]]
    <3>1. /\ a[1] # t /\ offer[a] # "none" /\ call'[a[1]] = call[a[1]]
          /\ offer'[a] = "taken" => mark'[a[1]]
      BY <2>1, <2>2
    <3>2. call[a[1]] # None /\ a[2] \in Sends(call[a[1]]) /\ Rendezvous(call[a[1]].cases[a[2]].ch)
      BY <2>0, <3>1 DEF OfferInv
    <3>3. made' = made BY DEF LeavesCall
    <3> QED BY <3>1, <3>2, <3>3 DEF Rendezvous, Room
  <2>3. ASSUME NEW x \in CaseIds, NEW y \in CaseIds, offer'[x] = "taken", offer'[y] = "taken", x[1] = y[1] PROVE x = y
    <3>1. /\ offer[x] = "taken" \/ (taken # None /\ x = taken)
          /\ offer[y] = "taken" \/ (taken # None /\ y = taken)
      BY <2>1, <2>3
    <3>2. (offer[x] = "taken" => mark[x[1]]) /\ (offer[y] = "taken" => mark[y[1]]) BY <2>0 DEF OfferInv
    <3>3. CASE offer[x] = "taken" /\ offer[y] = "taken" BY <2>0, <2>3, <3>3 DEF OfferInv
    <3>4. CASE ~(offer[x] = "taken" /\ offer[y] = "taken") BY <1>2, <2>3, <3>1, <3>2, <3>4
    <3> QED BY <3>3, <3>4
  <2> QED BY <2>2, <2>3 DEF OfferInv, Sends, CasesOf, Rendezvous, Room
<1>5. SlotInv'
  <2> SUFFICES ASSUME NEW a \in CaseIds, slot'[a] # None
               PROVE  /\ call'[a[1]] # None /\ a[2] \in CasesOf(call'[a[1]])
                      /\ call'[a[1]].cases[a[2]].kind = "recv" /\ made'[call'[a[1]].cases[a[2]].ch].cap = 0
    BY DEF SlotInv, CasesOf, Rendezvous, Room
  <2>1. a[1] # t /\ a[1] \in Tasks /\ a # None /\ call'[a[1]] = call[a[1]] BY <1>1, <1>a
  <2>2. slot'[a] = (IF a = filled THEN v ELSE slot[a]) BY <1>1, <2>1
  <2>3. /\ call[a[1]] # None /\ a[2] \in CasesOf(call[a[1]])
        /\ call[a[1]].cases[a[2]].kind = "recv" /\ Rendezvous(call[a[1]].cases[a[2]].ch)
    <3>1. CASE a = filled BY <1>2, <1>b, <2>1, <3>1 DEF IsCase
    <3>2. CASE a # filled BY <2>2, <3>2 DEF IInv, SlotInv
    <3> QED BY <3>1, <3>2
  <2>4. made' = made BY DEF LeavesCall
  <2> QED BY <2>1, <2>3, <2>4 DEF Rendezvous, Room
<1>6. WakerInv'
  <2>0. WakerInv BY DEF IInv
  <2>1. ASSUME NEW d \in Chans, Rendezvous(d)' PROVE recvWakers'[d] = {} /\ sendWakers'[d] = {}
    <3>1. Rendezvous(d) /\ recvWakers[d] = {} /\ sendWakers[d] = {} BY <1>1, <2>0, <2>1 DEF WakerInv
    <3> QED BY <3>1 DEF LeavesQueue, Registered, Registers
  <2>2. ASSUME NEW d \in Chans, NEW w \in Range(waiters'[d]) PROVE w[2] \in CasesOf(call'[w[1]])
    <3>1. w \in Range(waiters[d]) /\ w[1] # t BY <1>1
    <3>2. w[1] \in Busy /\ w[2] \in CasesOf(call[w[1]]) BY <2>0, <3>1, WaiterFacts DEF WakerInv
    <3>3. call'[w[1]] = call[w[1]] BY <1>1, <3>1, <3>2 DEF Busy
    <3> QED BY <3>2, <3>3
  <2> QED BY <2>1, <2>2 DEF WakerInv, CasesOf
<1> QED BY <1>3, <1>4, <1>5, <1>6

LEMMA LeavesValues ==
  ASSUME IInv, NEW t \in Tasks, NEW k, NEW c, NEW taken, NEW filled, NEW v, NEW added,
         LeavesCall(t, k, c, taken, filled, v), LeavesTold(t, k, c, taken, added)
  PROVE  OwnInv' /\ CaseInv' /\ FreshInv' /\ TickInv' /\ ReportsAgree'
<1>0. TypeOK /\ Begins(t, k) /\ c \in Chans BY DEF IInv, LeavesCall
<1>1. /\ Busy' = Busy \ {t} /\ call'[t] = None /\ \A u \in Tasks \ {t} : call'[u] = call[u]
      /\ \A d \in Chans : Ticker(d)' = Ticker(d)
      /\ \A a \in CaseIds : a[1] # t => offer'[a] = (IF a = taken THEN "taken" ELSE offer[a])
  BY LeavesCalls
<1>2. taken # None =>
           /\ taken \in CaseIds /\ taken[1] \in Busy \ {t} /\ taken[2] \in Sends(call[taken[1]])
           /\ call[taken[1]].cases[taken[2]].ch = c /\ offer[taken] = "open" /\ Rendezvous(c)
  BY LeavesOthers
<1>3. /\ \A d \in Chans : Range(accepted'[d]) = IF d = c THEN Range(accepted[d]) \cup added ELSE Range(accepted[d])
      /\ \A w \in added : \/ taken # None /\ w = call[taken[1]].vals[taken[2]]
                          \/ \E j \in Sends(k) : w = k.vals[j] /\ c = k.cases[j].ch
      /\ taken # None => call[taken[1]].vals[taken[2]] \in added
      /\ \A j \in Sends(k) :
           /\ told'[k.vals[j]] = "failed" => offer[<<t, j>>] # "taken" /\ k.vals[j] \notin added
           /\ told'[k.vals[j]] = "sent" => offer[<<t, j>>] = "taken" \/ k.vals[j] \in added
      /\ \A w \in Values : (\A j \in Sends(k) : k.vals[j] # w) => told'[w] = told[w]
  BY DEF LeavesTold
<1>4. \A u \in Busy' : u \in Busy \ {t} /\ u \in Tasks /\ call'[u] = call[u] BY <1>1 DEF Busy
<1>5. \A u \in Busy \ {t} : \A x \in Sends(call[u]), j \in Sends(k) : call[u].vals[x] # k.vals[j]
  BY <1>0, OtherValues
<1>6. \A u \in Busy : \A x \in Sends(call[u]) :
        /\ call[u].vals[x] \in Values /\ call[u].vals[x] < next /\ <<u, x>> \in CaseIds /\ x \in CasesOf(call[u])
        /\ ~Ticker(call[u].cases[x].ch) /\ call[u].cases[x].ch \in Chans
  <2> SUFFICES ASSUME NEW u \in Busy, NEW x \in Sends(call[u])
               PROVE  /\ call[u].vals[x] \in Values /\ call[u].vals[x] < next /\ <<u, x>> \in CaseIds
                      /\ x \in CasesOf(call[u]) /\ ~Ticker(call[u].cases[x].ch) /\ call[u].cases[x].ch \in Chans
    OBVIOUS
  <2>1. /\ u \in Tasks /\ Shape(call[u]) /\ call[u].vals[x] \in Values /\ call[u].vals[x] < next
        /\ ~Ticker(call[u].cases[x].ch)
    BY <1>0, BusyCalls
  <2>2. x \in CasesOf(call[u]) BY DEF Sends
  <2> QED BY <2>1, <2>2, CaseNamed DEF Shape
<1>v. \A w \in Values : w \in Nat BY DEF Values
<1>7. \A j \in Sends(k) :
        /\ k.vals[j] \in Values /\ k.vals[j] < next' /\ ~Ticker(k.cases[j].ch) /\ told[k.vals[j]] = "nothing"
        /\ \A d \in Chans : k.vals[j] \in Range(accepted[d]) <=> offer[<<t, j>>] = "taken" /\ d = k.cases[j].ch
        /\ k.cases[j].ch \in Chans
  BY <1>0, OwnFacts
<1>8. OwnInv'
  <2> SUFFICES ASSUME NEW u \in Busy', NEW w \in Busy', NEW x \in Sends(call'[u]), NEW y \in Sends(call'[w]),
                      call'[u].vals[x] = call'[w].vals[y]
               PROVE  u = w /\ x = y
    BY DEF OwnInv, Sends, CasesOf
  <2>1. u \in Busy /\ w \in Busy /\ call'[u] = call[u] /\ call'[w] = call[w] BY <1>4
  <2> QED BY <2>1 DEF IInv, OwnInv
<1>9. CaseInv'
  <2>1. ASSUME NEW u \in Busy', NEW x \in Sends(call[u])
        PROVE  /\ told'[call[u].vals[x]] = "nothing"
               /\ \A d \in Chans : call[u].vals[x] \in Range(accepted'[d]) <=>
                     offer'[<<u, x>>] = "taken" /\ d = call[u].cases[x].ch
    <3>1. u \in Busy /\ u # t /\ u \in Tasks BY <1>4
    <3>2. /\ told[call[u].vals[x]] = "nothing"
          /\ \A d \in Chans : call[u].vals[x] \in Range(accepted[d]) <=>
                     offer[<<u, x>>] = "taken" /\ d = call[u].cases[x].ch
      BY <3>1 DEF IInv, CaseInv
    <3>3. call[u].vals[x] \in Values /\ <<u, x>> \in CaseIds BY <1>6, <3>1
    <3>4. \A j \in Sends(k) : k.vals[j] # call[u].vals[x] BY <1>5, <3>1
    <3>5. told'[call[u].vals[x]] = told[call[u].vals[x]] BY <1>3, <3>3, <3>4
    <3>6. offer'[<<u, x>>] = (IF <<u, x>> = taken THEN "taken" ELSE offer[<<u, x>>])
      <4>1. <<u, x>>[1] # t BY <3>1
      <4> QED BY <1>1, <3>3, <4>1
    <3>7. call[u].vals[x] \in added <=> taken # None /\ <<u, x>> = taken
      <4>1. ASSUME taken # None, <<u, x>> = taken PROVE call[u].vals[x] \in added
        <5>1. taken[1] = u /\ taken[2] = x BY <4>1
        <5> QED BY <1>3, <4>1, <5>1
      <4>2. ASSUME call[u].vals[x] \in added PROVE taken # None /\ <<u, x>> = taken
        <5>1. taken # None /\ call[u].vals[x] = call[taken[1]].vals[taken[2]] BY <1>3, <3>4, <4>2
        <5>2. u = taken[1] /\ x = taken[2] BY <1>2, <3>1, <5>1 DEF IInv, OwnInv
        <5>3. taken = <<taken[1], taken[2]>> BY <1>2, <5>1, IdsNamed
        <5> QED BY <5>1, <5>2, <5>3
      <4> QED BY <4>1, <4>2
    <3>8. <<u, x>> = taken => taken # None /\ call[u].cases[x].ch = c /\ offer[<<u, x>>] = "open"
      <4>1. ASSUME <<u, x>> = taken PROVE taken # None /\ taken[1] = u /\ taken[2] = x
        BY <3>3, <4>1, IdsNamed
      <4> QED BY <1>2, <4>1
    <3>9. \A d \in Chans : call[u].vals[x] \in Range(accepted'[d]) <=>
              call[u].vals[x] \in Range(accepted[d]) \/ (d = c /\ <<u, x>> = taken)
      <4>1. \A d \in Chans : call[u].vals[x] \in Range(accepted'[d]) <=>
              call[u].vals[x] \in Range(accepted[d]) \/ (d = c /\ call[u].vals[x] \in added)
        BY <1>3
      <4> QED BY <3>7, <3>8, <4>1
    <3>10. CASE <<u, x>> = taken
      <4>1. offer'[<<u, x>>] = "taken" /\ offer[<<u, x>>] # "taken" /\ call[u].cases[x].ch = c
        BY <3>6, <3>8, <3>10
      <4> QED BY <3>2, <3>5, <3>9, <3>10, <4>1
    <3>11. CASE <<u, x>> # taken BY <3>2, <3>5, <3>6, <3>9, <3>11
    <3> QED BY <3>10, <3>11
  <2> SUFFICES ASSUME NEW u \in Busy', NEW x \in Sends(call'[u])
               PROVE  /\ told'[call'[u].vals[x]] = "nothing"
                      /\ \A d \in Chans : call'[u].vals[x] \in Range(accepted'[d]) <=>
                           offer'[<<u, x>>] = "taken" /\ d = call'[u].cases[x].ch
    BY DEF CaseInv, Sends, CasesOf
  <2> QED BY <1>4, <2>1
<1>10. FreshInv'
  <2> SUFFICES ASSUME NEW w \in Values, w >= next'
               PROVE  told'[w] = "nothing" /\ \A d \in Chans : w \notin Range(accepted'[d])
    BY DEF FreshInv
  <2>0. next \in Nat /\ next' \in Nat /\ next <= next' /\ w \in Nat
    BY <1>0, MaxValuesAssumption DEF TypeOK, Begins, Values
  <2>1. told[w] = "nothing" /\ \A d \in Chans : w \notin Range(accepted[d])
    BY <2>0 DEF IInv, FreshInv
  <2>2. \A j \in Sends(k) : k.vals[j] # w
    <3>1. \A j \in Sends(k) : k.vals[j] < next' /\ k.vals[j] \in Nat BY <1>7, <1>v
    <3> QED BY <2>0, <3>1
  <2>3. w \notin added
    <3>1. taken # None => call[taken[1]].vals[taken[2]] \in Nat /\ call[taken[1]].vals[taken[2]] < next
      BY <1>2, <1>6, <1>v
    <3>2. taken # None => w # call[taken[1]].vals[taken[2]] BY <2>0, <3>1
    <3> QED BY <1>3, <2>2, <3>2
  <2> QED BY <1>3, <2>1, <2>2, <2>3
<1>11. TickInv'
  <2> SUFFICES ASSUME NEW d \in Chans, Ticker(d)', NEW w \in Range(accepted'[d]) PROVE told'[w] = "nothing"
    BY DEF TickInv
  <2>1. Ticker(d) BY <1>1
  <2>2. w \in Range(accepted[d])
    <3>1. CASE d = c /\ w \in added
      <4>1. taken # None => ~Ticker(c) BY <1>2, <1>6
      <4>2. \A j \in Sends(k) : ~Ticker(k.cases[j].ch) BY <1>7
      <4> QED BY <1>3, <2>1, <3>1, <4>1, <4>2
    <3>2. CASE ~(d = c /\ w \in added) BY <1>3, <3>2
    <3> QED BY <3>1, <3>2
  <2>3. told[w] = "nothing" BY <2>1, <2>2 DEF IInv, TickInv
  <2>4. w \in Values
    <3>1. accepted[d] \in Seq(Values) BY <1>0 DEF TypeOK
    <3> QED BY <2>2, <3>1, RangeOfSeq
  <2>5. \A j \in Sends(k) : k.vals[j] # w
    <3> SUFFICES ASSUME NEW j \in Sends(k), k.vals[j] = w PROVE FALSE OBVIOUS
    <3>1. d = k.cases[j].ch BY <1>7, <2>2
    <3> QED BY <1>7, <2>1, <3>1
  <2> QED BY <1>3, <2>3, <2>4, <2>5
<1>12. ReportsAgree'
  <2> SUFFICES ASSUME NEW w \in Values
               PROVE  /\ told'[w] = "failed" => \A d \in Chans : w \notin Range(accepted'[d])
                      /\ told'[w] = "sent" => \E d \in Chans : w \in Range(accepted'[d])
    BY DEF ReportsAgree
  <2>1. CASE \E j \in Sends(k) : k.vals[j] = w
    <3>1. PICK j \in Sends(k) : k.vals[j] = w BY <2>1
    <3>2. ASSUME told'[w] = "failed", NEW d \in Chans PROVE w \notin Range(accepted'[d])
      BY <1>3, <1>7, <3>1, <3>2
    <3>3. ASSUME told'[w] = "sent" PROVE \E d \in Chans : w \in Range(accepted'[d])
      <4>1. offer[<<t, j>>] = "taken" \/ w \in added BY <1>3, <3>1, <3>3
      <4>2. CASE offer[<<t, j>>] = "taken"
        <5>1. w \in Range(accepted[k.cases[j].ch]) /\ k.cases[j].ch \in Chans BY <1>7, <3>1, <4>2
        <5> QED BY <1>3, <5>1
      <4>3. CASE w \in added BY <1>0, <1>3, <4>3
      <4> QED BY <4>1, <4>2, <4>3
    <3> QED BY <3>2, <3>3
  <2>2. CASE \A j \in Sends(k) : k.vals[j] # w
    <3>1. told'[w] = told[w] BY <1>3, <2>2
    <3>2. /\ told[w] = "failed" => \A d \in Chans : w \notin Range(accepted[d])
          /\ told[w] = "sent" => \E d \in Chans : w \in Range(accepted[d])
      BY DEF IInv, ReportsAgree
    <3>3. told[w] = "failed" => w \notin added
      <4>1. taken # None => told[call[taken[1]].vals[taken[2]]] = "nothing" BY <1>2 DEF IInv, CaseInv
      <4> QED BY <1>3, <2>2, <4>1
    <3> QED BY <1>3, <3>1, <3>2, <3>3
  <2> QED BY <2>1, <2>2
<1> QED BY <1>8, <1>9, <1>10, <1>11, <1>12

LEMMA LeavesSleep ==
  ASSUME IInv, NEW t \in Tasks, NEW k, NEW c, NEW taken, NEW filled, NEW v, NEW polled, NEW rs, NEW ss,
         LeavesCall(t, k, c, taken, filled, v), LeavesQueue(t, k, taken, filled, polled, rs, ss), TypeOK'
  PROVE  RegisteredInv' /\ NoSleepBesideReady'
<1>1. /\ Busy' = Busy \ {t} /\ call'[t] = None /\ \A u \in Tasks \ {t} : call'[u] = call[u]
      /\ \A d \in Chans :
              /\ \A o : o \in Range(offers'[d]) <=> o \in Range(offers[d]) /\ o[1] # t /\ o # taken
              /\ \A w : w \in Range(waiters'[d]) <=> w \in Range(waiters[d]) /\ w[1] # t
      /\ \A a \in CaseIds : a[1] # t => /\ offer'[a] = (IF a = taken THEN "taken" ELSE offer[a])
                                        /\ slot'[a] = (IF a = filled THEN v ELSE slot[a])
      /\ \A u \in Tasks : mark'[u] = (u # t /\ (mark[u] \/ (taken # None /\ u = taken[1])))
  BY LeavesCalls
<1>2. /\ Registered(t, k, polled, rs, ss)
      /\ woken' = ((woken \cup WakeAll(rs, ss, {a[1] : a \in {taken, filled} \ {None}})) \cap Busy) \ {t}
      /\ \A d \in Chans : buf[d] = <<>> /\ buf'[d] # <<>> => d \in rs
      /\ \A d \in Chans : ~Rendezvous(d) /\ Len(buf'[d]) < Len(buf[d]) => d \in ss
  BY DEF LeavesQueue
<1>3. /\ UNCHANGED <<made, closed>> /\ cancelled' = cancelled \ {t} /\ due' = due \ {t}
  BY DEF LeavesCall, Leave
<1>4. TypeOK /\ WakerInv BY DEF IInv
<1>5. ASSUME NEW u \in Busy' \ woken' PROVE u \in Busy \ woken /\ Undisturbed(u)
  <2>1. u \in Tasks /\ u \in Busy /\ u # t /\ u \notin woken BY <1>1, <1>2 DEF Busy
  <2>2. u \notin WakeAll(rs, ss, {a[1] : a \in {taken, filled} \ {None}}) BY <1>2, <2>1
  <2>3. /\ \A d \in rs : u \notin recvWakers[d] /\ \A w \in Range(waiters[d]) : w[1] # u
        /\ \A d \in ss : u \notin sendWakers[d]
        /\ \A a \in {taken, filled} : a # None => a[1] # u
    BY <2>2 DEF WakeAll, Receivers
  <2>4. u \notin cancelled BY <2>1, <1>4 DEF IInv, NoSleepBesideReady
  <2>5. \A a \in CaseIds : a[1] = u => offer'[a] = offer[a] /\ slot'[a] = slot[a]
    BY <1>1, <2>1, <2>3, IdsNamed
  <2>6. ASSUME NEW d \in Chans, u \in recvWakers[d]
        PROVE  u \in recvWakers'[d] /\ (buf[d] = <<>> => buf'[d] = <<>>)
    <3>1. d \notin rs BY <2>3, <2>6
    <3> QED BY <1>2, <2>6, <3>1 DEF Registered
  <2>7. ASSUME NEW d \in Chans, u \in sendWakers[d]
        PROVE  u \in sendWakers'[d] /\ ~(Len(buf'[d]) < Len(buf[d]))
    <3>1. d \notin ss BY <2>3, <2>7
    <3>2. ~Rendezvous(d) BY <1>4, <2>7 DEF WakerInv
    <3> QED BY <1>2, <2>7, <3>1, <3>2 DEF Registered
  <2>8. ASSUME NEW d \in Chans, NEW w \in Range(waiters[d]), w[1] = u
        PROVE  /\ w \in Range(waiters'[d]) /\ (buf[d] = <<>> => buf'[d] = <<>>)
               /\ \A o \in Range(offers'[d]) : o[1] # u /\ ~mark'[o[1]] => o \in Range(offers[d]) /\ ~mark[o[1]]
    <3>1. d \notin rs BY <2>3, <2>8
    <3>2. w \in Range(waiters'[d]) BY <1>1, <2>1, <2>8
    <3>3. ASSUME NEW o \in Range(offers'[d]), ~mark'[o[1]] PROVE o \in Range(offers[d]) /\ ~mark[o[1]]
      <4>1. o \in Range(offers[d]) /\ o[1] # t BY <1>1
      <4>2. o[1] \in Tasks BY <4>1, OfferFacts DEF Busy
      <4> QED BY <1>1, <3>3, <4>1, <4>2
    <3> QED BY <1>2, <3>1, <3>2, <3>3
  <2> QED BY <1>1, <1>3, <2>1, <2>4, <2>5, <2>6, <2>7, <2>8 DEF Undisturbed
<1> QED BY <1>5, SleepKept

\* The end of a call keeps the invariant.
LEMMA LeavesKeeps ==
  ASSUME IInv, NEW t \in Tasks, NEW k, NEW c, NEW taken, NEW filled, NEW v, NEW added, NEW polled, NEW rs, NEW ss,
         ChanTypes', LeavesCall(t, k, c, taken, filled, v), LeavesTold(t, k, c, taken, added),
         LeavesQueue(t, k, taken, filled, polled, rs, ss)
  PROVE  IInv'
<1>1. TypeOK' BY LeavesTypes
<1>2. IdleInv' /\ OfferInv' /\ SlotInv' /\ WakerInv' BY LeavesState
<1>3. OwnInv' /\ CaseInv' /\ FreshInv' /\ TickInv' /\ ReportsAgree' BY LeavesValues
<1>4. RegisteredInv' /\ NoSleepBesideReady' BY <1>1, LeavesSleep
<1> QED BY <1>1, <1>2, <1>3, <1>4 DEF IInv

LEMMA ChoosesKeeps ==
  ASSUME IInv, NEW t \in Tasks, NEW k, Begins(t, k), NEW i, NEW polled, NEW raised,
         Chooses(t, k, i, polled, raised)
  PROVE  IInv'
<1>1. ChanTypes' BY ChooseLeaves
<1>2. PICK c, taken, filled, v, added, rs, ss :
        /\ LeavesCall(t, k, c, taken, filled, v) /\ LeavesTold(t, k, c, taken, added)
        /\ LeavesQueue(t, k, taken, filled, polled, rs, ss)
  BY ChooseLeaves
<1> QED BY <1>1, <1>2, LeavesKeeps

LEMMA EndsKeeps ==
  ASSUME IInv, NEW t \in Tasks, NEW k, Begins(t, k), NEW what, Ends(t, k, what)
  PROVE  IInv'
<1>1. ChanTypes' BY EndLeaves
<1>2. PICK c, taken, filled, v, added, rs, ss :
        /\ LeavesCall(t, k, c, taken, filled, v) /\ LeavesTold(t, k, c, taken, added)
        /\ LeavesQueue(t, k, taken, filled, {}, rs, ss)
  BY EndLeaves
<1> QED BY <1>1, <1>2, LeavesKeeps

(***************************************************************************)
(* A poll that chooses nothing and waits.                                  *)
(***************************************************************************)
\* The offers or waiters of t for the cases ids.
Named(t, ids) == [j \in DOMAIN ids |-> <<t, ids[j]>>]
NamedAll(t, is) == {<<t, i>> : i \in is}

\* The cases is of order, as the offers or the waiters of t, behind those there are.
LEMMA Joined ==
  ASSUME NEW t \in Tasks, NEW k, Shape(k), NEW seq \in Seq(CaseIds), NEW is \in SUBSET CasesOf(k),
         NEW ids, ids = Keep(Order(k), is)
  PROVE  /\ seq \o Named(t, ids) \in Seq(CaseIds)
         /\ Range(seq \o Named(t, ids)) = Range(seq) \cup NamedAll(t, is)
         /\ is = {} => seq \o Named(t, ids) = seq
<1> DEFINE mine == [j \in DOMAIN ids |-> <<t, ids[j]>>]
<1>1. /\ Order(k) \in Seq(CasesOf(k)) /\ DOMAIN Order(k) = CasesOf(k)
      /\ \A i \in CasesOf(k) : \E j \in CasesOf(k) : Order(k)[j] = i
  BY OrderFacts
<1>2. Range(Order(k)) \cap is = is
  <2>1. \A i \in is : \E j \in DOMAIN Order(k) : Order(k)[j] = i BY <1>1
  <2> QED BY <2>1 DEF Range
<1>3. ids \in Seq(CasesOf(k)) /\ Range(ids) = is BY <1>1, <1>2, KeepFacts
<1>4. DOMAIN ids = 1..Len(ids) /\ Len(ids) \in Nat BY <1>3, LenProperties
<1>5. \A j \in 1..Len(ids) : ids[j] \in is BY <1>3, <1>4 DEF Range
<1>6. \A i \in is : \E j \in 1..Len(ids) : ids[j] = i BY <1>3, <1>4 DEF Range
<1>7. mine = [j \in 1..Len(ids) |-> <<t, ids[j]>>] BY <1>4
<1>8. \A i \in is : <<t, i>> \in CaseIds BY CaseNamed
<1>9. mine \in Seq(CaseIds)
  <2>1. mine \in [1..Len(ids) -> CaseIds] BY <1>5, <1>7, <1>8
  <2> QED BY <1>4, <2>1, SeqDef
<1>10. Range(mine) = {<<t, i>> : i \in is}
  <2>1. DOMAIN mine = 1..Len(ids) /\ \A j \in 1..Len(ids) : mine[j] = <<t, ids[j]>> BY <1>7
  <2> HIDE DEF mine
  <2>2. Range(mine) = {mine[j] : j \in 1..Len(ids)} BY <2>1 DEF Range
  <2>3. {mine[j] : j \in 1..Len(ids)} = {<<t, ids[j]>> : j \in 1..Len(ids)} BY <2>1
  <2>4. {<<t, ids[j]>> : j \in 1..Len(ids)} = {<<t, i>> : i \in is} BY <1>5, <1>6
  <2> QED BY <2>2, <2>3, <2>4
<1>11. is = {} => mine = <<>>
  <2>1. ASSUME is = {} PROVE Len(ids) = 0
    <3>1. 1 \notin 1..Len(ids) BY <1>5, <2>1
    <3> QED BY <1>4, <3>1
  <2> QED BY <1>7, <2>1
<1> HIDE DEF mine
<1>12. seq \o mine \in Seq(CaseIds) BY <1>9, ConcatProperties
<1>13. Range(seq \o mine) = Range(seq) \cup Range(mine) BY <1>9, RangeConcatenation
<1>14. is = {} => seq \o mine = seq BY <1>11, ConcatEmptySeq
<1> QED BY <1>10, <1>12, <1>13, <1>14 DEF mine, Named, NamedAll

\* What t posts and where it waits.
LEMMA WaitEffect ==
  ASSUME IInv, NEW t \in Tasks, NEW k, Begins(t, k), Sleeps(t, k)
  PROVE  /\ call' = [call EXCEPT ![t] = k] /\ call'[t] = k /\ Busy' = Busy \cup {t}
         /\ \A u \in Busy : call'[u] = call[u]
         /\ \A u \in Tasks \ {t} : call'[u] = call[u]
         /\ \A c \in Chans :
              /\ offers'[c] \in Seq(CaseIds) /\ waiters'[c] \in Seq(CaseIds)
              /\ \A o : o \in Range(offers'[c]) <=>
                   \/ o \in Range(offers[c])
                   \/ \E i \in CasesOf(k) : o = <<t, i>> /\ k.cases[i].ch = c /\ Posts(t, k, i)
              /\ \A w : w \in Range(waiters'[c]) <=>
                   \/ w \in Range(waiters[c])
                   \/ \E i \in CasesOf(k) : w = <<t, i>> /\ k.cases[i].ch = c /\ Waits(t, k, i)
              /\ ~Rendezvous(c) => offers'[c] = offers[c] /\ waiters'[c] = waiters[c]
         /\ \A a \in CaseIds : offer'[a] =
              IF a[1] = t /\ a[2] \in CasesOf(k) /\ Posts(t, k, a[2]) THEN "open" ELSE offer[a]
         /\ Registered(t, k, CasesOf(k), PostedOn(t, k, CasesOf(k)), {})
         /\ \E self \in SUBSET {t} : woken' = (woken \ {t}) \cup WakeAll(PostedOn(t, k, CasesOf(k)), {}, self)
         /\ UNCHANGED <<made, buf, closed, slot, mark, due, cancelled, told, accepted, got>>
<1>0. CallTypes /\ Shape(k) /\ k # None BY TypeParts, BeginsShape DEF IInv
<1> DEFINE P(c) == {i \in CasesOf(k) : k.cases[i].ch = c /\ Posts(t, k, i)}
           W(c) == {i \in CasesOf(k) : k.cases[i].ch = c /\ Waits(t, k, i)}
           pids(c) == Keep(Order(k), P(c))
           wids(c) == Keep(Order(k), W(c))
           rs == PostedOn(t, k, CasesOf(k))
           self == {u \in {t} : \E i, j \in CasesOf(k) :
                      /\ i < j /\ Waits(t, k, Order(k)[i]) /\ Posts(t, k, Order(k)[j])
                      /\ k.cases[Order(k)[i]].ch = k.cases[Order(k)[j]].ch}
<1>1. /\ call' = [call EXCEPT ![t] = k]
      /\ offers' = [c \in Chans |-> offers[c] \o Named(t, pids(c))]
      /\ waiters' = [c \in Chans |-> waiters[c] \o Named(t, wids(c))]
      /\ offer' = [a \in CaseIds |-> IF a[1] = t /\ a[2] \in CasesOf(k) /\ Posts(t, k, a[2]) THEN "open" ELSE offer[a]]
      /\ Registered(t, k, CasesOf(k), rs, {})
      /\ woken' = (woken \ {t}) \cup WakeAll(rs, {}, self)
      /\ UNCHANGED <<made, buf, closed, slot, mark, due, cancelled, told, accepted, got>>
  BY DEF Sleeps, Wait, Named
<1>2. self \in SUBSET {t} OBVIOUS
<1>3. \A c, i : (i \in P(c) <=> i \in CasesOf(k) /\ k.cases[i].ch = c /\ Posts(t, k, i))
             /\ (i \in W(c) <=> i \in CasesOf(k) /\ k.cases[i].ch = c /\ Waits(t, k, i))
  OBVIOUS
<1>4. \A c : pids(c) = Keep(Order(k), P(c)) /\ wids(c) = Keep(Order(k), W(c)) OBVIOUS
<1> HIDE DEF P, W, pids, wids, self
<1>5. call'[t] = k /\ Busy' = Busy \cup {t} /\ (\A u \in Tasks \ {t} : call'[u] = call[u])
  <2>1. call = [u \in Tasks |-> call[u]] BY <1>0 DEF CallTypes
  <2> QED BY <1>0, <1>1, <2>1 DEF Busy
<1>6. \A u \in Busy : call'[u] = call[u]
  <2>1. \A u \in Busy : u \in Tasks /\ call[u] # None BY DEF Busy
  <2> QED BY <1>5, <2>1 DEF Begins
<1>7. ASSUME NEW c \in Chans
      PROVE  /\ offers'[c] \in Seq(CaseIds) /\ Range(offers'[c]) = Range(offers[c]) \cup NamedAll(t, P(c))
             /\ waiters'[c] \in Seq(CaseIds) /\ Range(waiters'[c]) = Range(waiters[c]) \cup NamedAll(t, W(c))
             /\ P(c) = {} => offers'[c] = offers[c]
             /\ W(c) = {} => waiters'[c] = waiters[c]
  <2>1. offers[c] \in Seq(CaseIds) /\ waiters[c] \in Seq(CaseIds) BY <1>0 DEF CallTypes
  <2>2. P(c) \in SUBSET CasesOf(k) /\ W(c) \in SUBSET CasesOf(k) BY <1>3
  <2>3. /\ offers'[c] = offers[c] \o Named(t, pids(c))
        /\ waiters'[c] = waiters[c] \o Named(t, wids(c))
    BY <1>1
  <2>4. /\ offers'[c] \in Seq(CaseIds) /\ Range(offers'[c]) = Range(offers[c]) \cup NamedAll(t, P(c))
        /\ P(c) = {} => offers'[c] = offers[c]
    BY <1>0, <1>4, <2>1, <2>2, <2>3, Joined
  <2>5. /\ waiters'[c] \in Seq(CaseIds) /\ Range(waiters'[c]) = Range(waiters[c]) \cup NamedAll(t, W(c))
        /\ W(c) = {} => waiters'[c] = waiters[c]
    BY <1>0, <1>4, <2>1, <2>2, <2>3, Joined
  <2> QED BY <2>4, <2>5
<1>8. \A c \in Chans : ~Rendezvous(c) => P(c) = {} /\ W(c) = {}
  <2>1. \A i : (Posts(t, k, i) => Rendezvous(k.cases[i].ch)) /\ (Waits(t, k, i) => Rendezvous(k.cases[i].ch))
    BY DEF Posts, Waits
  <2>2. ASSUME NEW c \in Chans, ~Rendezvous(c) PROVE \A i : i \notin P(c) /\ i \notin W(c) BY <1>3, <2>1, <2>2
  <2> QED BY <2>2
<1>9. ASSUME NEW c \in Chans
      PROVE  /\ offers'[c] \in Seq(CaseIds) /\ waiters'[c] \in Seq(CaseIds)
             /\ \A o : o \in Range(offers'[c]) <=>
                  \/ o \in Range(offers[c])
                  \/ \E i \in CasesOf(k) : o = <<t, i>> /\ k.cases[i].ch = c /\ Posts(t, k, i)
             /\ \A w : w \in Range(waiters'[c]) <=>
                  \/ w \in Range(waiters[c])
                  \/ \E i \in CasesOf(k) : w = <<t, i>> /\ k.cases[i].ch = c /\ Waits(t, k, i)
             /\ ~Rendezvous(c) => offers'[c] = offers[c] /\ waiters'[c] = waiters[c]
  <2>1. \A o : o \in NamedAll(t, P(c)) <=>
          \E i \in CasesOf(k) : o = <<t, i>> /\ k.cases[i].ch = c /\ Posts(t, k, i)
    BY <1>3 DEF NamedAll
  <2>2. \A w : w \in NamedAll(t, W(c)) <=>
          \E i \in CasesOf(k) : w = <<t, i>> /\ k.cases[i].ch = c /\ Waits(t, k, i)
    BY <1>3 DEF NamedAll
  <2> QED BY <1>7, <1>8, <2>1, <2>2
<1> QED BY <1>1, <1>2, <1>5, <1>6, <1>9

\* What a case that posts is, and one that waits.
LEMMA PostFacts ==
  ASSUME NEW t, NEW k, NEW i \in CasesOf(k)
  PROVE  /\ Posts(t, k, i) => /\ k.cases[i].kind = "send" /\ Rendezvous(k.cases[i].ch) /\ i \in Sends(k)
                              /\ offer[<<t, i>>] = "none" /\ k.cases[i].ch \in PostedOn(t, k, CasesOf(k))
         /\ Waits(t, k, i) => k.cases[i].kind = "recv" /\ Rendezvous(k.cases[i].ch)
BY DEF Posts, Waits, Sends, PostedOn

LEMMA WaitTypes ==
  ASSUME IInv, NEW t \in Tasks, NEW k, Begins(t, k), Sleeps(t, k)
  PROVE  TypeOK'
<1>0. TypeOK /\ ChanTypes /\ CallTypes /\ QueueTypes /\ Shape(k) BY TypeParts, BeginsShape DEF IInv
<1>1. /\ call' = [call EXCEPT ![t] = k] /\ call'[t] = k /\ Busy' = Busy \cup {t}
      /\ \A u \in Busy : call'[u] = call[u]
      /\ \A u \in Tasks \ {t} : call'[u] = call[u]
      /\ \A c \in Chans :
           /\ offers'[c] \in Seq(CaseIds) /\ waiters'[c] \in Seq(CaseIds)
           /\ \A o : o \in Range(offers'[c]) <=>
                \/ o \in Range(offers[c])
                \/ \E i \in CasesOf(k) : o = <<t, i>> /\ k.cases[i].ch = c /\ Posts(t, k, i)
           /\ \A w : w \in Range(waiters'[c]) <=>
                \/ w \in Range(waiters[c])
                \/ \E i \in CasesOf(k) : w = <<t, i>> /\ k.cases[i].ch = c /\ Waits(t, k, i)
           /\ ~Rendezvous(c) => offers'[c] = offers[c] /\ waiters'[c] = waiters[c]
      /\ \A a \in CaseIds : offer'[a] =
           IF a[1] = t /\ a[2] \in CasesOf(k) /\ Posts(t, k, a[2]) THEN "open" ELSE offer[a]
  BY WaitEffect
<1>2. /\ Registered(t, k, CasesOf(k), PostedOn(t, k, CasesOf(k)), {})
      /\ \E self \in SUBSET {t} : woken' = (woken \ {t}) \cup WakeAll(PostedOn(t, k, CasesOf(k)), {}, self)
      /\ UNCHANGED <<made, buf, closed, slot, mark, due, cancelled, told, accepted, got>>
  BY WaitEffect
<1>3. next' \in 1..(MaxValues + 1) /\ next <= next' BY DEF Begins
<1>4. ChanTypes'
  <2>1. recvWakers' \in [Chans -> SUBSET Tasks] /\ sendWakers' \in [Chans -> SUBSET Tasks]
    BY <1>0, <1>2 DEF Registered, ChanTypes
  <2> QED BY <1>0, <1>2, <1>3, <2>1 DEF ChanTypes, Rendezvous, Room
<1>5. /\ offers' \in [Chans -> Seq(CaseIds)] /\ waiters' \in [Chans -> Seq(CaseIds)]
      /\ offer' \in [CaseIds -> OfferStates]
  <2>1. /\ offers' = [c \in Chans |-> offers'[c]] /\ waiters' = [c \in Chans |-> waiters'[c]]
        /\ offer' = [a \in CaseIds |-> offer'[a]]
    BY DEF Sleeps, Wait
  <2>2. \A a \in CaseIds : offer'[a] \in OfferStates BY <1>0, <1>1 DEF CallTypes, OfferStates
  <2> QED BY <1>1, <2>1, <2>2
<1>6. call' = [u \in Tasks |-> call'[u]] BY <1>0, <1>1 DEF CallTypes
<1>7. ASSUME NEW u \in Busy' PROVE Waiting(call[u])'
  <2>0. next \in Nat /\ next' \in Nat BY <1>0, <1>3, MaxValuesAssumption DEF TypeOK
  <2>1. CASE u = t
    <3>1. PICK form \in Calls : \E start \in CasesOf(form), first \in 1..(MaxValues + 1) : k = CallOf(form, start, first)
      BY DEF Begins
    <3>2. PICK start \in CasesOf(form), first \in 1..(MaxValues + 1) : k = CallOf(form, start, first)
      BY <3>1
    <3>3. ~form.default
      <4>1. k.default = form.default BY <3>2 DEF CallOf
      <4> QED BY <4>1 DEF Sleeps
    <3>4. \A i \in Sends(k) : k.vals[i] < next' /\ ~Ticker(k.cases[i].ch)' BY <1>2 DEF Begins, Ticker
    <3>5. \E f \in Calls : \E s \in CasesOf(f), n \in 1..(MaxValues + 1) :
            /\ k = CallOf(f, s, n) /\ ~f.default
            /\ \A i \in Sends(k) : k.vals[i] < next' /\ ~Ticker(k.cases[i].ch)'
      BY <3>2, <3>3, <3>4
    <3>6. Waiting(k)' BY <3>5 DEF Waiting
    <3>7. \A h : h = k => Waiting(h)' BY <3>6
    <3>8. call'[u] = k BY <1>1, <2>1
    <3> QED BY <3>7, <3>8
  <2>2. CASE u # t
    <3>1. u \in Busy /\ u \in Tasks BY <1>1, <2>2 DEF Busy
    <3>2. Waiting(call[u]) /\ Shape(call[u]) /\ call'[u] = call[u] BY <1>0, <1>1, <3>1, BusyCalls DEF CallTypes
    <3>3. \A h : h = call[u] => Waiting(h)' BY <1>2, <1>3, <2>0, <3>2, WaitingStays
    <3> QED BY <3>2, <3>3
  <2> QED BY <2>1, <2>2
<1>8. \A c \in Chans : ~Rendezvous(c)' => offers'[c] = <<>> /\ waiters'[c] = <<>>
  <2>1. \A c \in Chans : Rendezvous(c)' = Rendezvous(c) BY <1>2 DEF Rendezvous, Room
  <2> QED BY <1>0, <1>1, <2>1 DEF CallTypes
<1>9. ASSUME NEW c \in Chans, NEW o \in Range(offers'[c])
      PROVE  offer'[o] = "open" /\ call'[o[1]] # None /\ IsCase(call'[o[1]], o[2], "send", c)
  <2>1. CASE o \in Range(offers[c])
    <3>1. o \in CaseIds /\ o[1] \in Busy /\ offer[o] = "open" BY <2>1, OfferFacts
    <3>2. offer'[o] = "open" /\ call'[o[1]] = call[o[1]] BY <1>1, <3>1
    <3> QED BY <1>0, <2>1, <3>2 DEF CallTypes
  <2>2. CASE \E i \in CasesOf(k) : o = <<t, i>> /\ k.cases[i].ch = c /\ Posts(t, k, i)
    <3>1. PICK i \in CasesOf(k) : o = <<t, i>> /\ k.cases[i].ch = c /\ Posts(t, k, i) BY <2>2
    <3>2. o[1] = t /\ o[2] = i /\ o \in CaseIds BY <1>0, <3>1, CaseNamed
    <3>3. offer'[o] = "open" /\ call'[o[1]] = k BY <1>1, <3>1, <3>2
    <3> QED BY <3>1, <3>2, <3>3, PostFacts, BeginsShape DEF IsCase
  <2> QED BY <1>1, <2>1, <2>2
<1>10. ASSUME NEW c \in Chans, NEW w \in Range(waiters'[c])
       PROVE  call'[w[1]] # None /\ IsCase(call'[w[1]], w[2], "recv", c)
  <2>1. CASE w \in Range(waiters[c])
    <3>1. w[1] \in Busy BY <2>1, WaiterFacts
    <3>2. call'[w[1]] = call[w[1]] BY <1>1, <3>1
    <3> QED BY <1>0, <2>1, <3>2 DEF CallTypes
  <2>2. CASE \E i \in CasesOf(k) : w = <<t, i>> /\ k.cases[i].ch = c /\ Waits(t, k, i)
    <3>1. PICK i \in CasesOf(k) : w = <<t, i>> /\ k.cases[i].ch = c /\ Waits(t, k, i) BY <2>2
    <3>2. w[1] = t /\ w[2] = i BY <3>1
    <3>3. call'[w[1]] = k BY <1>1, <3>2
    <3> QED BY <3>1, <3>2, <3>3, PostFacts, BeginsShape DEF IsCase
  <2> QED BY <1>1, <2>1, <2>2
<1>11. CallTypes'
  <2>1. slot' \in [CaseIds -> Values \cup {None}] /\ mark' \in [Tasks -> BOOLEAN] BY <1>0, <1>2 DEF CallTypes
  <2> QED BY <1>5, <1>6, <1>7, <1>8, <1>9, <1>10, <2>1 DEF CallTypes, IsCase
<1>12. QueueTypes'
  <2>1. PICK self \in SUBSET {t} : woken' = (woken \ {t}) \cup WakeAll(PostedOn(t, k, CasesOf(k)), {}, self)
    BY <1>2
  <2>2. ASSUME NEW c \in PostedOn(t, k, CasesOf(k)) PROVE Receivers(c) \subseteq Busy
    <3>1. PICK i \in CasesOf(k) : c = k.cases[i].ch /\ Posts(t, k, i) BY DEF PostedOn
    <3>2. c \in Chans /\ Rendezvous(c) BY <1>0, <3>1, PostFacts DEF Shape
    <3>3. recvWakers[c] = {} BY <3>2 DEF IInv, WakerInv
    <3>4. \A w \in Range(waiters[c]) : w[1] \in Busy BY <3>2, WaiterFacts
    <3> QED BY <3>3, <3>4 DEF Receivers
  <2>3. WakeAll(PostedOn(t, k, CasesOf(k)), {}, self) \subseteq Busy \cup {t} BY <2>2 DEF WakeAll
  <2> QED BY <1>0, <1>1, <1>2, <2>1, <2>3 DEF QueueTypes
<1> QED BY <1>4, <1>11, <1>12 DEF TypeOK, ChanTypes, CallTypes, QueueTypes

LEMMA WaitState ==
  ASSUME IInv, NEW t \in Tasks, NEW k, Begins(t, k), Sleeps(t, k)
  PROVE  IdleInv' /\ OfferInv' /\ SlotInv' /\ WakerInv'
<1>0. Shape(k) /\ k # None BY BeginsShape
<1>1. /\ call'[t] = k /\ Busy' = Busy \cup {t}
      /\ \A u \in Busy : call'[u] = call[u]
      /\ \A u \in Tasks \ {t} : call'[u] = call[u]
      /\ \A c \in Chans : \A w : w \in Range(waiters'[c]) <=>
                \/ w \in Range(waiters[c])
                \/ \E i \in CasesOf(k) : w = <<t, i>> /\ k.cases[i].ch = c /\ Waits(t, k, i)
      /\ \A a \in CaseIds : offer'[a] =
           IF a[1] = t /\ a[2] \in CasesOf(k) /\ Posts(t, k, a[2]) THEN "open" ELSE offer[a]
      /\ Registered(t, k, CasesOf(k), PostedOn(t, k, CasesOf(k)), {})
      /\ UNCHANGED <<made, slot, mark>>
  BY WaitEffect
<1>2. IdleInv /\ OfferInv /\ SlotInv /\ WakerInv BY DEF IInv
<1>3. \A c : Rendezvous(c)' = Rendezvous(c) BY <1>1 DEF Rendezvous, Room
<1>4. \A a \in CaseIds : a[1] \in Tasks /\ a = <<a[1], a[2]>> BY IdsNamed
<1>5. IdleInv'
  <2> SUFFICES ASSUME NEW u \in Tasks, call'[u] = None
               PROVE  ~mark'[u] /\ \A a \in CaseIds : a[1] = u => offer'[a] = "none" /\ slot'[a] = None
    BY DEF IdleInv
  <2>1. u # t /\ call[u] = None BY <1>0, <1>1
  <2> QED BY <1>1, <1>2, <2>1 DEF IdleInv
<1>6. OfferInv'
  <2>1. ASSUME NEW a \in CaseIds, offer'[a] # "none"
        PROVE  /\ call'[a[1]] # None /\ a[2] \in Sends(call'[a[1]])
               /\ made'[call'[a[1]].cases[a[2]].ch].cap = 0
               /\ offer'[a] = "taken" => mark'[a[1]]
    <3>1. CASE a[1] = t /\ a[2] \in CasesOf(k) /\ Posts(t, k, a[2])
      <4>1. offer'[a] = "open" /\ call'[a[1]] = k BY <1>1, <3>1
      <4>2. Rendezvous(k.cases[a[2]].ch) /\ a[2] \in Sends(k) BY <3>1, PostFacts
      <4> QED BY <1>0, <1>1, <4>1, <4>2 DEF Rendezvous, Room
    <3>2. CASE ~(a[1] = t /\ a[2] \in CasesOf(k) /\ Posts(t, k, a[2]))
      <4>1. offer'[a] = offer[a] BY <1>1, <3>2
      <4>2. /\ call[a[1]] # None /\ a[2] \in Sends(call[a[1]]) /\ Rendezvous(call[a[1]].cases[a[2]].ch)
            /\ offer[a] = "taken" => mark[a[1]]
        BY <1>2, <2>1, <4>1 DEF OfferInv
      <4>3. call'[a[1]] = call[a[1]] BY <1>1, <1>4, <4>2 DEF Busy
      <4> QED BY <1>1, <4>1, <4>2, <4>3 DEF Rendezvous, Room
    <3> QED BY <3>1, <3>2
  <2>2. \A x \in CaseIds : offer'[x] = "taken" => offer[x] = "taken" BY <1>1
  <2> QED BY <1>2, <2>1, <2>2 DEF OfferInv, Sends, CasesOf, Rendezvous, Room
<1>7. SlotInv'
  <2> SUFFICES ASSUME NEW a \in CaseIds, slot'[a] # None
               PROVE  /\ call'[a[1]] # None /\ a[2] \in CasesOf(call'[a[1]])
                      /\ call'[a[1]].cases[a[2]].kind = "recv" /\ made'[call'[a[1]].cases[a[2]].ch].cap = 0
    BY DEF SlotInv, CasesOf, Rendezvous, Room
  <2>1. /\ call[a[1]] # None /\ a[2] \in CasesOf(call[a[1]])
        /\ call[a[1]].cases[a[2]].kind = "recv" /\ Rendezvous(call[a[1]].cases[a[2]].ch)
    BY <1>1, <1>2 DEF SlotInv
  <2>2. call'[a[1]] = call[a[1]] BY <1>1, <1>4, <2>1 DEF Busy
  <2> QED BY <1>1, <2>1, <2>2 DEF Rendezvous, Room
<1>8. WakerInv'
  <2>1. ASSUME NEW d \in Chans, Rendezvous(d)' PROVE recvWakers'[d] = {} /\ sendWakers'[d] = {}
    <3>1. Rendezvous(d) /\ recvWakers[d] = {} /\ sendWakers[d] = {} BY <1>2, <1>3, <2>1 DEF WakerInv
    <3> QED BY <1>1, <3>1 DEF Registered, Registers
  <2>2. ASSUME NEW d \in Chans, NEW w \in Range(waiters'[d]) PROVE w[2] \in CasesOf(call'[w[1]])
    <3>1. CASE w \in Range(waiters[d])
      <4>1. w[1] \in Busy /\ w[2] \in CasesOf(call[w[1]]) BY <1>2, <3>1, WaiterFacts DEF WakerInv
      <4> QED BY <1>1, <4>1
    <3>2. CASE \E i \in CasesOf(k) : w = <<t, i>>
      <4>1. PICK i \in CasesOf(k) : w = <<t, i>> BY <3>2
      <4>2. w[1] = t /\ w[2] = i BY <4>1
      <4> QED BY <1>1, <4>2
    <3> QED BY <1>1, <3>1, <3>2
  <2> QED BY <2>1, <2>2 DEF WakerInv, CasesOf
<1> QED BY <1>5, <1>6, <1>7, <1>8

LEMMA WaitValues ==
  ASSUME IInv, NEW t \in Tasks, NEW k, Begins(t, k), Sleeps(t, k)
  PROVE  OwnInv' /\ CaseInv' /\ FreshInv' /\ TickInv' /\ ReportsAgree'
<1>0. TypeOK /\ Shape(k) /\ k # None BY BeginsShape DEF IInv
<1>1. /\ call'[t] = k /\ Busy' = Busy \cup {t}
      /\ \A u \in Busy : call'[u] = call[u]
      /\ \A a \in CaseIds : offer'[a] =
           IF a[1] = t /\ a[2] \in CasesOf(k) /\ Posts(t, k, a[2]) THEN "open" ELSE offer[a]
      /\ UNCHANGED <<made, told, accepted>>
  BY WaitEffect
<1>2. OwnInv /\ CaseInv /\ FreshInv /\ TickInv /\ ReportsAgree BY DEF IInv
\* An offer is taken exactly if it was.
<1>3. \A a \in CaseIds : offer'[a] = "taken" <=> offer[a] = "taken"
  <2> SUFFICES ASSUME NEW a \in CaseIds PROVE offer'[a] = "taken" <=> offer[a] = "taken" OBVIOUS
  <2>1. CASE a[1] = t /\ a[2] \in CasesOf(k) /\ Posts(t, k, a[2])
    <3>1. offer'[a] = "open" /\ offer[<<t, a[2]>>] = "none" BY <1>1, <2>1, PostFacts
    <3>2. a = <<t, a[2]>> BY <2>1, IdsNamed
    <3>3. offer[a] = "none" BY <3>1, <3>2
    <3> QED BY <3>1, <3>3
  <2>2. CASE ~(a[1] = t /\ a[2] \in CasesOf(k) /\ Posts(t, k, a[2])) BY <1>1, <2>2
  <2> QED BY <2>1, <2>2
<1>4. OwnInv'
  <2>1. ASSUME NEW u \in Busy', NEW w \in Busy', NEW x \in Sends(call'[u]), NEW y \in Sends(call'[w]),
               call'[u].vals[x] = call'[w].vals[y]
        PROVE  u = w /\ x = y
    <3>1. CASE u = t /\ w = t BY <1>0, <1>1, <2>1, <3>1 DEF Shape
    <3>2. CASE u = t /\ w # t
      <4>1. w \in Busy \ {t} /\ call'[w] = call[w] /\ call'[u] = k BY <1>1, <3>2
      <4> QED BY <2>1, <4>1, OtherValues
    <3>3. CASE u # t /\ w = t
      <4>1. u \in Busy \ {t} /\ call'[u] = call[u] /\ call'[w] = k BY <1>1, <3>3
      <4> QED BY <2>1, <4>1, OtherValues
    <3>4. CASE u # t /\ w # t
      <4>1. u \in Busy /\ w \in Busy /\ call'[u] = call[u] /\ call'[w] = call[w] BY <1>1, <3>4
      <4> QED BY <1>2, <2>1, <4>1 DEF OwnInv
    <3> QED BY <3>1, <3>2, <3>3, <3>4
  <2> QED BY <2>1 DEF OwnInv, Sends, CasesOf
<1>5. CaseInv'
  <2>1. ASSUME NEW u \in Busy', NEW x \in Sends(call'[u])
        PROVE  /\ told'[call'[u].vals[x]] = "nothing"
               /\ \A d \in Chans : call'[u].vals[x] \in Range(accepted'[d]) <=>
                    offer'[<<u, x>>] = "taken" /\ d = call'[u].cases[x].ch
    <3>1. CASE u = t
      <4>1. call'[u] = k /\ x \in Sends(k) /\ x \in CasesOf(k) BY <1>1, <3>1 DEF Sends
      <4>2. <<t, x>> \in CaseIds BY <1>0, <4>1, CaseNamed
      <4>3. /\ told[k.vals[x]] = "nothing"
            /\ \A d \in Chans : k.vals[x] \in Range(accepted[d]) <=> offer[<<t, x>>] = "taken" /\ d = k.cases[x].ch
        BY <4>1, OwnFacts
      <4>4. offer'[<<t, x>>] = "taken" <=> offer[<<t, x>>] = "taken" BY <1>3, <4>2
      <4> QED BY <1>1, <3>1, <4>1, <4>3, <4>4
    <3>2. CASE u # t
      <4>1. u \in Busy /\ call'[u] = call[u] /\ x \in CasesOf(call[u]) BY <1>1, <3>2 DEF Sends
      <4>2. <<u, x>> \in CaseIds BY <1>0, <4>1, BusyCalls, CaseNamed
      <4>3. /\ told[call[u].vals[x]] = "nothing"
            /\ \A d \in Chans : call[u].vals[x] \in Range(accepted[d]) <=>
                    offer[<<u, x>>] = "taken" /\ d = call[u].cases[x].ch
        BY <1>2, <4>1 DEF CaseInv
      <4>4. offer'[<<u, x>>] = "taken" <=> offer[<<u, x>>] = "taken" BY <1>3, <4>2
      <4> QED BY <1>1, <4>1, <4>3, <4>4
    <3> QED BY <3>1, <3>2
  <2> QED BY <2>1 DEF CaseInv, Sends, CasesOf
<1>6. FreshInv'
  <2>1. next \in Nat /\ next' \in Nat /\ next <= next' BY <1>0, MaxValuesAssumption DEF TypeOK, Begins
  <2>2. \A w \in Values : w >= next' => w >= next BY <2>1 DEF Values
  <2> QED BY <1>1, <1>2, <2>2 DEF FreshInv
<1>7. TickInv' BY <1>1, <1>2 DEF TickInv, Ticker
<1>8. ReportsAgree' BY <1>1, <1>2 DEF ReportsAgree
<1> QED BY <1>4, <1>5, <1>6, <1>7, <1>8

LEMMA WaitSleep ==
  ASSUME IInv, NEW t \in Tasks, NEW k, Begins(t, k), Sleeps(t, k), t \notin cancelled, TypeOK'
  PROVE  RegisteredInv' /\ NoSleepBesideReady'
<1>0. TypeOK /\ Shape(k) /\ k # None BY BeginsShape DEF IInv
<1>1. /\ call'[t] = k /\ Busy' = Busy \cup {t}
      /\ \A u \in Busy : call'[u] = call[u]
      /\ \A c \in Chans :
           /\ offers'[c] \in Seq(CaseIds) /\ waiters'[c] \in Seq(CaseIds)
           /\ \A o : o \in Range(offers'[c]) <=>
                \/ o \in Range(offers[c])
                \/ \E i \in CasesOf(k) : o = <<t, i>> /\ k.cases[i].ch = c /\ Posts(t, k, i)
           /\ \A w : w \in Range(waiters'[c]) <=>
                \/ w \in Range(waiters[c])
                \/ \E i \in CasesOf(k) : w = <<t, i>> /\ k.cases[i].ch = c /\ Waits(t, k, i)
      /\ \A a \in CaseIds : offer'[a] =
           IF a[1] = t /\ a[2] \in CasesOf(k) /\ Posts(t, k, a[2]) THEN "open" ELSE offer[a]
      /\ Registered(t, k, CasesOf(k), PostedOn(t, k, CasesOf(k)), {})
      /\ UNCHANGED <<made, buf, closed, slot, mark, due, cancelled>>
  BY WaitEffect
<1>2. PICK self \in SUBSET {t} : woken' = (woken \ {t}) \cup WakeAll(PostedOn(t, k, CasesOf(k)), {}, self)
  BY WaitEffect
<1>3. \A c : Rendezvous(c)' = Rendezvous(c) /\ Room(c)' = Room(c) BY <1>1 DEF Rendezvous, Room
<1>4. ~k.default /\ DeliveredCases(t, k) = {} /\ \A i \in CasesOf(k) : ~Ready(t, k, i) BY DEF Sleeps
<1>5. ASSUME NEW u \in Busy' \ woken', u # t PROVE u \in Busy \ woken /\ Undisturbed(u)
  <2>1. u \in Busy /\ u \notin woken /\ u \notin WakeAll(PostedOn(t, k, CasesOf(k)), {}, self)
    BY <1>1, <1>2, <1>5
  <2>2. \A d \in PostedOn(t, k, CasesOf(k)) : u \notin recvWakers[d] /\ \A w \in Range(waiters[d]) : w[1] # u
    BY <2>1 DEF WakeAll, Receivers
  <2>3. u \notin cancelled BY <2>1 DEF IInv, NoSleepBesideReady
  <2>4. \A a \in CaseIds : a[1] = u => offer'[a] = offer[a] BY <1>1, <1>5
  <2>5. ASSUME NEW d \in Chans
        PROVE  /\ u \in recvWakers[d] => u \in recvWakers'[d]
               /\ u \in sendWakers[d] => u \in sendWakers'[d]
    BY <1>1, <2>2 DEF Registered
  <2>6. ASSUME NEW d \in Chans, NEW w \in Range(waiters[d]), w[1] = u
        PROVE  w \in Range(waiters'[d]) /\ \A o \in Range(offers'[d]) : o \in Range(offers[d])
    <3>1. d \notin PostedOn(t, k, CasesOf(k)) BY <2>2, <2>6
    <3>2. \A i \in CasesOf(k) : ~(k.cases[i].ch = d /\ Posts(t, k, i)) BY <3>1, PostFacts
    <3> QED BY <1>1, <3>2
  <2>7. \A d \in Chans : ~(Len(buf'[d]) < Len(buf[d]))
    <3>1. \A d \in Chans : Len(buf[d]) \in Nat BY <1>0, LenProperties DEF TypeOK
    <3> QED BY <1>1, <3>1
  <2>8. /\ call'[u] = call[u] /\ UNCHANGED made /\ UNCHANGED buf /\ UNCHANGED closed
        /\ UNCHANGED slot /\ UNCHANGED mark /\ UNCHANGED due /\ UNCHANGED cancelled
    BY <1>1, <2>1
  <2> QED BY <2>1, <2>3, <2>4, <2>5, <2>6, <2>7, <2>8 DEF Undisturbed
<1>6. RegisteredIn(t, k)'
  <2> SUFFICES ASSUME NEW i \in CasesOf(k), NEW c, c = k.cases[i].ch
               PROVE  /\ k.cases[i].kind = "recv" /\ ~Rendezvous(c) => t \in recvWakers'[c]
                      /\ k.cases[i].kind = "recv" /\ Rendezvous(c) => <<t, i>> \in Range(waiters'[c])
                      /\ k.cases[i].kind = "send" /\ ~Rendezvous(c) => t \in sendWakers'[c]
                      /\ k.cases[i].kind = "send" /\ Rendezvous(c) => offer'[<<t, i>>] # "none"
    BY <1>3 DEF RegisteredIn
  <2>0. c \in Chans /\ <<t, i>> \in CaseIds /\ <<t, i>>[1] = t /\ <<t, i>>[2] = i BY <1>0, CaseNamed DEF Shape
  <2>1. ASSUME k.cases[i].kind \in {"recv", "send"}, ~Rendezvous(c)
        PROVE  /\ k.cases[i].kind = "recv" => t \in recvWakers'[c]
               /\ k.cases[i].kind = "send" => t \in sendWakers'[c]
    <3>1. c \notin PostedOn(t, k, CasesOf(k)) BY <2>1 DEF PostedOn, Posts
    <3>2. Registers(k, CasesOf(k), k.cases[i].kind, c) BY <1>4, <2>1 DEF Registers, IsCase
    <3> QED BY <1>1, <2>0, <3>1, <3>2 DEF Registered
  <2>2. ASSUME k.cases[i].kind = "recv", Rendezvous(c) PROVE <<t, i>> \in Range(waiters'[c])
    <3>1. CASE <<t, i>> \in Range(waiters[c]) BY <1>1, <2>0, <3>1
    <3>2. CASE <<t, i>> \notin Range(waiters[c])
      <4>1. Waits(t, k, i) BY <1>4, <2>2, <3>2 DEF Waits
      <4> QED BY <1>1, <2>0, <4>1
    <3> QED BY <3>1, <3>2
  <2>3. ASSUME k.cases[i].kind = "send", Rendezvous(c) PROVE offer'[<<t, i>>] # "none"
    <3>1. CASE offer[<<t, i>>] = "none"
      <4>1. Posts(t, k, i) BY <1>4, <2>3, <3>1 DEF Posts
      <4> QED BY <1>1, <2>0, <4>1
    <3>2. CASE offer[<<t, i>>] # "none" BY <1>1, <2>0, <3>2
    <3> QED BY <3>1, <3>2
  <2> QED BY <2>1, <2>2, <2>3
<1>7. ASSUME NEW i \in CasesOf(k)
      PROVE  /\ <<t, i>> \in CaseIds
             /\ offer'[<<t, i>>] \in {"taken", "withdrawn"} => offer[<<t, i>>] \in {"taken", "withdrawn"}
  <2>1. <<t, i>> \in CaseIds BY <1>0, CaseNamed
  <2> QED BY <1>1, <2>1
<1>8. DeliveredCases(t, k)' = {}
  <2>1. \A i \in CasesOf(k) : offer[<<t, i>>] # "taken" BY <1>4 DEF DeliveredCases
  <2>2. ASSUME NEW i \in CasesOf(k) PROVE offer'[<<t, i>>] # "taken"
    <3>1. <<t, i>> \in CaseIds BY <1>7
    <3> QED BY <1>1, <2>1, <3>1
  <2> QED BY <2>2 DEF DeliveredCases
<1>9. ASSUME NEW i \in CasesOf(k), NEW c, c = k.cases[i].ch PROVE ~Ready(t, k, i)'
  <2>0. ~Ready(t, k, i) /\ c \in Chans /\ k.cases[i].kind \in CaseKinds BY <1>0, <1>4, <1>9 DEF Shape
  <2>1. CASE k.cases[i].kind = "timer"
    <3>1. t \notin due BY <2>0, <2>1 DEF Ready
    <3> QED BY <1>1, <2>1, <3>1 DEF Ready
  <2>2. CASE k.cases[i].kind = "recv"
    <3>1. ~closed[c] /\ buf[c] = <<>> /\ ~(Rendezvous(c) /\ (slot[<<t, i>>] # None \/ Takeable(t, c) # <<>>))
      BY <1>9, <2>0, <2>2 DEF Ready, RecvReady
    <3>2. ASSUME Rendezvous(c), Takeable(t, c)' # <<>> PROVE FALSE
      <4> DEFINE S == {o \in CaseIds : ~mark'[o[1]] /\ o[1] # t}
      <4>1. Takeable(t, c)' = Keep(offers'[c], S) BY DEF Takeable, Pairs
      <4>2. \A o \in S : ~mark'[o[1]] /\ o[1] # t OBVIOUS
      <4> HIDE DEF S
      <4>3. PICK o : o \in Range(offers'[c]) /\ o \in S
        <5>1. Keep(offers'[c], S) \in Seq(CaseIds) /\ Range(Keep(offers'[c], S)) = Range(offers'[c]) \cap S
          BY <1>1, <2>0, KeepFacts
        <5>2. Head(Keep(offers'[c], S)) \in Range(Keep(offers'[c], S)) BY <3>2, <4>1, <5>1, HeadInRange
        <5> QED BY <5>1, <5>2
      <4>4. o[1] # t /\ ~mark[o[1]] BY <1>1, <4>2, <4>3
      <4>5. \A i1 \in CasesOf(k) : o # <<t, i1>> BY <4>4
      <4>6. o \in Range(offers[c]) BY <1>1, <2>0, <4>3, <4>5
      <4>7. o \in Range(Takeable(t, c)) BY <2>0, <4>4, <4>6, PairFacts DEF Pairs
      <4>8. Takeable(t, c) # <<>> BY <4>7 DEF Range
      <4> QED BY <3>1, <3>2, <4>8
    <3>3. ~RecvReady(t, i, c)' BY <1>1, <1>3, <3>1, <3>2 DEF RecvReady
    <3> QED BY <1>9, <2>2, <3>3 DEF Ready
  <2>3. CASE k.cases[i].kind = "send"
    <3>1. ~SendReady(t, i, c, k.default) BY <1>9, <2>0, <2>3 DEF Ready
    <3>2. CASE Rendezvous(c)
      <4>1. offer[<<t, i>>] \notin {"taken", "withdrawn"} BY <3>1, <3>2 DEF SendReady
      <4>2. offer'[<<t, i>>] \notin {"taken", "withdrawn"} BY <1>7, <4>1
      <4>3. offer'[<<t, i>>] # "none" BY <1>3, <1>6, <1>9, <2>3, <3>2 DEF RegisteredIn
      <4>4. ~SendReady(t, i, c, k.default)' BY <1>3, <3>2, <4>2, <4>3 DEF SendReady
      <4> QED BY <1>9, <2>3, <4>4 DEF Ready
    <3>3. CASE ~Rendezvous(c)
      <4>1. ~RoomIn(c) BY <3>1, <3>3 DEF SendReady
      <4>2. ~RoomIn(c)' BY <1>1, <1>3, <4>1 DEF RoomIn
      <4>3. ~SendReady(t, i, c, k.default)' BY <1>3, <3>3, <4>2 DEF SendReady
      <4> QED BY <1>9, <2>3, <4>3 DEF Ready
    <3> QED BY <3>2, <3>3
  <2> QED BY <2>0, <2>1, <2>2, <2>3 DEF CaseKinds
<1>10. NothingReady(t, k)'
  <2>1. \A i \in CasesOf(k) : ~Ready(t, k, i)' BY <1>9
  <2> QED BY <1>1, <1>8, <2>1 DEF NothingReady
<1>11. \A u \in Busy' \ woken' : \/ u \in Busy \ woken /\ Undisturbed(u)
                                 \/ \E h : h = call'[u] /\ RegisteredIn(u, h)' /\ NothingReady(u, h)'
  <2> SUFFICES ASSUME NEW u \in Busy' \ woken', u = t
               PROVE  \E h : h = call'[u] /\ RegisteredIn(u, h)' /\ NothingReady(u, h)'
    BY <1>5
  <2> QED BY <1>1, <1>6, <1>10
<1> QED BY <1>11, SleepKept

LEMMA SleepsKeeps ==
  ASSUME IInv, NEW t \in Tasks, NEW k, Begins(t, k), Sleeps(t, k), t \notin cancelled
  PROVE  IInv'
<1>1. TypeOK' BY WaitTypes
<1>2. IdleInv' /\ OfferInv' /\ SlotInv' /\ WakerInv' BY WaitState
<1>3. OwnInv' /\ CaseInv' /\ FreshInv' /\ TickInv' /\ ReportsAgree' BY WaitValues
<1>4. RegisteredInv' /\ NoSleepBesideReady' BY <1>1, WaitSleep
<1> QED BY <1>1, <1>2, <1>3, <1>4 DEF IInv

(***************************************************************************)
(* Steps that leave every call in progress what it is.                     *)
(***************************************************************************)
LEMMA FrameTypes ==
  ASSUME IInv, UNCHANGED <<made, call>>, next' \in 1..(MaxValues + 1), next <= next',
         offers' \in [Chans -> Seq(CaseIds)], UNCHANGED waiters,
         slot' \in [CaseIds -> Values \cup {None}], offer' \in [CaseIds -> OfferStates],
         mark' \in [Tasks -> BOOLEAN],
         \A c \in Chans : \A o \in Range(offers'[c]) : o \in Range(offers[c]) /\ offer'[o] = offer[o],
         woken' \subseteq Busy, cancelled' \subseteq Busy, due' \subseteq Busy
  PROVE  /\ Busy' = Busy /\ CallTypes' /\ QueueTypes'
         /\ \A c \in Chans : Rendezvous(c)' = Rendezvous(c) /\ Room(c)' = Room(c) /\ Ticker(c)' = Ticker(c)
<1>0. TypeOK /\ ChanTypes /\ CallTypes /\ QueueTypes BY TypeParts DEF IInv
<1>1. Busy' = Busy BY DEF Busy
<1>2. \A c : Rendezvous(c)' = Rendezvous(c) /\ Room(c)' = Room(c) /\ Ticker(c)' = Ticker(c)
  BY DEF Rendezvous, Room, Ticker
<1>3. QueueTypes' BY <1>1 DEF QueueTypes
<1>4. \A u \in Busy' : Waiting(call[u])'
  <2> SUFFICES ASSUME NEW u \in Busy PROVE Waiting(call[u])'
    BY <1>1
  <2>1. Shape(call[u]) /\ Waiting(call[u]) BY <1>0, BusyCalls DEF CallTypes
  <2>2. next \in Nat /\ next' \in Nat BY <1>0, MaxValuesAssumption DEF ChanTypes
  <2>3. \A k : k = call[u] => Waiting(k)' BY <2>1, <2>2, WaitingStays
  <2> QED BY <2>3
<1>5. ASSUME NEW c \in Chans, ~Rendezvous(c) PROVE offers'[c] = <<>> /\ waiters'[c] = <<>>
  <2>1. offers[c] = <<>> /\ waiters[c] = <<>> BY <1>0, <1>5 DEF CallTypes
  <2>2. Range(offers[c]) = {} BY <1>0, <2>1, EmptyRange DEF CallTypes
  <2>3. Range(offers'[c]) = {} BY <2>2
  <2>4. offers'[c] = <<>> BY <2>3, EmptyRange
  <2> QED BY <2>1, <2>4
<1>6. call' = [t \in Tasks |-> call'[t]] BY <1>0 DEF CallTypes
<1>7. \A c \in Chans : ~Rendezvous(c)' => offers'[c] = <<>> /\ waiters'[c] = <<>> BY <1>2, <1>5
<1>8. ASSUME NEW c \in Chans, NEW o \in Range(offers'[c])
      PROVE  offer'[o] = "open" /\ call'[o[1]] # None /\ IsCase(call'[o[1]], o[2], "send", c)
  <2>1. o \in Range(offers[c]) /\ offer'[o] = offer[o] OBVIOUS
  <2> QED BY <1>0, <2>1 DEF CallTypes
<1>9. ASSUME NEW c \in Chans, NEW w \in Range(waiters'[c])
      PROVE  call'[w[1]] # None /\ IsCase(call'[w[1]], w[2], "recv", c)
  <2>1. w \in Range(waiters[c]) OBVIOUS
  <2> QED BY <1>0, <2>1 DEF CallTypes
<1>10. waiters' \in [Chans -> Seq(CaseIds)] BY <1>0 DEF CallTypes
<1>11. CallTypes' BY <1>4, <1>6, <1>7, <1>8, <1>9, <1>10 DEF CallTypes, IsCase
<1> QED BY <1>1, <1>2, <1>3, <1>11

LEMMA FrameState ==
  ASSUME IInv, UNCHANGED <<made, call, waiters>>,
         \A u \in Tasks : mark'[u] => mark[u] \/ call[u] # None,
         \A a \in CaseIds : offer'[a] # "none" => offer[a] # "none",
         \A a \in CaseIds : offer'[a] = "taken" => mark'[a[1]] /\ (offer[a] = "taken" \/ ~mark[a[1]]),
         \A x, y \in CaseIds :
           offer'[x] = "taken" /\ offer[x] # "taken" /\ offer'[y] = "taken" /\ offer[y] # "taken" => x = y,
         \A a \in CaseIds : slot'[a] # None => slot[a] # None \/ \E c \in Chans : a \in Range(waiters[c]),
         \A c \in Chans : recvWakers'[c] \subseteq recvWakers[c] /\ sendWakers'[c] \subseteq sendWakers[c]
  PROVE  IdleInv' /\ OfferInv' /\ SlotInv' /\ WakerInv' /\ OwnInv'
<1>0. IdleInv /\ OfferInv /\ SlotInv /\ WakerInv /\ OwnInv BY DEF IInv
<1>1. \A c : Rendezvous(c)' = Rendezvous(c) BY DEF Rendezvous, Room
<1>2. \A a \in CaseIds : a[1] \in Tasks BY IdsNamed
<1>3. \A c \in Chans : \A w \in Range(waiters[c]) :
        /\ w[1] \in Busy /\ call[w[1]] # None /\ w[2] \in CasesOf(call[w[1]])
        /\ call[w[1]].cases[w[2]].kind = "recv" /\ call[w[1]].cases[w[2]].ch = c /\ Rendezvous(c)
  <2> SUFFICES ASSUME NEW c \in Chans, NEW w \in Range(waiters[c])
               PROVE  /\ w[1] \in Busy /\ call[w[1]] # None /\ w[2] \in CasesOf(call[w[1]])
                      /\ call[w[1]].cases[w[2]].kind = "recv" /\ call[w[1]].cases[w[2]].ch = c /\ Rendezvous(c)
    OBVIOUS
  <2>1. w[1] \in Busy /\ IsCase(call[w[1]], w[2], "recv", c) /\ Rendezvous(c) BY WaiterFacts
  <2>2. w[2] \in CasesOf(call[w[1]]) BY <1>0 DEF WakerInv
  <2> QED BY <2>1, <2>2 DEF IsCase, Busy
<1>4. IdleInv'
  <2> SUFFICES ASSUME NEW u \in Tasks, call[u] = None
               PROVE  ~mark'[u] /\ \A a \in CaseIds : a[1] = u => offer'[a] = "none" /\ slot'[a] = None
    BY DEF IdleInv
  <2>1. ~mark[u] /\ \A a \in CaseIds : a[1] = u => offer[a] = "none" /\ slot[a] = None BY <1>0 DEF IdleInv
  <2> QED BY <1>3, <2>1
<1>5. OfferInv'
  <2>1. ASSUME NEW a \in CaseIds, offer'[a] # "none"
        PROVE  /\ call[a[1]] # None /\ a[2] \in Sends(call[a[1]]) /\ Rendezvous(call[a[1]].cases[a[2]].ch)
               /\ offer'[a] = "taken" => mark'[a[1]]
    BY <1>0, <2>1 DEF OfferInv
  <2>2. ASSUME NEW x \in CaseIds, NEW y \in CaseIds, offer'[x] = "taken", offer'[y] = "taken", x[1] = y[1] PROVE x = y
    <3>1. (offer[x] = "taken" => mark[x[1]]) /\ (offer[y] = "taken" => mark[y[1]]) BY <1>0 DEF OfferInv
    <3>2. CASE offer[x] = "taken" /\ offer[y] = "taken" BY <1>0, <2>2, <3>2 DEF OfferInv
    <3>3. CASE ~(offer[x] = "taken" /\ offer[y] = "taken") BY <2>2, <3>1, <3>3
    <3> QED BY <3>2, <3>3
  <2> QED BY <2>1, <2>2 DEF OfferInv, Sends, CasesOf, Rendezvous, Room
<1>6. SlotInv'
  <2>1. ASSUME NEW a \in CaseIds, slot'[a] # None
        PROVE  /\ call[a[1]] # None /\ a[2] \in CasesOf(call[a[1]])
               /\ call[a[1]].cases[a[2]].kind = "recv" /\ Rendezvous(call[a[1]].cases[a[2]].ch)
    <3>1. CASE slot[a] # None BY <1>0, <3>1 DEF SlotInv
    <3>2. CASE \E c \in Chans : a \in Range(waiters[c]) BY <1>3, <3>2
    <3> QED BY <2>1, <3>1, <3>2
  <2> QED BY <2>1 DEF SlotInv, CasesOf, Rendezvous, Room
<1>7. WakerInv'
  <2>1. \A c \in Chans : Rendezvous(c) => recvWakers'[c] = {} /\ sendWakers'[c] = {} BY <1>0 DEF WakerInv
  <2>2. \A c \in Chans : \A w \in Range(waiters[c]) : w[2] \in CasesOf(call[w[1]]) BY <1>3
  <2> QED BY <1>1, <2>1, <2>2 DEF WakerInv, CasesOf
<1>8. OwnInv' BY <1>0 DEF OwnInv, Busy, Sends, CasesOf
<1> QED BY <1>4, <1>5, <1>6, <1>7, <1>8

\* Values that nobody moves.
LEMMA SameValues ==
  ASSUME IInv, UNCHANGED <<made, call, told, accepted, next>>,
         \A a \in CaseIds : offer'[a] = "taken" <=> offer[a] = "taken"
  PROVE  CaseInv' /\ FreshInv' /\ TickInv' /\ ReportsAgree'
<1>0. CaseInv /\ FreshInv /\ TickInv /\ ReportsAgree /\ TypeOK BY DEF IInv
<1>1. \A t \in Busy : \A i \in Sends(call[t]) : <<t, i>> \in CaseIds
  <2> SUFFICES ASSUME NEW t \in Busy, NEW i \in Sends(call[t]) PROVE <<t, i>> \in CaseIds OBVIOUS
  <2>1. Shape(call[t]) /\ t \in Tasks BY <1>0, BusyCalls
  <2>2. i \in CasesOf(call[t]) BY DEF Sends
  <2> QED BY <2>1, <2>2, CaseNamed
<1>2. \A t \in Busy : \A i \in Sends(call[t]) : offer'[<<t, i>>] = "taken" <=> offer[<<t, i>>] = "taken" BY <1>1
<1>3. CaseInv'
  <2>1. Busy' = Busy BY DEF Busy
  <2>2. ASSUME NEW t \in Busy, NEW i \in Sends(call[t])
        PROVE  /\ told[call[t].vals[i]] = "nothing"
               /\ \A c \in Chans : call[t].vals[i] \in Range(accepted[c]) <=>
                                     offer'[<<t, i>>] = "taken" /\ c = call[t].cases[i].ch
    BY <1>0, <1>2 DEF CaseInv
  <2> QED BY <2>1, <2>2 DEF CaseInv, Sends, CasesOf
<1>4. FreshInv' /\ TickInv' /\ ReportsAgree' BY <1>0 DEF FreshInv, TickInv, ReportsAgree, Ticker
<1> QED BY <1>3, <1>4

\* A step that only wakes the tasks it has a deadline or a cancel for.
LEMMA QuietKeeps ==
  ASSUME IInv, NEW W \in SUBSET Busy,
         UNCHANGED <<made, buf, closed, recvWakers, sendWakers, offers, waiters>>,
         UNCHANGED <<slot, offer, call, mark, next, told, accepted, got>>,
         woken' = woken \cup W, due \subseteq due', due' \subseteq due \cup W,
         cancelled \subseteq cancelled', cancelled' \subseteq cancelled \cup W
  PROVE  IInv'
<1>0. TypeOK /\ ChanTypes /\ CallTypes /\ QueueTypes BY TypeParts DEF IInv
<1>1. /\ UNCHANGED <<made, buf, closed, recvWakers, sendWakers, offers, waiters>>
      /\ UNCHANGED <<slot, offer, call, mark, next, told, accepted, got>>
      /\ W \subseteq Busy /\ woken' = woken \cup W /\ due \subseteq due' /\ due' \subseteq due \cup W
      /\ cancelled \subseteq cancelled' /\ cancelled' \subseteq cancelled \cup W
  OBVIOUS
<1>2. next' \in 1..(MaxValues + 1) /\ next <= next'
  BY <1>0, <1>1, MaxValuesAssumption DEF ChanTypes
<1>3. Busy' = Busy /\ CallTypes' /\ QueueTypes'
  <2>1. offers' \in [Chans -> Seq(CaseIds)] /\ slot' \in [CaseIds -> Values \cup {None}]
        /\ offer' \in [CaseIds -> OfferStates] /\ mark' \in [Tasks -> BOOLEAN]
    BY <1>0, <1>1 DEF CallTypes
  <2>2. woken' \subseteq Busy /\ cancelled' \subseteq Busy /\ due' \subseteq Busy BY <1>0, <1>1 DEF QueueTypes
  <2>3. \A c \in Chans : \A o \in Range(offers'[c]) : o \in Range(offers[c]) /\ offer'[o] = offer[o] BY <1>1
  <2> QED BY <1>1, <1>2, <2>1, <2>2, <2>3, FrameTypes
<1>4. ChanTypes' BY <1>0, <1>1 DEF ChanTypes, Rendezvous, Room
<1>5. TypeOK'
  <2>1. (TypeOK <=> ChanTypes /\ CallTypes /\ QueueTypes)' BY TypeParts, PTL
  <2> QED BY <1>3, <1>4, <2>1
<1>6. IdleInv' /\ OfferInv' /\ SlotInv' /\ WakerInv' /\ OwnInv'
  <2>1. \A a \in CaseIds : offer[a] = "taken" => mark[a[1]] BY DEF IInv, OfferInv
  <2>2. \A u \in Tasks : mark'[u] => mark[u] \/ call[u] # None BY <1>1
  <2>3. \A a \in CaseIds : offer'[a] # "none" => offer[a] # "none" BY <1>1
  <2>4. \A a \in CaseIds : offer'[a] = "taken" => mark'[a[1]] /\ (offer[a] = "taken" \/ ~mark[a[1]])
    BY <1>1, <2>1
  <2>5. \A x, y \in CaseIds :
          offer'[x] = "taken" /\ offer[x] # "taken" /\ offer'[y] = "taken" /\ offer[y] # "taken" => x = y
    BY <1>1
  <2>6. \A a \in CaseIds : slot'[a] # None => slot[a] # None \/ \E c \in Chans : a \in Range(waiters[c])
    BY <1>1
  <2>7. \A c \in Chans : recvWakers'[c] \subseteq recvWakers[c] /\ sendWakers'[c] \subseteq sendWakers[c]
    BY <1>1
  <2> QED BY <1>1, <2>2, <2>3, <2>4, <2>5, <2>6, <2>7, FrameState
<1>7. CaseInv' /\ FreshInv' /\ TickInv' /\ ReportsAgree' BY <1>1, SameValues
<1>8. RegisteredInv' /\ NoSleepBesideReady'
  <2>1. ASSUME NEW u \in Busy' \ woken' PROVE u \in Busy \ woken /\ Undisturbed(u)
    <3>1. u \in Busy /\ u \notin woken /\ u \notin W BY <1>1, <1>3, <2>1
    <3>2. u \notin cancelled BY <3>1 DEF IInv, NoSleepBesideReady
    <3>3. u \notin cancelled' /\ (u \in due' => u \in due) BY <1>1, <3>1, <3>2
    <3>4. \A c \in Chans : ~(Len(buf'[c]) < Len(buf[c]))
      <4>1. \A c \in Chans : Len(buf[c]) \in Nat BY <1>0, LenProperties DEF ChanTypes
      <4> QED BY <1>1, <4>1
    <3> QED BY <1>1, <3>1, <3>3, <3>4 DEF Undisturbed
  <2> QED BY <1>5, <2>1, SleepKept
<1> QED BY <1>5, <1>6, <1>7, <1>8 DEF IInv

\* A deadline or a cancel wakes the task that it is for.
LEMMA AlarmKeeps ==
  ASSUME IInv, NEW t \in Tasks, Expire(t) \/ Cancel(t)
  PROVE  IInv'
<1> DEFINE W == {t}
<1>1. /\ UNCHANGED <<made, buf, closed, recvWakers, sendWakers, offers, waiters>>
      /\ UNCHANGED <<slot, offer, call, mark, next, told, accepted, got>>
      /\ W \in SUBSET Busy /\ woken' = woken \cup W /\ due \subseteq due' /\ due' \subseteq due \cup W
      /\ cancelled \subseteq cancelled' /\ cancelled' \subseteq cancelled \cup W
  BY DEF Expire, Cancel, chanVars, ghosts, Busy
<1> HIDE DEF W
<1> QED BY <1>1, QuietKeeps

LEMMA StutterKeeps ==
  ASSUME IInv, UNCHANGED vars
  PROVE  IInv'
<1> DEFINE W == {}
<1>1. /\ UNCHANGED <<made, buf, closed, recvWakers, sendWakers, offers, waiters>>
      /\ UNCHANGED <<slot, offer, call, mark, next, told, accepted, got>>
      /\ W \in SUBSET Busy /\ woken' = woken \cup W /\ due \subseteq due' /\ due' \subseteq due \cup W
      /\ cancelled \subseteq cancelled' /\ cancelled' \subseteq cancelled \cup W
  BY DEF vars, chanVars, callVars, ghosts
<1> HIDE DEF W
<1> QED BY <1>1, QuietKeeps

\* A close withdraws the offers, and wakes all who wait on the channel.
LEMMA CloseKeeps ==
  ASSUME IInv, NEW c \in Chans, Close(c)
  PROVE  IInv'
<1> DEFINE withdrawn == Range(offers[c])
<1>0. TypeOK /\ ChanTypes /\ CallTypes /\ QueueTypes BY TypeParts DEF IInv
<1>1. /\ UNCHANGED <<made, buf, waiters, slot, call, mark, due, cancelled, next, told, accepted, got>>
      /\ closed' = [closed EXCEPT ![c] = TRUE] /\ offers' = [offers EXCEPT ![c] = <<>>]
      /\ offer' = [a \in CaseIds |-> IF a \in withdrawn THEN "withdrawn" ELSE offer[a]]
      /\ woken' = (woken \cup WakeAll({c}, {c}, {a[1] : a \in withdrawn})) \cap Busy
      /\ recvWakers' = [recvWakers EXCEPT ![c] = {}] /\ sendWakers' = [sendWakers EXCEPT ![c] = {}]
  BY DEF Close, ghosts
<1> DEFINE gone(a) == a \in withdrawn
<1>2. \A a : gone(a) => a \in CaseIds /\ offer[a] = "open" /\ a[1] \in Busy /\ a[2] \in Sends(call[a[1]])
                        /\ call[a[1]].cases[a[2]].ch = c
  BY OfferFacts
<1>3. \A a \in CaseIds : (gone(a) => offer'[a] = "withdrawn") /\ (~gone(a) => offer'[a] = offer[a])
  BY <1>1
<1>4. \A d \in Chans : d # c =>
        offers'[d] = offers[d] /\ closed'[d] = closed[d] /\ recvWakers'[d] = recvWakers[d] /\ sendWakers'[d] = sendWakers[d]
  BY <1>0, <1>1 DEF ChanTypes, CallTypes
<1>5. offers'[c] = <<>> /\ recvWakers'[c] = {} /\ sendWakers'[c] = {}
  BY <1>0, <1>1 DEF ChanTypes, CallTypes
<1>a. Range(<<>>) = {} BY DEF Range
<1>6. \A u \in Busy : u \notin woken' =>
        /\ u \notin woken /\ u \notin recvWakers[c] /\ u \notin sendWakers[c]
        /\ (\A w \in Range(waiters[c]) : w[1] # u) /\ \A a : gone(a) => a[1] # u
  BY <1>1 DEF WakeAll, Receivers
<1>7. ASSUME NEW d \in Chans, NEW o \in Range(offers'[d])
      PROVE  o \in Range(offers[d]) /\ offer'[o] = offer[o]
  <2>1. d # c BY <1>5, <1>a, <1>7
  <2>2. o \in Range(offers[d]) BY <1>4, <1>7, <2>1
  <2>3. o \in CaseIds /\ call[o[1]].cases[o[2]].ch = d BY <2>2, OfferFacts
  <2>4. ~gone(o) BY <1>2, <2>1, <2>3
  <2> QED BY <1>3, <2>2, <2>3, <2>4
<1>8. next' \in 1..(MaxValues + 1) /\ next <= next'
  BY <1>0, <1>1, MaxValuesAssumption DEF ChanTypes
<1>9. Busy' = Busy /\ CallTypes' /\ QueueTypes'
  <2>1. offers' \in [Chans -> Seq(CaseIds)]
    <3>1. <<>> \in Seq(CaseIds) /\ offers \in [Chans -> Seq(CaseIds)] BY <1>0 DEF CallTypes
    <3> QED BY <1>1, <3>1
  <2>2. offer' \in [CaseIds -> OfferStates] BY <1>0, <1>1 DEF CallTypes, OfferStates
  <2>3. slot' \in [CaseIds -> Values \cup {None}] /\ mark' \in [Tasks -> BOOLEAN] BY <1>0, <1>1 DEF CallTypes
  <2>4. woken' \subseteq Busy /\ cancelled' \subseteq Busy /\ due' \subseteq Busy BY <1>0, <1>1 DEF QueueTypes
  <2> QED BY <1>1, <1>7, <1>8, <2>1, <2>2, <2>3, <2>4, FrameTypes
<1>10. ChanTypes'
  <2>1. closed' \in [Chans -> BOOLEAN] /\ recvWakers' \in [Chans -> SUBSET Tasks] /\ sendWakers' \in [Chans -> SUBSET Tasks]
    BY <1>0, <1>1 DEF ChanTypes
  <2> QED BY <1>0, <1>1, <2>1 DEF ChanTypes, Rendezvous, Room
<1>11. TypeOK'
  <2>1. (TypeOK <=> ChanTypes /\ CallTypes /\ QueueTypes)' BY TypeParts, PTL
  <2> QED BY <1>9, <1>10, <2>1
<1> HIDE DEF gone
<1>12. IdleInv' /\ OfferInv' /\ SlotInv' /\ WakerInv' /\ OwnInv'
  <2>1. \A a \in CaseIds : offer[a] = "taken" => mark[a[1]] BY DEF IInv, OfferInv
  <2>2. \A u \in Tasks : mark'[u] => mark[u] \/ call[u] # None BY <1>1
  <2>3. \A a \in CaseIds : offer'[a] # "none" => offer[a] # "none" BY <1>2, <1>3
  <2>4. \A a \in CaseIds : offer'[a] = "taken" => mark'[a[1]] /\ (offer[a] = "taken" \/ ~mark[a[1]])
    BY <1>1, <1>3, <2>1
  <2>5. \A x, y \in CaseIds :
          offer'[x] = "taken" /\ offer[x] # "taken" /\ offer'[y] = "taken" /\ offer[y] # "taken" => x = y
    BY <1>3
  <2>6. \A a \in CaseIds : slot'[a] # None => slot[a] # None \/ \E d \in Chans : a \in Range(waiters[d])
    BY <1>1
  <2>7. \A d \in Chans : recvWakers'[d] \subseteq recvWakers[d] /\ sendWakers'[d] \subseteq sendWakers[d]
    BY <1>4, <1>5
  <2> QED BY <1>1, <2>2, <2>3, <2>4, <2>5, <2>6, <2>7, FrameState
<1>13. CaseInv' /\ FreshInv' /\ TickInv' /\ ReportsAgree'
  <2>1. \A a \in CaseIds : offer'[a] = "taken" <=> offer[a] = "taken" BY <1>2, <1>3
  <2> QED BY <1>1, <2>1, SameValues
<1>14. RegisteredInv' /\ NoSleepBesideReady'
  <2>1. ASSUME NEW u \in Busy' \ woken' PROVE u \in Busy \ woken /\ Undisturbed(u)
    <3>1. /\ u \in Busy /\ u \notin woken /\ u \notin recvWakers[c] /\ u \notin sendWakers[c]
          /\ (\A w \in Range(waiters[c]) : w[1] # u) /\ \A a : gone(a) => a[1] # u
      BY <1>6, <1>9, <2>1
    <3>2. u \notin cancelled BY <3>1 DEF IInv, NoSleepBesideReady
    <3>3. \A a \in CaseIds : a[1] = u => offer'[a] = offer[a] BY <1>3, <3>1
    <3>4. \A d \in Chans : ~(Len(buf'[d]) < Len(buf[d]))
      <4>1. \A d \in Chans : Len(buf[d]) \in Nat BY <1>0, LenProperties DEF ChanTypes
      <4> QED BY <1>1, <4>1
    <3>5. ASSUME NEW d \in Chans, u \in recvWakers[d] PROVE u \in recvWakers'[d] /\ closed'[d] = closed[d]
      BY <1>4, <3>1, <3>5
    <3>6. ASSUME NEW d \in Chans, u \in sendWakers[d] PROVE u \in sendWakers'[d] /\ closed'[d] = closed[d]
      BY <1>4, <3>1, <3>6
    <3>7. ASSUME NEW d \in Chans, NEW w \in Range(waiters[d]), w[1] = u
          PROVE  closed'[d] = closed[d] /\ offers'[d] = offers[d]
      BY <1>4, <3>1, <3>7
    <3>8. /\ UNCHANGED made /\ call'[u] = call[u] /\ UNCHANGED buf /\ UNCHANGED waiters /\ UNCHANGED slot
          /\ UNCHANGED mark /\ UNCHANGED due /\ UNCHANGED cancelled
      BY <1>1
    <3>9. \A d \in Chans : \A w \in Range(waiters[d]) : w[1] = u =>
            /\ w \in Range(waiters'[d]) /\ closed'[d] = closed[d] /\ (buf[d] = <<>> => buf'[d] = <<>>)
            /\ \A o \in Range(offers'[d]) : o[1] # u /\ ~mark'[o[1]] => o \in Range(offers[d]) /\ ~mark[o[1]]
      BY <3>7, <3>8
    <3> QED BY <3>1, <3>2, <3>3, <3>4, <3>5, <3>6, <3>8, <3>9 DEF Undisturbed
  <2> QED BY <1>11, <2>1, SleepKept
<1> QED BY <1>11, <1>12, <1>13, <1>14 DEF IInv

\* try_send tells its sender whether it was accepted, and gives an accepted value to one waiter
\* or to the buffer, whose receivers it wakes.
LEMMA TrySendTold ==
  ASSUME IInv, NEW c \in Chans, TrySend(c)
  PROVE  /\ next \in Values /\ next' = next + 1 /\ ~Ticker(c)
         /\ UNCHANGED <<made, closed, sendWakers, offers, waiters, offer, call, mark, due, cancelled, got>>
         /\ told' \in [Values -> {"nothing", "sent", "failed"}] /\ told'[next] \in {"sent", "failed"}
         /\ \A w \in Values : w # next => told'[w] = told[w]
         /\ accepted' \in [Chans -> Seq(Values)]
         /\ \A d \in Chans : \A w : w \in Range(accepted'[d]) <=>
              w \in Range(accepted[d]) \/ (d = c /\ w = next /\ told'[next] = "sent")
<1>0. TypeOK /\ ChanTypes /\ CallTypes BY TypeParts DEF IInv
<1>1. /\ next <= MaxValues /\ ~Ticker(c) /\ next' = next + 1
      /\ UNCHANGED <<made, closed, sendWakers, offers, waiters, offer, call, mark, due, cancelled, got>>
      /\ \/ told' = [told EXCEPT ![next] = "failed"] /\ UNCHANGED accepted
         \/ told' = [told EXCEPT ![next] = "sent"] /\ accepted' = [accepted EXCEPT ![c] = Append(accepted[c], next)]
  BY DEF TrySend
<1>2. next \in Values BY <1>0, <1>1, MaxValuesAssumption DEF ChanTypes, Values
<1>3. told \in [Values -> {"nothing", "sent", "failed"}] /\ accepted \in [Chans -> Seq(Values)] BY <1>0 DEF ChanTypes
<1>4. Append(accepted[c], next) \in Seq(Values) /\ Range(Append(accepted[c], next)) = Range(accepted[c]) \cup {next}
  BY <1>2, <1>3, AppendRange
<1>5. CASE told' = [told EXCEPT ![next] = "failed"] /\ UNCHANGED accepted
  BY <1>1, <1>2, <1>3, <1>5
<1>6. CASE told' = [told EXCEPT ![next] = "sent"] /\ accepted' = [accepted EXCEPT ![c] = Append(accepted[c], next)]
  <2>1. accepted'[c] = Append(accepted[c], next) /\ \A d \in Chans : d # c => accepted'[d] = accepted[d] BY <1>3, <1>6
  <2>2. accepted' \in [Chans -> Seq(Values)] BY <1>3, <1>4, <1>6
  <2>3. told' \in [Values -> {"nothing", "sent", "failed"}] /\ told'[next] = "sent"
        /\ \A w \in Values : w # next => told'[w] = told[w]
    BY <1>2, <1>3, <1>6
  <2> QED BY <1>1, <1>2, <1>4, <2>1, <2>2, <2>3
<1> QED BY <1>1, <1>5, <1>6

LEMMA TrySendQueue ==
  ASSUME IInv, NEW c \in Chans, TrySend(c)
  PROVE  /\ buf' \in [Chans -> Seq(Values)] /\ recvWakers' \in [Chans -> SUBSET Tasks]
         /\ slot' \in [CaseIds -> Values \cup {None}] /\ woken' \subseteq Busy
         /\ \A d \in Chans : ~Rendezvous(d) => Len(buf'[d]) <= Room(d)
         /\ \A d \in Chans : recvWakers'[d] \subseteq recvWakers[d] /\ ~(Len(buf'[d]) < Len(buf[d]))
         /\ \A a \in CaseIds : slot'[a] # None => slot[a] # None \/ \E d \in Chans : a \in Range(waiters[d])
         /\ \A u \in Busy : u \notin woken' =>
              /\ u \notin woken /\ \A a \in CaseIds : a[1] = u => slot'[a] = slot[a]
              /\ \A d \in Chans : u \in recvWakers[d] => u \in recvWakers'[d] /\ buf'[d] = buf[d]
              /\ \A d \in Chans : \A w \in Range(waiters[d]) : w[1] = u => buf'[d] = buf[d]
<1>0. TypeOK /\ ChanTypes /\ CallTypes /\ QueueTypes BY TypeParts DEF IInv
<1>1. next \in Values BY TrySendTold
<1>2. /\ buf \in [Chans -> Seq(Values)] /\ recvWakers \in [Chans -> SUBSET Tasks]
      /\ slot \in [CaseIds -> Values \cup {None}] /\ woken \subseteq Busy
      /\ \A d \in Chans : ~Rendezvous(d) => Len(buf[d]) <= Room(d)
  BY <1>0 DEF ChanTypes, CallTypes, QueueTypes
<1>3. \A d \in Chans : Len(buf[d]) \in Nat BY <1>2, LenProperties
<1>4. \/ UNCHANGED <<buf, recvWakers, slot, woken>>
      \/ /\ Fillable(None, c) # <<>>
         /\ \E w : /\ w = Head(Fillable(None, c)) /\ slot' = [slot EXCEPT ![w] = next]
                   /\ woken' = woken \cup {w[1]} /\ UNCHANGED <<buf, recvWakers>>
      \/ /\ ~Rendezvous(c) /\ Len(buf[c]) < Room(c) /\ buf' = [buf EXCEPT ![c] = Append(buf[c], next)]
         /\ woken' = (woken \cup recvWakers[c]) \cap Busy
         /\ recvWakers' = [recvWakers EXCEPT ![c] = {}] /\ UNCHANGED slot
  BY DEF TrySend, Owner
<1>5. CASE UNCHANGED <<buf, recvWakers, slot, woken>>
  BY <1>2, <1>3, <1>5
<1>6. CASE /\ Fillable(None, c) # <<>>
           /\ \E w : /\ w = Head(Fillable(None, c)) /\ slot' = [slot EXCEPT ![w] = next]
                     /\ woken' = woken \cup {w[1]} /\ UNCHANGED <<buf, recvWakers>>
  <2>1. PICK w : /\ w = Head(Fillable(None, c)) /\ slot' = [slot EXCEPT ![w] = next]
                 /\ woken' = woken \cup {w[1]} /\ UNCHANGED <<buf, recvWakers>>
    BY <1>6
  <2>2. w \in Range(waiters[c]) BY <1>6, <2>1, PairFacts
  <2>3. w \in CaseIds /\ w[1] \in Busy BY <2>2, WaiterFacts
  <2>4. slot' \in [CaseIds -> Values \cup {None}] /\ \A a \in CaseIds : a # w => slot'[a] = slot[a]
    BY <1>1, <1>2, <2>1
  <2> QED BY <1>2, <1>3, <2>1, <2>2, <2>3, <2>4
<1>7. CASE /\ ~Rendezvous(c) /\ Len(buf[c]) < Room(c) /\ buf' = [buf EXCEPT ![c] = Append(buf[c], next)]
           /\ woken' = (woken \cup recvWakers[c]) \cap Busy
           /\ recvWakers' = [recvWakers EXCEPT ![c] = {}] /\ UNCHANGED slot
  <2>1. Append(buf[c], next) \in Seq(Values) /\ Len(Append(buf[c], next)) = Len(buf[c]) + 1
    BY <1>1, <1>2, AppendProperties
  <2>2. buf' \in [Chans -> Seq(Values)] /\ Len(buf'[c]) = Len(buf[c]) + 1 /\ \A d \in Chans : d # c => buf'[d] = buf[d]
    BY <1>2, <1>7, <2>1
  <2>3. recvWakers' \in [Chans -> SUBSET Tasks] /\ recvWakers'[c] = {}
        /\ \A d \in Chans : d # c => recvWakers'[d] = recvWakers[d]
    BY <1>2, <1>7
  <2>4. Room(c) \in Nat BY <1>0, ChanFacts
  <2>5. \A d \in Chans : ~Rendezvous(d) => Len(buf'[d]) <= Room(d) BY <1>2, <1>3, <1>7, <2>2, <2>4
  <2>6. \A d \in Chans : recvWakers'[d] \subseteq recvWakers[d] BY <2>3
  <2>7. \A d \in Chans : ~(Len(buf'[d]) < Len(buf[d])) BY <1>3, <2>2
  <2>8. \A w \in Range(waiters[c]) : FALSE BY <1>7, WaiterFacts
  <2>9. ASSUME NEW u \in Busy, u \notin woken'
        PROVE  /\ u \notin woken
               /\ \A d \in Chans : u \in recvWakers[d] => u \in recvWakers'[d] /\ buf'[d] = buf[d]
               /\ \A d \in Chans : \A w \in Range(waiters[d]) : w[1] = u => buf'[d] = buf[d]
    <3>1. u \notin woken /\ u \notin recvWakers[c] BY <1>7, <2>9
    <3> QED BY <2>2, <2>3, <2>8, <3>1
  <2>10. woken' \subseteq Busy BY <1>7
  <2> QED BY <1>2, <1>7, <2>2, <2>3, <2>5, <2>6, <2>7, <2>9, <2>10
<1> QED BY <1>4, <1>5, <1>6, <1>7

LEMMA TrySendKeeps ==
  ASSUME IInv, NEW c \in Chans, TrySend(c)
  PROVE  IInv'
<1>0. /\ TypeOK /\ ChanTypes /\ CallTypes /\ QueueTypes
      /\ CaseInv /\ FreshInv /\ TickInv /\ ReportsAgree
  BY TypeParts DEF IInv
<1>1. /\ next \in Values /\ next' = next + 1 /\ ~Ticker(c)
      /\ UNCHANGED <<made, closed, sendWakers, offers, waiters, offer, call, mark, due, cancelled, got>>
      /\ told' \in [Values -> {"nothing", "sent", "failed"}] /\ told'[next] \in {"sent", "failed"}
      /\ \A w \in Values : w # next => told'[w] = told[w]
      /\ accepted' \in [Chans -> Seq(Values)]
      /\ \A d \in Chans : \A w : w \in Range(accepted'[d]) <=>
           w \in Range(accepted[d]) \/ (d = c /\ w = next /\ told'[next] = "sent")
  BY TrySendTold
<1>2. /\ buf' \in [Chans -> Seq(Values)] /\ recvWakers' \in [Chans -> SUBSET Tasks]
      /\ slot' \in [CaseIds -> Values \cup {None}] /\ woken' \subseteq Busy
      /\ \A d \in Chans : ~Rendezvous(d) => Len(buf'[d]) <= Room(d)
      /\ \A d \in Chans : recvWakers'[d] \subseteq recvWakers[d] /\ ~(Len(buf'[d]) < Len(buf[d]))
      /\ \A a \in CaseIds : slot'[a] # None => slot[a] # None \/ \E d \in Chans : a \in Range(waiters[d])
      /\ \A u \in Busy : u \notin woken' =>
           /\ u \notin woken /\ \A a \in CaseIds : a[1] = u => slot'[a] = slot[a]
           /\ \A d \in Chans : u \in recvWakers[d] => u \in recvWakers'[d] /\ buf'[d] = buf[d]
           /\ \A d \in Chans : \A w \in Range(waiters[d]) : w[1] = u => buf'[d] = buf[d]
  BY TrySendQueue
<1>3. next \in Nat /\ next' \in 1..(MaxValues + 1) /\ next <= next'
  BY <1>1, MaxValuesAssumption DEF Values
<1>4. Busy' = Busy /\ CallTypes' /\ QueueTypes'
  <2>1. offers' \in [Chans -> Seq(CaseIds)] /\ offer' \in [CaseIds -> OfferStates] /\ mark' \in [Tasks -> BOOLEAN]
    BY <1>0, <1>1 DEF CallTypes
  <2>2. woken' \subseteq Busy /\ cancelled' \subseteq Busy /\ due' \subseteq Busy BY <1>0, <1>1, <1>2 DEF QueueTypes
  <2>3. \A d \in Chans : \A o \in Range(offers'[d]) : o \in Range(offers[d]) /\ offer'[o] = offer[o] BY <1>1
  <2> QED BY <1>1, <1>2, <1>3, <2>1, <2>2, <2>3, FrameTypes
<1>5. ChanTypes' BY <1>0, <1>1, <1>2, <1>3 DEF ChanTypes, Rendezvous, Room
<1>6. TypeOK'
  <2>1. (TypeOK <=> ChanTypes /\ CallTypes /\ QueueTypes)' BY TypeParts, PTL
  <2> QED BY <1>4, <1>5, <2>1
<1>7. IdleInv' /\ OfferInv' /\ SlotInv' /\ WakerInv' /\ OwnInv'
  <2>1. \A a \in CaseIds : offer[a] = "taken" => mark[a[1]] BY DEF IInv, OfferInv
  <2>2. \A u \in Tasks : mark'[u] => mark[u] \/ call[u] # None BY <1>1
  <2>3. \A a \in CaseIds : offer'[a] # "none" => offer[a] # "none" BY <1>1
  <2>4. \A a \in CaseIds : offer'[a] = "taken" => mark'[a[1]] /\ (offer[a] = "taken" \/ ~mark[a[1]])
    BY <1>1, <2>1
  <2>5. \A x, y \in CaseIds :
          offer'[x] = "taken" /\ offer[x] # "taken" /\ offer'[y] = "taken" /\ offer[y] # "taken" => x = y
    BY <1>1
  <2>6. \A a \in CaseIds : slot'[a] # None => slot[a] # None \/ \E d \in Chans : a \in Range(waiters[d])
    BY <1>2
  <2>7. \A d \in Chans : recvWakers'[d] \subseteq recvWakers[d] /\ sendWakers'[d] \subseteq sendWakers[d]
    BY <1>1, <1>2
  <2> QED BY <1>1, <2>2, <2>3, <2>4, <2>5, <2>6, <2>7, FrameState
<1>8. CaseInv'
  <2>1. ASSUME NEW t \in Busy, NEW i \in Sends(call[t])
        PROVE  /\ told'[call[t].vals[i]] = "nothing"
               /\ \A d \in Chans : call[t].vals[i] \in Range(accepted'[d]) <=>
                                     offer[<<t, i>>] = "taken" /\ d = call[t].cases[i].ch
    <3>1. call[t].vals[i] \in Values /\ call[t].vals[i] < next BY <1>0, BusyCalls
    <3>2. call[t].vals[i] # next BY <1>3, <3>1
    <3>3. /\ told[call[t].vals[i]] = "nothing"
          /\ \A d \in Chans : call[t].vals[i] \in Range(accepted[d]) <=>
                                offer[<<t, i>>] = "taken" /\ d = call[t].cases[i].ch
      BY <1>0 DEF CaseInv
    <3> QED BY <1>1, <3>1, <3>2, <3>3
  <2> QED BY <1>1, <1>4, <2>1 DEF CaseInv, Sends, CasesOf
<1>9. FreshInv'
  <2>1. ASSUME NEW w \in Values, w >= next + 1 PROVE told'[w] = "nothing" /\ \A d \in Chans : w \notin Range(accepted'[d])
    <3>1. w \in Nat BY MaxValuesAssumption DEF Values
    <3>2. w # next /\ w >= next BY <1>3, <2>1, <3>1
    <3> QED BY <1>0, <1>1, <3>2 DEF FreshInv
  <2> QED BY <1>1, <2>1 DEF FreshInv
<1>10. TickInv'
  <2>1. ASSUME NEW d \in Chans, Ticker(d), NEW w \in Range(accepted[d]) PROVE told'[w] = "nothing"
    <3>1. accepted[d] \in Seq(Values) BY <1>0 DEF ChanTypes
    <3>2. w \in Values BY <3>1, RangeOfSeq
    <3>3. told[w] = "nothing" BY <1>0, <2>1 DEF TickInv
    <3>4. w # next
      <4>1. next >= next BY <1>3
      <4>2. \A e \in Chans : next \notin Range(accepted[e]) BY <1>0, <1>1, <4>1 DEF FreshInv
      <4> QED BY <4>2
    <3> QED BY <1>1, <3>2, <3>3, <3>4
  <2>2. \A d \in Chans : Ticker(d) => \A w : w \in Range(accepted'[d]) <=> w \in Range(accepted[d]) BY <1>1
  <2>3. \A d \in Chans : Ticker(d) => \A w \in Range(accepted'[d]) : told'[w] = "nothing" BY <2>1, <2>2
  <2> QED BY <1>1, <2>3 DEF TickInv, Ticker
<1>11. ReportsAgree'
  <2>1. next >= next BY <1>3
  <2>2. \A e \in Chans : next \notin Range(accepted[e]) BY <1>0, <1>1, <2>1 DEF FreshInv
  <2>3. ASSUME NEW w \in Values
        PROVE  /\ told'[w] = "failed" => \A d \in Chans : w \notin Range(accepted'[d])
               /\ told'[w] = "sent" => \E d \in Chans : w \in Range(accepted'[d])
    <3>1. CASE w = next BY <1>1, <2>2, <3>1
    <3>2. CASE w # next
      <4>1. /\ told[w] = "failed" => \A d \in Chans : w \notin Range(accepted[d])
            /\ told[w] = "sent" => \E d \in Chans : w \in Range(accepted[d])
        BY <1>0 DEF ReportsAgree
      <4> QED BY <1>1, <3>2, <4>1
    <3> QED BY <3>1, <3>2
  <2> QED BY <2>3 DEF ReportsAgree
<1>12. RegisteredInv' /\ NoSleepBesideReady'
  <2>1. ASSUME NEW u \in Busy' \ woken' PROVE u \in Busy \ woken /\ Undisturbed(u)
    <3>1. u \in Busy /\ u \notin woken' BY <1>4, <2>1
    <3>2. /\ u \notin woken /\ \A a \in CaseIds : a[1] = u => slot'[a] = slot[a]
          /\ \A d \in Chans : u \in recvWakers[d] => u \in recvWakers'[d] /\ buf'[d] = buf[d]
          /\ \A d \in Chans : \A w \in Range(waiters[d]) : w[1] = u => buf'[d] = buf[d]
      BY <1>2, <3>1
    <3>3. u \notin cancelled BY <3>1, <3>2 DEF IInv, NoSleepBesideReady
    <3>4. /\ UNCHANGED <<made, closed, sendWakers, offers, waiters, offer, call, mark, due, cancelled>>
          /\ \A d \in Chans : ~(Len(buf'[d]) < Len(buf[d]))
      BY <1>1, <1>2
    <3> QED BY <3>1, <3>2, <3>3, <3>4 DEF Undisturbed
  <2> QED BY <1>6, <2>1, SleepKept
<1> QED BY <1>6, <1>7, <1>8, <1>9, <1>10, <1>11, <1>12 DEF IInv

\* try_recv takes the value at the front, and wakes the senders that wait for room.
LEMMA TailKeeps ==
  ASSUME IInv, NEW c \in Chans, TryRecv(c), buf[c] # <<>>
  PROVE  IInv'
<1>0. TypeOK /\ ChanTypes /\ CallTypes /\ QueueTypes BY TypeParts DEF IInv
<1>1. /\ UNCHANGED <<made, closed, recvWakers, waiters, slot, call, due, cancelled, next, told>>
      /\ UNCHANGED <<offers, offer, mark, accepted>>
      /\ buf' = [buf EXCEPT ![c] = Tail(buf[c])] /\ got' = [got EXCEPT ![c] = Append(got[c], Head(buf[c]))]
      /\ woken' = (woken \cup sendWakers[c]) \cap Busy /\ sendWakers' = [sendWakers EXCEPT ![c] = {}]
  BY DEF TryRecv
<1>2. /\ buf \in [Chans -> Seq(Values)] /\ got \in [Chans -> Seq(Values)] /\ sendWakers \in [Chans -> SUBSET Tasks]
      /\ \A d \in Chans : ~Rendezvous(d) => Len(buf[d]) <= Room(d)
  BY <1>0 DEF ChanTypes
<1>3. /\ Tail(buf[c]) \in Seq(Values) /\ Len(Tail(buf[c])) = Len(buf[c]) - 1
      /\ Len(buf[c]) \in Nat /\ Len(buf[c]) > 0 /\ Head(buf[c]) \in Values
  BY <1>2, TailRange, HeadInRange
<1>4. /\ \A d \in Chans : d # c => buf'[d] = buf[d] /\ sendWakers'[d] = sendWakers[d]
      /\ buf'[c] = Tail(buf[c]) /\ sendWakers'[c] = {}
  BY <1>1, <1>2
<1>5. \A d \in Chans : Len(buf[d]) \in Nat BY <1>2, LenProperties
<1>6. next' \in 1..(MaxValues + 1) /\ next <= next'
  BY <1>0, <1>1, MaxValuesAssumption DEF ChanTypes
<1>7. Busy' = Busy /\ CallTypes' /\ QueueTypes'
  <2>1. /\ offers' \in [Chans -> Seq(CaseIds)] /\ offer' \in [CaseIds -> OfferStates] /\ mark' \in [Tasks -> BOOLEAN]
        /\ slot' \in [CaseIds -> Values \cup {None}]
    BY <1>0, <1>1 DEF CallTypes
  <2>2. woken' \subseteq Busy /\ cancelled' \subseteq Busy /\ due' \subseteq Busy BY <1>0, <1>1 DEF QueueTypes
  <2>3. \A d \in Chans : \A o \in Range(offers'[d]) : o \in Range(offers[d]) /\ offer'[o] = offer[o] BY <1>1
  <2> QED BY <1>1, <1>6, <2>1, <2>2, <2>3, FrameTypes
<1>8. ChanTypes'
  <2>1. buf' \in [Chans -> Seq(Values)] /\ sendWakers' \in [Chans -> SUBSET Tasks] BY <1>1, <1>2, <1>3
  <2>2. Append(got[c], Head(buf[c])) \in Seq(Values) BY <1>2, <1>3, AppendProperties
  <2>3. got' \in [Chans -> Seq(Values)] BY <1>1, <1>2, <2>2
  <2>4. ASSUME NEW d \in Chans, ~Rendezvous(d) PROVE Len(buf'[d]) <= Room(d)
    <3>1. Len(buf[d]) <= Room(d) /\ Room(d) \in Nat BY <1>0, <1>2, <2>4, ChanFacts
    <3>2. CASE d = c
      <4>1. Len(buf'[d]) = Len(buf[d]) - 1 /\ Len(buf[d]) \in Nat BY <1>3, <1>4, <3>2
      <4> QED BY <3>1, <4>1
    <3>3. CASE d # c BY <1>4, <3>1, <3>3
    <3> QED BY <3>2, <3>3
  <2>5. \A d \in Chans : ~Rendezvous(d)' => Len(buf'[d]) <= Room(d)' BY <1>1, <2>4 DEF Rendezvous, Room
  <2> QED BY <1>0, <1>1, <1>6, <2>1, <2>3, <2>5 DEF ChanTypes
<1>9. TypeOK'
  <2>1. (TypeOK <=> ChanTypes /\ CallTypes /\ QueueTypes)' BY TypeParts, PTL
  <2> QED BY <1>7, <1>8, <2>1
<1>10. IdleInv' /\ OfferInv' /\ SlotInv' /\ WakerInv' /\ OwnInv'
  <2>1. \A a \in CaseIds : offer[a] = "taken" => mark[a[1]] BY DEF IInv, OfferInv
  <2>2. \A u \in Tasks : mark'[u] => mark[u] \/ call[u] # None BY <1>1
  <2>3. \A a \in CaseIds : offer'[a] # "none" => offer[a] # "none" BY <1>1
  <2>4. \A a \in CaseIds : offer'[a] = "taken" => mark'[a[1]] /\ (offer[a] = "taken" \/ ~mark[a[1]])
    BY <1>1, <2>1
  <2>5. \A x, y \in CaseIds :
          offer'[x] = "taken" /\ offer[x] # "taken" /\ offer'[y] = "taken" /\ offer[y] # "taken" => x = y
    BY <1>1
  <2>6. \A a \in CaseIds : slot'[a] # None => slot[a] # None \/ \E d \in Chans : a \in Range(waiters[d])
    BY <1>1
  <2>7. \A d \in Chans : recvWakers'[d] \subseteq recvWakers[d] /\ sendWakers'[d] \subseteq sendWakers[d]
    BY <1>1, <1>4
  <2> QED BY <1>1, <2>2, <2>3, <2>4, <2>5, <2>6, <2>7, FrameState
<1>11. CaseInv' /\ FreshInv' /\ TickInv' /\ ReportsAgree' BY <1>1, SameValues
<1>12. RegisteredInv' /\ NoSleepBesideReady'
  <2>1. ASSUME NEW u \in Busy' \ woken' PROVE u \in Busy \ woken /\ Undisturbed(u)
    <3>1. u \in Busy /\ u \notin woken /\ u \notin sendWakers[c] BY <1>1, <1>7, <2>1
    <3>2. u \notin cancelled BY <3>1 DEF IInv, NoSleepBesideReady
    <3>3. ASSUME NEW d \in Chans, u \in sendWakers[d] PROVE u \in sendWakers'[d] /\ ~(Len(buf'[d]) < Len(buf[d]))
      BY <1>4, <1>5, <3>1, <3>3
    <3>4. \A d \in Chans : buf[d] = <<>> => buf'[d] = <<>> BY <1>4
    <3>5. UNCHANGED <<made, closed, recvWakers, offers, waiters, slot, offer, call, mark, due, cancelled>> BY <1>1
    <3> QED BY <3>1, <3>2, <3>3, <3>4, <3>5 DEF Undisturbed
  <2> QED BY <1>9, <2>1, SleepKept
<1> QED BY <1>9, <1>10, <1>11, <1>12 DEF IInv

\* Or it takes an offer of a select that has not its case yet, and claims the select with it.
LEMMA TakeEffect ==
  ASSUME IInv, NEW c \in Chans, TryRecv(c), buf[c] = <<>>
  PROVE  \E o \in Range(offers[c]) : \E v :
           /\ v = call[o[1]].vals[o[2]] /\ ~mark[o[1]]
           /\ \A d \in Chans : offers'[d] \in Seq(CaseIds) /\ \A x \in Range(offers'[d]) : x \in Range(offers[d]) /\ x # o
           /\ offers' \in [Chans -> Seq(CaseIds)]
           /\ offer' = [offer EXCEPT ![o] = "taken"] /\ mark' = [mark EXCEPT ![o[1]] = TRUE]
           /\ woken' = woken \cup {o[1]}
           /\ accepted' = [accepted EXCEPT ![c] = Append(accepted[c], v)]
           /\ got' = [got EXCEPT ![c] = Append(got[c], v)]
           /\ UNCHANGED <<made, buf, closed, recvWakers, sendWakers, waiters, slot, call, due, cancelled, next, told>>
<1> DEFINE o == Head(Takeable(None, c))  v == call[o[1]].vals[o[2]]  S == CaseIds \ {o}
<1>0. CallTypes BY TypeParts DEF IInv
<1>1. /\ Takeable(None, c) # <<>> /\ offers' = [offers EXCEPT ![c] = Keep(offers[c], S)]
      /\ offer' = [offer EXCEPT ![o] = "taken"] /\ mark' = [mark EXCEPT ![o[1]] = TRUE]
      /\ woken' = woken \cup {o[1]}
      /\ accepted' = [accepted EXCEPT ![c] = Append(accepted[c], v)]
      /\ got' = [got EXCEPT ![c] = Append(got[c], v)]
      /\ UNCHANGED <<made, buf, closed, recvWakers, sendWakers, waiters, slot, call, due, cancelled, next, told>>
  BY DEF TryRecv, Owner, ValueOf
<1>2. o \in Range(offers[c]) /\ Pairs(None, o) BY <1>1, PairFacts
<1>3. \A x \in S : x # o OBVIOUS
<1> HIDE DEF S
<1>4. offers \in [Chans -> Seq(CaseIds)] BY <1>0 DEF CallTypes
<1>5. Keep(offers[c], S) \in Seq(CaseIds) /\ Range(Keep(offers[c], S)) = Range(offers[c]) \cap S
  BY <1>4, KeepFacts
<1>6. ASSUME NEW d \in Chans, NEW x \in Range(offers'[d]) PROVE x \in Range(offers[d]) /\ x # o
  <2>1. CASE d = c
    <3>1. offers'[c] = Keep(offers[c], S) BY <1>1, <1>4
    <3> QED BY <1>3, <1>5, <1>6, <2>1, <3>1
  <2>2. CASE d # c
    <3>1. x \in Range(offers[d]) BY <1>1, <1>4, <1>6, <2>2
    <3>2. call[x[1]].cases[x[2]].ch = d /\ call[o[1]].cases[o[2]].ch = c BY <1>2, <3>1, OfferFacts
    <3> QED BY <2>2, <3>1, <3>2
  <2> QED BY <2>1, <2>2
<1>7. offers' \in [Chans -> Seq(CaseIds)] BY <1>1, <1>4, <1>5
<1>8. v = call[o[1]].vals[o[2]] /\ ~mark[o[1]] BY <1>2 DEF Pairs
<1> HIDE DEF o, v
<1> QED BY <1>1, <1>2, <1>6, <1>7, <1>8

LEMMA TakeKeeps ==
  ASSUME IInv, NEW c \in Chans, TryRecv(c), buf[c] = <<>>
  PROVE  IInv'
<1>0. /\ TypeOK /\ ChanTypes /\ CallTypes /\ QueueTypes
      /\ OwnInv /\ CaseInv /\ FreshInv /\ TickInv /\ ReportsAgree
  BY TypeParts DEF IInv
<1>1. PICK o \in Range(offers[c]) : \E v :
           /\ v = call[o[1]].vals[o[2]] /\ ~mark[o[1]]
           /\ \A d \in Chans : offers'[d] \in Seq(CaseIds) /\ \A x \in Range(offers'[d]) : x \in Range(offers[d]) /\ x # o
           /\ offers' \in [Chans -> Seq(CaseIds)]
           /\ offer' = [offer EXCEPT ![o] = "taken"] /\ mark' = [mark EXCEPT ![o[1]] = TRUE]
           /\ woken' = woken \cup {o[1]}
           /\ accepted' = [accepted EXCEPT ![c] = Append(accepted[c], v)]
           /\ got' = [got EXCEPT ![c] = Append(got[c], v)]
           /\ UNCHANGED <<made, buf, closed, recvWakers, sendWakers, waiters, slot, call, due, cancelled, next, told>>
  BY TakeEffect
<1>2. PICK v :
           /\ v = call[o[1]].vals[o[2]] /\ ~mark[o[1]]
           /\ \A d \in Chans : offers'[d] \in Seq(CaseIds) /\ \A x \in Range(offers'[d]) : x \in Range(offers[d]) /\ x # o
           /\ offers' \in [Chans -> Seq(CaseIds)]
           /\ offer' = [offer EXCEPT ![o] = "taken"] /\ mark' = [mark EXCEPT ![o[1]] = TRUE]
           /\ woken' = woken \cup {o[1]}
           /\ accepted' = [accepted EXCEPT ![c] = Append(accepted[c], v)]
           /\ got' = [got EXCEPT ![c] = Append(got[c], v)]
           /\ UNCHANGED <<made, buf, closed, recvWakers, sendWakers, waiters, slot, call, due, cancelled, next, told>>
  BY <1>1
<1>3. /\ o \in CaseIds /\ o[1] \in Busy /\ o[1] \in Tasks /\ o[2] \in Sends(call[o[1]])
      /\ call[o[1]].cases[o[2]].ch = c /\ offer[o] = "open" /\ Rendezvous(c) /\ v \in Values
      /\ o = <<o[1], o[2]>>
  BY <1>2, OfferFacts, IdsNamed
<1>4. ~Ticker(c) /\ v < next BY <1>0, <1>2, <1>3, BusyCalls
<1>5. told[v] = "nothing" /\ \A d \in Chans : v \notin Range(accepted[d])
  BY <1>0, <1>2, <1>3 DEF CaseInv
<1>6. /\ offer \in [CaseIds -> OfferStates] /\ mark \in [Tasks -> BOOLEAN]
      /\ accepted \in [Chans -> Seq(Values)] /\ got \in [Chans -> Seq(Values)]
  BY <1>0 DEF ChanTypes, CallTypes
<1>7. /\ offer'[o] = "taken" /\ \A a \in CaseIds : a # o => offer'[a] = offer[a]
      /\ mark'[o[1]] /\ \A u \in Tasks : u # o[1] => mark'[u] = mark[u]
  BY <1>2, <1>3, <1>6
<1>8. /\ accepted' \in [Chans -> Seq(Values)] /\ got' \in [Chans -> Seq(Values)]
      /\ \A d \in Chans : \A w : w \in Range(accepted'[d]) <=> w \in Range(accepted[d]) \/ (d = c /\ w = v)
  <2>1. /\ Append(accepted[c], v) \in Seq(Values) /\ Range(Append(accepted[c], v)) = Range(accepted[c]) \cup {v}
        /\ Append(got[c], v) \in Seq(Values)
    BY <1>3, <1>6, AppendRange
  <2>2. accepted'[c] = Append(accepted[c], v) /\ \A d \in Chans : d # c => accepted'[d] = accepted[d] BY <1>2, <1>6
  <2>3. accepted' \in [Chans -> Seq(Values)] /\ got' \in [Chans -> Seq(Values)] BY <1>2, <1>6, <2>1
  <2> QED BY <2>1, <2>2, <2>3
<1>9. next' \in 1..(MaxValues + 1) /\ next <= next' /\ next' = next /\ next \in Nat
  BY <1>0, <1>2, MaxValuesAssumption DEF ChanTypes
<1>10. Busy' = Busy /\ CallTypes' /\ QueueTypes'
  <2>1. offer' \in [CaseIds -> OfferStates] /\ mark' \in [Tasks -> BOOLEAN] /\ slot' \in [CaseIds -> Values \cup {None}]
    BY <1>0, <1>2, <1>6 DEF CallTypes, OfferStates
  <2>2. woken' \subseteq Busy /\ cancelled' \subseteq Busy /\ due' \subseteq Busy BY <1>0, <1>2, <1>3 DEF QueueTypes
  <2>3. ASSUME NEW d \in Chans, NEW x \in Range(offers'[d]) PROVE x \in Range(offers[d]) /\ offer'[x] = offer[x]
    <3>1. x \in Range(offers[d]) /\ x # o BY <1>2, <2>3
    <3> QED BY <1>7, <3>1, OfferFacts
  <2> QED BY <1>2, <1>9, <2>1, <2>2, <2>3, FrameTypes
<1>11. TypeOK'
  <2>1. ChanTypes' BY <1>0, <1>2, <1>8, <1>9 DEF ChanTypes, Rendezvous, Room
  <2>2. (TypeOK <=> ChanTypes /\ CallTypes /\ QueueTypes)' BY TypeParts, PTL
  <2> QED BY <1>10, <2>1, <2>2
<1>12. IdleInv' /\ OfferInv' /\ SlotInv' /\ WakerInv' /\ OwnInv'
  <2>1. \A a \in CaseIds : a[1] \in Tasks /\ (offer[a] = "taken" => mark[a[1]]) BY IdsNamed DEF IInv, OfferInv
  <2>2. \A u \in Tasks : mark'[u] => mark[u] \/ call[u] # None BY <1>3, <1>7 DEF Busy
  <2>3. \A a \in CaseIds : offer'[a] # "none" => offer[a] # "none" BY <1>3, <1>7
  <2>4. \A a \in CaseIds : offer'[a] = "taken" => mark'[a[1]] /\ (offer[a] = "taken" \/ ~mark[a[1]])
    BY <1>2, <1>7, <2>1
  <2>5. \A x, y \in CaseIds :
          offer'[x] = "taken" /\ offer[x] # "taken" /\ offer'[y] = "taken" /\ offer[y] # "taken" => x = y
    BY <1>7
  <2>6. \A a \in CaseIds : slot'[a] # None => slot[a] # None \/ \E d \in Chans : a \in Range(waiters[d])
    BY <1>2
  <2>7. \A d \in Chans : recvWakers'[d] \subseteq recvWakers[d] /\ sendWakers'[d] \subseteq sendWakers[d]
    BY <1>2
  <2> QED BY <1>2, <2>2, <2>3, <2>4, <2>5, <2>6, <2>7, FrameState
<1>13. CaseInv'
  <2>0. v = call[o[1]].vals[o[2]] /\ told' = told BY <1>2
  <2>1. ASSUME NEW t \in Busy, NEW i \in Sends(call[t])
        PROVE  /\ told'[call[t].vals[i]] = "nothing"
               /\ \A d \in Chans : call[t].vals[i] \in Range(accepted'[d]) <=>
                                     offer'[<<t, i>>] = "taken" /\ d = call[t].cases[i].ch
    <3>1. /\ told[call[t].vals[i]] = "nothing"
          /\ \A d \in Chans : call[t].vals[i] \in Range(accepted[d]) <=>
                                offer[<<t, i>>] = "taken" /\ d = call[t].cases[i].ch
      BY <1>0 DEF CaseInv
    <3>2. CASE t = o[1] /\ i = o[2]
      <4>1. <<t, i>> = o /\ call[t].vals[i] = v /\ call[t].cases[i].ch = c BY <1>3, <2>0, <3>2
      <4>2. told'[v] = "nothing" /\ offer'[o] = "taken" BY <1>5, <1>7, <2>0
      <4>3. \A d \in Chans : v \in Range(accepted'[d]) <=> d = c BY <1>5, <1>8
      <4> QED BY <4>1, <4>2, <4>3
    <3>3. CASE ~(t = o[1] /\ i = o[2])
      <4>1. call[t].vals[i] # v
        <5>1. OwnInv /\ o[1] \in Busy /\ o[2] \in Sends(call[o[1]]) BY <1>0, <1>3
        <5>2. call[t].vals[i] = call[o[1]].vals[o[2]] => t = o[1] /\ i = o[2] BY <5>1 DEF OwnInv
        <5> QED BY <2>0, <3>3, <5>2
      <4>2. t \in Tasks /\ i \in CasesOf(call[t]) /\ Shape(call[t]) BY <1>0, BusyCalls DEF Sends
      <4>3. <<t, i>> \in CaseIds BY <4>2, CaseNamed
      <4>4. <<t, i>> # o BY <1>3, <3>3
      <4>5. offer'[<<t, i>>] = offer[<<t, i>>] BY <1>7, <4>3, <4>4
      <4>6. \A d \in Chans : call[t].vals[i] \in Range(accepted'[d]) <=> call[t].vals[i] \in Range(accepted[d])
        BY <1>8, <4>1
      <4> QED BY <2>0, <3>1, <4>5, <4>6
    <3> QED BY <3>2, <3>3
  <2> QED BY <1>2, <1>10, <2>1 DEF CaseInv, Sends, CasesOf
<1>14. FreshInv'
  <2>1. ASSUME NEW w \in Values, w >= next PROVE told'[w] = "nothing" /\ \A d \in Chans : w \notin Range(accepted'[d])
    <3>1. w \in Nat /\ v \in Nat BY <1>3, MaxValuesAssumption DEF Values
    <3>2. w # v BY <1>4, <1>9, <2>1, <3>1
    <3> QED BY <1>0, <1>2, <1>8, <2>1, <3>2 DEF FreshInv
  <2> QED BY <1>9, <2>1 DEF FreshInv
<1>15. TickInv'
  <2>1. \A d \in Chans : Ticker(d) => \A w \in Range(accepted'[d]) : told'[w] = "nothing"
    BY <1>0, <1>2, <1>4, <1>8 DEF TickInv
  <2> QED BY <1>2, <2>1 DEF TickInv, Ticker
<1>16. ReportsAgree'
  <2>1. ASSUME NEW w \in Values
        PROVE  /\ told'[w] = "failed" => \A d \in Chans : w \notin Range(accepted'[d])
               /\ told'[w] = "sent" => \E d \in Chans : w \in Range(accepted'[d])
    <3>1. /\ told[w] = "failed" => \A d \in Chans : w \notin Range(accepted[d])
          /\ told[w] = "sent" => \E d \in Chans : w \in Range(accepted[d])
      BY <1>0 DEF ReportsAgree
    <3>2. told'[w] = told[w] /\ (told[w] = "failed" => w # v) BY <1>2, <1>5
    <3> QED BY <1>8, <3>1, <3>2
  <2> QED BY <2>1 DEF ReportsAgree
<1>17. RegisteredInv' /\ NoSleepBesideReady'
  <2>1. ASSUME NEW u \in Busy' \ woken' PROVE u \in Busy \ woken /\ Undisturbed(u)
    <3>1. u \in Busy /\ u \notin woken /\ u # o[1] /\ u \in Tasks BY <1>2, <1>10, <2>1 DEF Busy
    <3>2. u \notin cancelled BY <3>1 DEF IInv, NoSleepBesideReady
    <3>3. \A a \in CaseIds : a[1] = u => offer'[a] = offer[a] BY <1>7, <3>1
    <3>4. \A d \in Chans : ~(Len(buf'[d]) < Len(buf[d]))
      <4>1. \A d \in Chans : Len(buf[d]) \in Nat BY <1>0, LenProperties DEF ChanTypes
      <4> QED BY <1>2, <4>1
    <3>5. ASSUME NEW d \in Chans, NEW x \in Range(offers'[d]), ~mark'[x[1]]
          PROVE  x \in Range(offers[d]) /\ ~mark[x[1]]
      <4>1. x \in Range(offers[d]) BY <1>2, <3>5
      <4>2. x \in CaseIds /\ x[1] \in Tasks BY <4>1, OfferFacts, IdsNamed
      <4> QED BY <1>7, <3>5, <4>1, <4>2
    <3>6. UNCHANGED <<made, buf, closed, recvWakers, sendWakers, waiters, slot, call, due, cancelled>> BY <1>2
    <3> QED BY <3>1, <3>2, <3>3, <3>4, <3>5, <3>6 DEF Undisturbed
  <2> QED BY <1>11, <2>1, SleepKept
<1> QED BY <1>11, <1>12, <1>13, <1>14, <1>15, <1>16, <1>17 DEF IInv

\* A tick replaces the one that nobody read.
LEMMA TickEffect ==
  ASSUME IInv, NEW c \in Chans, Tick(c)
  PROVE  /\ Ticker(c) /\ ~Rendezvous(c) /\ next \in Values /\ next' = next + 1
         /\ buf' \in [Chans -> Seq(Values)] /\ accepted' \in [Chans -> Seq(Values)]
         /\ Len(buf[c]) <= 1 /\ Len(buf'[c]) = 1 /\ Room(c) = 1
         /\ \A d \in Chans : d # c => buf'[d] = buf[d] /\ accepted'[d] = accepted[d]
         /\ \A w \in Range(accepted'[c]) : w \in Range(accepted[c]) \/ w = next
         /\ woken' = (woken \cup Receivers(c)) \cap Busy /\ recvWakers' = [recvWakers EXCEPT ![c] = {}]
         /\ UNCHANGED <<made, closed, sendWakers, offers, waiters, slot, offer, call, mark, due, cancelled, told, got>>
<1> DEFINE old == IF Len(buf[c]) >= Room(c) THEN {Last(buf[c])} ELSE {}
           others == Values \ old
<1>0. TypeOK /\ ChanTypes BY TypeParts DEF IInv
<1>1. /\ Ticker(c) /\ next <= MaxValues /\ next' = next + 1
      /\ buf' = [buf EXCEPT ![c] = Append(Keep(buf[c], others), next)]
      /\ accepted' = [accepted EXCEPT ![c] = Append(Keep(accepted[c], others), next)]
      /\ woken' = (woken \cup Receivers(c)) \cap Busy /\ recvWakers' = [recvWakers EXCEPT ![c] = {}]
      /\ UNCHANGED <<made, closed, sendWakers, offers, waiters, slot, offer, call, mark, due, cancelled, told, got>>
  BY DEF Tick
<1>2. Room(c) = 1 /\ ~Rendezvous(c) BY <1>0, <1>1, ChanFacts DEF Rendezvous
<1>3. next \in Values BY <1>0, <1>1, MaxValuesAssumption DEF ChanTypes, Values
<1>4. buf \in [Chans -> Seq(Values)] /\ accepted \in [Chans -> Seq(Values)] BY <1>0 DEF ChanTypes
<1>5. Len(buf[c]) \in Nat /\ Len(buf[c]) <= 1
  <2>1. Len(buf[c]) <= Room(c) BY <1>0, <1>2 DEF ChanTypes
  <2> QED BY <1>2, <1>4, <2>1, LenProperties
<1>6. Range(buf[c]) \cap others = {}
  <2>1. Range(buf[c]) = {buf[c][i] : i \in 1..Len(buf[c])} BY <1>4, RangeEquality
  <2>2. CASE Len(buf[c]) = 0
    <3>1. 1..Len(buf[c]) = {} BY <2>2
    <3> QED BY <2>1, <3>1
  <2>3. CASE Len(buf[c]) = 1
    <3>1. 1..Len(buf[c]) = {1} BY <2>3
    <3>2. old = {buf[c][1]} BY <1>2, <2>3 DEF Last
    <3> QED BY <2>1, <3>1, <3>2
  <2> QED BY <1>5, <2>2, <2>3
<1> HIDE DEF others, old
<1>7. /\ Keep(buf[c], others) \in Seq(Values) /\ Range(Keep(buf[c], others)) = {}
      /\ Keep(accepted[c], others) \in Seq(Values) /\ Range(Keep(accepted[c], others)) \subseteq Range(accepted[c])
  <2>1. /\ Keep(buf[c], others) \in Seq(Values) /\ Range(Keep(buf[c], others)) = Range(buf[c]) \cap others
        /\ Keep(accepted[c], others) \in Seq(Values)
        /\ Range(Keep(accepted[c], others)) = Range(accepted[c]) \cap others
    BY <1>4, KeepFacts
  <2> QED BY <1>6, <2>1
<1>8. Keep(buf[c], others) = <<>> BY <1>7, EmptyRange
<1>9. Append(Keep(buf[c], others), next) \in Seq(Values) /\ Len(Append(Keep(buf[c], others), next)) = 1
  <2>1. /\ Append(Keep(buf[c], others), next) \in Seq(Values)
        /\ Len(Append(Keep(buf[c], others), next)) = Len(Keep(buf[c], others)) + 1
    BY <1>3, <1>7, AppendProperties
  <2>2. Len(Keep(buf[c], others)) = 0 BY <1>8
  <2> QED BY <2>1, <2>2
<1>10. /\ Append(Keep(accepted[c], others), next) \in Seq(Values)
       /\ Range(Append(Keep(accepted[c], others), next)) = Range(Keep(accepted[c], others)) \cup {next}
  BY <1>3, <1>7, AppendRange
<1>11. /\ buf' \in [Chans -> Seq(Values)] /\ accepted' \in [Chans -> Seq(Values)]
       /\ buf'[c] = Append(Keep(buf[c], others), next) /\ accepted'[c] = Append(Keep(accepted[c], others), next)
       /\ \A d \in Chans : d # c => buf'[d] = buf[d] /\ accepted'[d] = accepted[d]
  BY <1>1, <1>4, <1>9, <1>10
<1>12. \A w \in Range(accepted'[c]) : w \in Range(accepted[c]) \/ w = next BY <1>7, <1>10, <1>11
<1> QED BY <1>1, <1>2, <1>3, <1>5, <1>9, <1>11, <1>12

LEMMA TickKeeps ==
  ASSUME IInv, NEW c \in Chans, Tick(c)
  PROVE  IInv'
<1>0. /\ TypeOK /\ ChanTypes /\ CallTypes /\ QueueTypes
      /\ CaseInv /\ FreshInv /\ TickInv /\ ReportsAgree
  BY TypeParts DEF IInv
<1>1. /\ Ticker(c) /\ ~Rendezvous(c) /\ next \in Values /\ next' = next + 1
      /\ buf' \in [Chans -> Seq(Values)] /\ accepted' \in [Chans -> Seq(Values)]
      /\ Len(buf[c]) <= 1 /\ Len(buf'[c]) = 1 /\ Room(c) = 1
      /\ \A d \in Chans : d # c => buf'[d] = buf[d] /\ accepted'[d] = accepted[d]
      /\ \A w \in Range(accepted'[c]) : w \in Range(accepted[c]) \/ w = next
      /\ woken' = (woken \cup Receivers(c)) \cap Busy /\ recvWakers' = [recvWakers EXCEPT ![c] = {}]
      /\ UNCHANGED <<made, closed, sendWakers, offers, waiters, slot, offer, call, mark, due, cancelled, told, got>>
  BY TickEffect
<1>2. next \in Nat /\ next' \in 1..(MaxValues + 1) /\ next <= next'
  BY <1>1, MaxValuesAssumption DEF Values
<1>3. told[next] = "nothing" /\ \A d \in Chans : next \notin Range(accepted[d])
  <2>1. next >= next BY <1>2
  <2> QED BY <1>0, <1>1, <2>1 DEF FreshInv
<1>4. \A d \in Chans : Len(buf[d]) \in Nat
  <2>1. \A d \in Chans : buf[d] \in Seq(Values) BY <1>0 DEF ChanTypes
  <2> QED BY <2>1, LenProperties
<1>5. /\ recvWakers' \in [Chans -> SUBSET Tasks] /\ recvWakers'[c] = {}
      /\ \A d \in Chans : d # c => recvWakers'[d] = recvWakers[d]
  <2>1. recvWakers \in [Chans -> SUBSET Tasks] BY <1>0 DEF ChanTypes
  <2> QED BY <1>1, <2>1
<1>6. Busy' = Busy /\ CallTypes' /\ QueueTypes'
  <2>1. /\ offers' \in [Chans -> Seq(CaseIds)] /\ offer' \in [CaseIds -> OfferStates] /\ mark' \in [Tasks -> BOOLEAN]
        /\ slot' \in [CaseIds -> Values \cup {None}]
    BY <1>0, <1>1 DEF CallTypes
  <2>2. woken' \subseteq Busy /\ cancelled' \subseteq Busy /\ due' \subseteq Busy BY <1>0, <1>1 DEF QueueTypes
  <2>3. \A d \in Chans : \A o \in Range(offers'[d]) : o \in Range(offers[d]) /\ offer'[o] = offer[o] BY <1>1
  <2> QED BY <1>1, <1>2, <2>1, <2>2, <2>3, FrameTypes
<1>7. TypeOK'
  <2>1. ASSUME NEW d \in Chans, ~Rendezvous(d) PROVE Len(buf'[d]) <= Room(d)
    <3>1. CASE d = c
      <4>1. Len(buf'[d]) = 1 /\ Room(d) = 1 BY <1>1, <3>1
      <4> QED BY <4>1
    <3>2. CASE d # c BY <1>0, <1>1, <2>1, <3>2 DEF ChanTypes
    <3> QED BY <3>1, <3>2
  <2>2. \A d \in Chans : ~Rendezvous(d)' => Len(buf'[d]) <= Room(d)' BY <1>1, <2>1 DEF Rendezvous, Room
  <2>3. ChanTypes' BY <1>0, <1>1, <1>2, <1>5, <2>2 DEF ChanTypes
  <2>4. (TypeOK <=> ChanTypes /\ CallTypes /\ QueueTypes)' BY TypeParts, PTL
  <2> QED BY <1>6, <2>3, <2>4
<1>8. IdleInv' /\ OfferInv' /\ SlotInv' /\ WakerInv' /\ OwnInv'
  <2>1. \A a \in CaseIds : offer[a] = "taken" => mark[a[1]] BY DEF IInv, OfferInv
  <2>2. \A u \in Tasks : mark'[u] => mark[u] \/ call[u] # None BY <1>1
  <2>3. \A a \in CaseIds : offer'[a] # "none" => offer[a] # "none" BY <1>1
  <2>4. \A a \in CaseIds : offer'[a] = "taken" => mark'[a[1]] /\ (offer[a] = "taken" \/ ~mark[a[1]])
    BY <1>1, <2>1
  <2>5. \A x, y \in CaseIds :
          offer'[x] = "taken" /\ offer[x] # "taken" /\ offer'[y] = "taken" /\ offer[y] # "taken" => x = y
    BY <1>1
  <2>6. \A a \in CaseIds : slot'[a] # None => slot[a] # None \/ \E d \in Chans : a \in Range(waiters[d])
    BY <1>1
  <2>7. \A d \in Chans : recvWakers'[d] \subseteq recvWakers[d] /\ sendWakers'[d] \subseteq sendWakers[d]
    BY <1>1, <1>5
  <2> QED BY <1>1, <2>2, <2>3, <2>4, <2>5, <2>6, <2>7, FrameState
<1>9. CaseInv'
  <2>0. told' = told /\ offer' = offer /\ call' = call BY <1>1
  <2>1. ASSUME NEW t \in Busy, NEW i \in Sends(call[t])
        PROVE  /\ told[call[t].vals[i]] = "nothing"
               /\ \A d \in Chans : call[t].vals[i] \in Range(accepted'[d]) <=>
                                     offer[<<t, i>>] = "taken" /\ d = call[t].cases[i].ch
    <3>1. /\ call[t].vals[i] \in Values /\ call[t].vals[i] < next /\ ~Ticker(call[t].cases[i].ch)
      BY <1>0, BusyCalls
    <3>2. call[t].vals[i] # next BY <1>2, <3>1
    <3>3. /\ told[call[t].vals[i]] = "nothing"
          /\ \A d \in Chans : call[t].vals[i] \in Range(accepted[d]) <=>
                                offer[<<t, i>>] = "taken" /\ d = call[t].cases[i].ch
      BY <1>0 DEF CaseInv
    <3>4. c # call[t].cases[i].ch BY <1>1, <3>1
    <3>5. call[t].vals[i] \notin Range(accepted[c]) BY <3>3, <3>4
    <3>6. call[t].vals[i] \notin Range(accepted'[c]) BY <1>1, <3>2, <3>5
    <3>7. \A d \in Chans : call[t].vals[i] \in Range(accepted'[d]) <=> call[t].vals[i] \in Range(accepted[d])
      BY <1>1, <3>5, <3>6
    <3> QED BY <3>3, <3>7
  <2> QED BY <1>6, <2>0, <2>1 DEF CaseInv, Sends, CasesOf
<1>10. FreshInv'
  <2>1. ASSUME NEW w \in Values, w >= next + 1 PROVE told[w] = "nothing" /\ \A d \in Chans : w \notin Range(accepted'[d])
    <3>1. w \in Nat BY MaxValuesAssumption DEF Values
    <3>2. w # next /\ w >= next BY <1>2, <2>1, <3>1
    <3>3. told[w] = "nothing" /\ \A d \in Chans : w \notin Range(accepted[d]) BY <1>0, <3>2 DEF FreshInv
    <3> QED BY <1>1, <3>2, <3>3
  <2> QED BY <1>1, <2>1 DEF FreshInv
<1>11. TickInv'
  <2>1. ASSUME NEW d \in Chans, Ticker(d), NEW w \in Range(accepted'[d]) PROVE told[w] = "nothing"
    <3>1. w \in Range(accepted[d]) => told[w] = "nothing" BY <1>0, <2>1 DEF TickInv
    <3>2. w \in Range(accepted[d]) \/ w = next BY <1>1, <2>1
    <3> QED BY <1>3, <3>1, <3>2
  <2> QED BY <1>1, <2>1 DEF TickInv, Ticker
<1>12. ReportsAgree'
  <2>1. ASSUME NEW w \in Values
        PROVE  /\ told[w] = "failed" => \A d \in Chans : w \notin Range(accepted'[d])
               /\ told[w] = "sent" => \E d \in Chans : w \in Range(accepted'[d])
    <3>1. /\ told[w] = "failed" => \A d \in Chans : w \notin Range(accepted[d])
          /\ told[w] = "sent" => \E d \in Chans : w \in Range(accepted[d])
      BY <1>0 DEF ReportsAgree
    <3>2. told[w] = "failed" => w # next BY <1>3
    <3>3. told[w] = "sent" => w \notin Range(accepted[c]) BY <1>0, <1>1 DEF TickInv
    <3>4. told[w] = "failed" => \A d \in Chans : w \notin Range(accepted'[d])
      <4> SUFFICES ASSUME told[w] = "failed", NEW d \in Chans PROVE w \notin Range(accepted'[d])
        OBVIOUS
      <4>1. w \notin Range(accepted[d]) /\ w # next BY <3>1, <3>2
      <4> QED BY <1>1, <4>1
    <3>5. told[w] = "sent" => \E d \in Chans : w \in Range(accepted'[d])
      <4> SUFFICES ASSUME told[w] = "sent" PROVE \E d \in Chans : w \in Range(accepted'[d])
        OBVIOUS
      <4>1. PICK d \in Chans : w \in Range(accepted[d]) BY <3>1
      <4>2. d # c BY <3>3, <4>1
      <4>3. accepted'[d] = accepted[d] BY <1>1, <4>2
      <4> QED BY <4>1, <4>3
    <3> QED BY <3>4, <3>5
  <2>2. told' = told BY <1>1
  <2> QED BY <2>1, <2>2 DEF ReportsAgree
<1>13. RegisteredInv' /\ NoSleepBesideReady'
  <2>1. ASSUME NEW u \in Busy' \ woken' PROVE u \in Busy \ woken /\ Undisturbed(u)
    <3>1. u \in Busy /\ u \notin woken /\ u \notin recvWakers[c] BY <1>1, <1>6, <2>1 DEF Receivers
    <3>2. u \notin cancelled BY <3>1 DEF IInv, NoSleepBesideReady
    <3>3. \A d \in Chans : u \in recvWakers[d] => u \in recvWakers'[d] /\ buf'[d] = buf[d]
      BY <1>1, <1>5, <3>1
    <3>4. \A w \in Range(waiters[c]) : FALSE BY <1>1, WaiterFacts
    <3>5. \A d \in Chans : \A w \in Range(waiters[d]) : buf'[d] = buf[d] BY <1>1, <3>4
    <3>6. ASSUME NEW d \in Chans PROVE ~(Len(buf'[d]) < Len(buf[d]))
      <4>1. CASE d = c
        <5>1. Len(buf'[d]) = 1 /\ Len(buf[d]) \in Nat /\ Len(buf[d]) <= 1 BY <1>1, <1>4, <4>1
        <5> QED BY <5>1
      <4>2. CASE d # c
        <5>1. Len(buf'[d]) = Len(buf[d]) /\ Len(buf[d]) \in Nat BY <1>1, <1>4, <4>2
        <5> QED BY <5>1
      <4> QED BY <4>1, <4>2
    <3>7. UNCHANGED <<made, closed, sendWakers, offers, waiters, slot, offer, call, mark, due, cancelled>>
      BY <1>1
    <3> QED BY <3>1, <3>2, <3>3, <3>5, <3>6, <3>7 DEF Undisturbed
  <2> QED BY <1>7, <2>1, SleepKept
<1> QED BY <1>7, <1>8, <1>9, <1>10, <1>11, <1>12, <1>13 DEF IInv

(***************************************************************************)
(* The theorems.                                                           *)
(***************************************************************************)
LEMMA InitInvariant ==
  ASSUME Init
  PROVE  IInv
<1>1. /\ made \in Makes /\ call = [t \in Tasks |-> None] /\ mark = [t \in Tasks |-> FALSE]
      /\ buf = [c \in Chans |-> <<>>] /\ accepted = [c \in Chans |-> <<>>] /\ got = [c \in Chans |-> <<>>]
      /\ offers = [c \in Chans |-> <<>>] /\ waiters = [c \in Chans |-> <<>>]
      /\ closed = [c \in Chans |-> FALSE]
      /\ recvWakers = [c \in Chans |-> {}] /\ sendWakers = [c \in Chans |-> {}]
      /\ slot = [a \in CaseIds |-> None] /\ offer = [a \in CaseIds |-> "none"]
      /\ due = {} /\ woken = {} /\ cancelled = {}
      /\ next = 1 /\ told = [v \in Values |-> "nothing"]
  BY DEF Init
<1>2. Busy = {} BY <1>1 DEF Busy
<1>3. \A c \in Chans : Range(offers[c]) = {} /\ Range(waiters[c]) = {} /\ Range(accepted[c]) = {}
  BY <1>1 DEF Range
<1>4. \A a \in CaseIds : a[1] \in Tasks BY IdsNamed
<1>5. TypeOK
  <2>1. ChanTypes
    <3>1. <<>> \in Seq(Values) OBVIOUS
    <3>2. next \in 1..(MaxValues + 1) BY <1>1, MaxValuesAssumption
    <3>3. \A c \in Chans : ~Rendezvous(c) => Len(buf[c]) <= Room(c)
      <4> SUFFICES ASSUME NEW c \in Chans PROVE Len(buf[c]) <= Room(c)
        OBVIOUS
      <4>1. made \in [Chans -> [cap : Nat, ticker : BOOLEAN]] BY <1>1, MakesAssumption
      <4>2. Room(c) \in Nat BY <4>1 DEF Room
      <4>3. Len(buf[c]) = 0 BY <1>1
      <4> QED BY <4>2, <4>3
    <3> QED BY <1>1, <3>1, <3>2, <3>3 DEF ChanTypes
  <2>2. CallTypes
    <3>1. <<>> \in Seq(CaseIds) OBVIOUS
    <3> QED BY <1>1, <1>2, <1>3, <3>1 DEF CallTypes, OfferStates
  <2>3. QueueTypes BY <1>1 DEF QueueTypes
  <2> QED BY <2>1, <2>2, <2>3, TypeParts
<1>6. IdleInv /\ OfferInv /\ SlotInv BY <1>1 DEF IdleInv, OfferInv, SlotInv
<1>7. WakerInv BY <1>1, <1>3 DEF WakerInv
<1>8. OwnInv /\ CaseInv BY <1>2 DEF OwnInv, CaseInv
<1>9. FreshInv /\ TickInv /\ ReportsAgree BY <1>1, <1>3 DEF FreshInv, TickInv, ReportsAgree
<1>10. RegisteredInv /\ NoSleepBesideReady BY <1>2 DEF RegisteredInv, NoSleepBesideReady
<1> QED BY <1>5, <1>6, <1>7, <1>8, <1>9, <1>10 DEF IInv

LEMMA NextInvariant ==
  ASSUME IInv, [Next]_vars
  PROVE  IInv'
<1>1. TypeOK BY DEF IInv
<1>2. ASSUME NEW t \in Tasks, NEW k, Moves(t, k) PROVE IInv'
  <2>1. ASSUME NEW i, NEW polled, NEW raised, Chooses(t, k, i, polled, raised) PROVE IInv'
    BY <1>2, <2>1, ChoosesKeeps DEF Moves
  <2>2. ASSUME NEW what, Ends(t, k, what) PROVE IInv'
    BY <1>2, <2>2, EndsKeeps DEF Moves
  <2>3. ASSUME Sleeps(t, k), t \notin cancelled PROVE IInv'
    BY <1>2, <2>3, SleepsKeeps DEF Moves
  <2> QED BY <1>2, <2>1, <2>2, <2>3 DEF Moves
<1>3. ASSUME NEW t \in Tasks, Expire(t) \/ Cancel(t) PROVE IInv'
  BY <1>3, AlarmKeeps
<1>4. ASSUME NEW c \in Chans, TrySend(c) PROVE IInv'
  BY <1>4, TrySendKeeps
<1>5. ASSUME NEW c \in Chans, TryRecv(c) PROVE IInv'
  BY <1>5, TailKeeps, TakeKeeps
<1>6. ASSUME NEW c \in Chans, Close(c) PROVE IInv'
  BY <1>6, CloseKeeps
<1>7. ASSUME NEW c \in Chans, Tick(c) PROVE IInv'
  BY <1>7, TickKeeps
<1>8. ASSUME UNCHANGED vars PROVE IInv'
  BY <1>8, StutterKeeps
<1> QED BY <1>1, <1>2, <1>3, <1>4, <1>5, <1>6, <1>7, <1>8, NextCases

LEMMA Invariant == Spec => []IInv
<1>1. Init => IInv BY InitInvariant
<1>2. IInv /\ [Next]_vars => IInv' BY NextInvariant
<1> QED BY <1>1, <1>2, PTL DEF Spec

\* Every call in progress is one that its task may wait in, no buffer holds more than its
\* capacity, and the offers and waiters of a channel are of calls in progress that name it
\* (chan.rs ChanCore, select.rs read_cases).
THEOREM TypeCorrect == Spec => []TypeOK
<1>1. IInv => TypeOK BY DEF IInv
<1> QED BY <1>1, Invariant, PTL

\* At most one of the offers that a select posted is ever taken, whoever takes it: a receive
\* that takes an offer claims the mark of its select, and passes over the offers of a claimed
\* one (chan.rs take_offer, SelectMark).
THEOREM OneOfferTakenAlways == Spec => []OneOfferTaken
<1>1. ASSUME IInv PROVE OneOfferTaken
  <2> SUFFICES ASSUME NEW t \in Tasks PROVE Cardinality({i \in 1..MaxCases : offer[<<t, i>>] = "taken"}) <= 1
    BY DEF OneOfferTaken
  <2> DEFINE T == {i \in 1..MaxCases : offer[<<t, i>>] = "taken"}
  <2>1. ASSUME NEW i \in T, NEW j \in T PROVE i = j
    <3>1. <<t, i>> \in CaseIds /\ <<t, j>> \in CaseIds /\ <<t, i>>[1] = <<t, j>>[1] BY DEF CaseIds
    <3>2. <<t, i>> = <<t, j>> BY <1>1, <3>1 DEF IInv, OfferInv
    <3> QED BY <3>2
  <2> HIDE DEF T
  <2>2. CASE T = {}
    <3>1. Cardinality(T) = 0 BY <2>2, FS_EmptySet
    <3> QED BY <3>1 DEF T
  <2>3. CASE T # {}
    <3>1. PICK i \in T : TRUE BY <2>3
    <3>2. T = {i} BY <2>1, <3>1
    <3>3. Cardinality(T) = 1 BY <3>2, FS_Singleton
    <3> QED BY <3>3 DEF T
  <2> QED BY <2>2, <2>3
<1> QED BY <1>1, Invariant, PTL

\* A sender that is told its value was not sent (closed, cancelled, another case chosen) can
\* rely on it: nobody receives the value; and one that is told it was sent did send it
\* (select.rs wait_send, take_delivered, chan.rs try_send).
THEOREM ReportsAgreeAlways == Spec => []ReportsAgree
<1>1. IInv => ReportsAgree BY DEF IInv
<1> QED BY <1>1, Invariant, PTL

\* No wake-up is lost: a task that is not going to be polled has no case that is ready, no
\* delivered send to report and no cancel to see (chan.rs receiver_wakers, register, the
\* wakers that take_offer, close and run_ticker hand back; select.rs SelectFuture::poll).
THEOREM NoSleepBesideReadyAlways == Spec => []NoSleepBesideReady
<1>1. IInv => NoSleepBesideReady BY DEF IInv
<1> QED BY <1>1, Invariant, PTL

(***************************************************************************)
(* The order of the values.  InOrder speaks of sequences: how often a      *)
(* value is in one, and what is left of one without a value.               *)
(***************************************************************************)
Once(seq) == \A i, j \in DOMAIN seq : seq[i] = seq[j] => i = j
If(p) == IF p THEN 1 ELSE 0

\* Two disjoint finite sets, counted.
LEMMA CountUnion ==
  ASSUME NEW A, NEW B, IsFiniteSet(A), IsFiniteSet(B), A \cap B = {}
  PROVE  /\ IsFiniteSet(A \cup B) /\ Cardinality(A \cup B) = Cardinality(A) + Cardinality(B)
         /\ Cardinality(A) \in Nat /\ Cardinality(B) \in Nat
<1>1. Cardinality(A) \in Nat /\ Cardinality(B) \in Nat BY FS_CardinalityType
<1>2. Cardinality(A \cap B) = 0 BY FS_EmptySet
<1>3. IsFiniteSet(A \cup B) /\ Cardinality(A \cup B) = Cardinality(A) + Cardinality(B) - Cardinality(A \cap B)
  BY FS_Union
<1> QED BY <1>1, <1>2, <1>3

\* A set and its image under a map that has an inverse.
LEMMA CountImage ==
  ASSUME NEW A, IsFiniteSet(A), NEW B, NEW f \in [A -> B],
         \A x, y \in A : f[x] = f[y] => x = y, \A b \in B : \E x \in A : f[x] = b
  PROVE  IsFiniteSet(B) /\ Cardinality(B) = Cardinality(A)
<1>1. f \in Injection(A, B) BY DEF Injection, IsInjective
<1>a. f \in Surjection(A, B) BY DEF Surjection
<1>2. ExistsBijection(A, B) BY <1>1, <1>a DEF ExistsBijection, Bijection
<1> QED BY <1>2, FS_Bijection

Places(v, seq) == {j \in DOMAIN seq : seq[j] = v}

LEMMA PlacesFacts ==
  ASSUME NEW T, NEW seq \in Seq(T), NEW v
  PROVE  /\ IsFiniteSet(Places(v, seq)) /\ Count(v, seq) = Cardinality(Places(v, seq)) /\ Count(v, seq) \in Nat
         /\ Places(v, seq) \subseteq 1..Len(seq) /\ DOMAIN seq = 1..Len(seq) /\ Len(seq) \in Nat
<1>1. DOMAIN seq = 1..Len(seq) /\ Len(seq) \in Nat BY LenProperties
<1>2. Places(v, seq) \subseteq 1..Len(seq) BY <1>1 DEF Places
<1>3. IsFiniteSet(1..Len(seq)) BY <1>1, FS_Interval
<1>4. IsFiniteSet(Places(v, seq)) BY <1>2, <1>3, FS_Subset
<1>5. Count(v, seq) = Cardinality(Places(v, seq)) BY DEF Count, Places
<1> QED BY <1>1, <1>2, <1>4, <1>5, FS_CardinalityType

LEMMA CountEmpty ==
  ASSUME NEW v
  PROVE  Count(v, <<>>) = 0
<1>1. {j \in DOMAIN <<>> : <<>>[j] = v} = {} OBVIOUS
<1> QED BY <1>1, FS_EmptySet DEF Count

LEMMA CountOne ==
  ASSUME NEW v, NEW x
  PROVE  Count(v, <<x>>) = If(x = v)
<1> DEFINE P == {j \in DOMAIN <<x>> : <<x>>[j] = v}
<1>1. P = IF x = v THEN {1} ELSE {} OBVIOUS
<1>2. Count(v, <<x>>) = Cardinality(P) BY DEF Count
<1> HIDE DEF P
<1>3. CASE x = v
  <2>1. Cardinality(P) = 1 BY <1>1, <1>3, FS_Singleton
  <2> QED BY <1>2, <1>3, <2>1 DEF If
<1>4. CASE x # v
  <2>1. Cardinality(P) = 0 BY <1>1, <1>4, FS_EmptySet
  <2> QED BY <1>2, <1>4, <2>1 DEF If
<1> QED BY <1>3, <1>4

LEMMA CountConcat ==
  ASSUME NEW T, NEW s \in Seq(T), NEW u \in Seq(T), NEW v
  PROVE  Count(v, s \o u) = Count(v, s) + Count(v, u) /\ Count(v, s) \in Nat /\ Count(v, u) \in Nat
<1> DEFINE n == Len(s)  m == Len(u)  A == Places(v, s)  B == Places(v, u)
           C == {n + j : j \in B}
           f == [j \in B |-> n + j]
<1>1. /\ s \o u \in Seq(T) /\ Len(s \o u) = n + m
      /\ \A i \in 1..(n + m) : (s \o u)[i] = IF i <= n THEN s[i] ELSE u[i - n]
  BY ConcatProperties
<1>2. /\ IsFiniteSet(A) /\ Count(v, s) = Cardinality(A) /\ A \subseteq 1..n /\ n \in Nat /\ DOMAIN s = 1..n
      /\ IsFiniteSet(B) /\ Count(v, u) = Cardinality(B) /\ B \subseteq 1..m /\ m \in Nat /\ DOMAIN u = 1..m
      /\ Count(v, s) \in Nat /\ Count(v, u) \in Nat
  BY PlacesFacts
<1>3. Count(v, s \o u) = Cardinality(Places(v, s \o u)) /\ DOMAIN (s \o u) = 1..(n + m)
  BY <1>1, PlacesFacts
<1>4. \A j : (j \in A <=> j \in 1..n /\ s[j] = v) /\ (j \in B <=> j \in 1..m /\ u[j] = v)
  BY <1>2 DEF Places
<1>5. Places(v, s \o u) = A \cup C
  <2>1. ASSUME NEW i \in Places(v, s \o u) PROVE i \in A \cup C
    <3>1. i \in 1..(n + m) /\ (s \o u)[i] = v BY <1>3, <2>1 DEF Places
    <3>2. CASE i <= n
      <4>1. i \in 1..n /\ s[i] = v BY <1>1, <1>2, <3>1, <3>2
      <4> QED BY <1>4, <4>1
    <3>3. CASE ~(i <= n)
      <4>1. i - n \in 1..m /\ u[i - n] = v /\ i = n + (i - n) BY <1>1, <1>2, <3>1, <3>3
      <4>2. i - n \in B BY <1>4, <4>1
      <4> QED BY <4>1, <4>2
    <3> QED BY <3>2, <3>3
  <2>2. ASSUME NEW i \in A PROVE i \in Places(v, s \o u)
    <3>1. i \in 1..n /\ s[i] = v BY <1>4, <2>2
    <3>2. i \in 1..(n + m) /\ i <= n BY <1>2, <3>1
    <3> QED BY <1>1, <1>3, <3>1, <3>2 DEF Places
  <2>3. ASSUME NEW j \in B PROVE n + j \in Places(v, s \o u)
    <3>1. j \in 1..m /\ u[j] = v BY <1>4, <2>3
    <3>2. n + j \in 1..(n + m) /\ ~(n + j <= n) /\ (n + j) - n = j BY <1>2, <3>1
    <3>3. (s \o u)[n + j] = u[j] BY <1>1, <3>2
    <3> QED BY <1>3, <3>1, <3>2, <3>3 DEF Places
  <2> HIDE DEF A, B
  <2> QED BY <2>1, <2>2, <2>3
<1>6. A \cap C = {}
  <2>1. \A i \in A : i \in Nat /\ i <= n BY <1>2
  <2>2. \A j \in B : j \in Nat /\ j >= 1 BY <1>2
  <2> HIDE DEF A, B, n
  <2> QED BY <1>2, <2>1, <2>2
<1>7. IsFiniteSet(C) /\ Cardinality(C) = Cardinality(B)
  <2>1. \A j \in B : j \in Nat BY <1>2
  <2> HIDE DEF A, B, n
  <2>2. f \in [B -> C] /\ \A b \in C : \E x \in B : f[x] = b OBVIOUS
  <2>3. \A x, y \in B : f[x] = f[y] => x = y BY <1>2, <2>1
  <2> HIDE DEF f, C
  <2> QED BY <1>2, <2>2, <2>3, CountImage
<1> HIDE DEF A, B, C
<1>8. Cardinality(A \cup C) = Cardinality(A) + Cardinality(C) BY <1>2, <1>6, <1>7, CountUnion
<1> QED BY <1>2, <1>3, <1>5, <1>7, <1>8

LEMMA CountAppend ==
  ASSUME NEW T, NEW s \in Seq(T), NEW x \in T, NEW v
  PROVE  Count(v, Append(s, x)) = Count(v, s) + If(x = v) /\ Count(v, s) \in Nat
<1> DEFINE one == <<x>>
<1>1. one \in Seq(T) /\ Count(v, one) = If(x = v) BY CountOne
<1>2. Append(s, x) = s \o one BY AppendIsConcat
<1> HIDE DEF one
<1> QED BY <1>1, <1>2, CountConcat

LEMMA HeadOnTail ==
  ASSUME NEW T, NEW s \in Seq(T), s # <<>>
  PROVE  s = <<Head(s)>> \o Tail(s) /\ Head(s) \in T /\ Tail(s) \in Seq(T) /\ <<Head(s)>> \in Seq(T)
<1> DEFINE one == <<Head(s)>>
<1>1. /\ Head(s) \in T /\ Tail(s) \in Seq(T) /\ Len(Tail(s)) = Len(s) - 1 /\ Len(s) \in Nat /\ Len(s) >= 1
      /\ \A i \in 1..Len(Tail(s)) : Tail(s)[i] = s[i + 1]
      /\ Head(s) = s[1]
  BY HeadTailProperties, EmptySeq, LenProperties
<1>2. one \in Seq(T) /\ Len(one) = 1 /\ one[1] = Head(s) BY <1>1
<1> HIDE DEF one
<1>b. \A r \in Seq(T) : /\ one \o r \in Seq(T) /\ Len(one \o r) = 1 + Len(r)
                       /\ \A i \in 1..(1 + Len(r)) : (one \o r)[i] = IF i <= 1 THEN one[i] ELSE r[i - 1]
  <2> SUFFICES ASSUME NEW r \in Seq(T)
               PROVE  /\ one \o r \in Seq(T) /\ Len(one \o r) = Len(one) + Len(r)
                      /\ \A i \in 1..(Len(one) + Len(r)) : (one \o r)[i] = IF i <= Len(one) THEN one[i] ELSE r[i - Len(one)]
    BY <1>2
  <2> QED BY <1>2, ConcatProperties
<1>3. /\ one \o Tail(s) \in Seq(T) /\ Len(one \o Tail(s)) = Len(s)
      /\ \A i \in 1..Len(s) : (one \o Tail(s))[i] = IF i <= 1 THEN one[i] ELSE Tail(s)[i - 1]
  <2>1. /\ one \o Tail(s) \in Seq(T) /\ Len(one \o Tail(s)) = 1 + (Len(s) - 1)
        /\ \A i \in 1..(1 + (Len(s) - 1)) : (one \o Tail(s))[i] = IF i <= 1 THEN one[i] ELSE Tail(s)[i - 1]
    BY <1>1, <1>b
  <2> QED BY <1>1, <2>1
<1>4. ASSUME NEW i \in 1..Len(s) PROVE s[i] = (one \o Tail(s))[i]
  <2>1. CASE i = 1 BY <1>1, <1>2, <1>3, <2>1
  <2>2. CASE i # 1
    <3>1. ~(i <= 1) /\ i - 1 \in 1..Len(Tail(s)) /\ (i - 1) + 1 = i BY <1>1, <2>2
    <3>2. Tail(s)[i - 1] = s[i] BY <1>1, <3>1
    <3> QED BY <1>3, <3>1, <3>2
  <2> QED BY <2>1, <2>2
<1>5. s = one \o Tail(s) BY <1>3, <1>4, SeqEqual
<1> QED BY <1>1, <1>2, <1>5 DEF one

LEMMA CountTail ==
  ASSUME NEW T, NEW s \in Seq(T), s # <<>>, NEW v
  PROVE  Count(v, s) = If(Head(s) = v) + Count(v, Tail(s)) /\ Count(v, Tail(s)) \in Nat
<1> DEFINE one == <<Head(s)>>
<1>1. s = one \o Tail(s) /\ one \in Seq(T) /\ Tail(s) \in Seq(T) BY HeadOnTail
<1>2. Count(v, one) = If(Head(s) = v) BY CountOne
<1> HIDE DEF one
<1>3. \A r \in Seq(T) : Count(v, one \o r) = Count(v, one) + Count(v, r) /\ Count(v, r) \in Nat
  BY <1>1, CountConcat
<1> QED BY <1>1, <1>2, <1>3

\* Keep drops members of a sequence and repeats none.
LEMMA KeptOnce ==
  ASSUME NEW T, NEW seq \in Seq(T), Once(seq), NEW S, NEW f, KeptUpTo(f, seq, S, Len(seq))
  PROVE  \A n \in 0..Len(seq) : Once(f[n])
<1> DEFINE Bad == {m \in 0..Len(seq) : ~Once(f[m])}
<1>0. Len(seq) \in Nat /\ DOMAIN seq = 1..Len(seq) BY LenProperties
<1>1. ASSUME NEW m \in 0..Len(seq), \A x \in 0..Len(seq) : x < m => Once(f[x]) PROVE Once(f[m])
  <2>1. CASE m = 0
    <3>1. f[m] = <<>> BY <1>0, <2>1 DEF KeptUpTo
    <3> QED BY <3>1 DEF Once
  <2>2. CASE m # 0
    <3>1. m - 1 \in 0..Len(seq) /\ m - 1 < m /\ m \in 1..Len(seq) BY <1>0, <2>2
    <3>2. Once(f[m - 1]) BY <1>1, <3>1
    <3>3. f[m] = IF seq[m] \in S THEN Append(f[m - 1], seq[m]) ELSE f[m - 1]
      BY <1>0, <2>2 DEF KeptUpTo
    <3>4. f[m - 1] \in Seq(T) /\ Range(f[m - 1]) = Firsts(seq, m - 1) \cap S BY <3>1, KeptFacts
    <3>5. seq[m] \notin Range(f[m - 1])
      <4> SUFFICES ASSUME seq[m] \in Firsts(seq, m - 1) PROVE FALSE BY <3>4
      <4>1. PICK i \in 1..(m - 1) : seq[m] = seq[i] BY DEF Firsts
      <4>2. i \in DOMAIN seq /\ m \in DOMAIN seq /\ i # m BY <1>0, <3>1
      <4> QED BY <4>1, <4>2 DEF Once
    <3> DEFINE g == f[m - 1]
    <3>6. g \in Seq(T) /\ Once(g) /\ seq[m] \notin Range(g) /\ seq[m] \in T
      BY <1>0, <3>1, <3>2, <3>4, <3>5, ElementOfSeq
    <3> HIDE DEF g
    <3>7. Once(Append(g, seq[m]))
      <4>1. /\ Len(g) \in Nat /\ DOMAIN g = 1..Len(g) /\ DOMAIN Append(g, seq[m]) = 1..(Len(g) + 1)
            /\ \A i \in 1..Len(g) : Append(g, seq[m])[i] = g[i]
            /\ Append(g, seq[m])[Len(g) + 1] = seq[m]
        BY <3>6, AppendProperties, LenProperties
      <4>2. \A i \in 1..Len(g) : g[i] # seq[m] BY <3>6, <4>1 DEF Range
      <4>3. \A i \in 1..(Len(g) + 1) : i \in 1..Len(g) \/ i = Len(g) + 1 BY <4>1
      <4>4. \A i, j \in 1..Len(g) : g[i] = g[j] => i = j BY <3>6, <4>1 DEF Once
      <4> QED BY <4>1, <4>2, <4>3, <4>4 DEF Once
    <3> QED BY <3>2, <3>3, <3>7 DEF g
  <2> QED BY <2>1, <2>2
<1>2. Bad = {}
  <2>1. Bad \in SUBSET Nat /\ (\A m \in 0..Len(seq) : m \notin Bad <=> Once(f[m])) /\ Bad \subseteq 0..Len(seq)
    BY <1>0
  <2> HIDE DEF Bad
  <2>2. ASSUME Bad # {} PROVE FALSE
    <3>1. PICK m \in Bad : \A y \in Bad : m <= y BY <2>1, <2>2, LeastOf
    <3>2. \A x \in 0..Len(seq) : x < m => x \notin Bad BY <2>1, <3>1, <1>0
    <3> QED BY <1>1, <2>1, <3>1, <3>2
  <2> QED BY <2>2
<1> QED BY <1>2

\* As long as all of a sequence is in S, Keep has all of it.
LEMMA KeptAll ==
  ASSUME NEW T, NEW seq \in Seq(T), NEW S, NEW f, KeptUpTo(f, seq, S, Len(seq)),
         NEW m \in 0..Len(seq), \A i \in 1..m : seq[i] \in S
  PROVE  \A n \in 0..m : Len(f[n]) = n /\ \A i \in 1..n : f[n][i] = seq[i]
<1> DEFINE Good(n) == Len(f[n]) = n /\ \A i \in 1..n : f[n][i] = seq[i]
           Bad == {n \in 0..m : ~Good(n)}
<1>0. Len(seq) \in Nat /\ DOMAIN seq = 1..Len(seq) /\ m \in Nat /\ m <= Len(seq) BY LenProperties
<1>1. ASSUME NEW n \in 0..m, \A x \in 0..m : x < n => Good(x) PROVE Good(n)
  <2>1. CASE n = 0
    <3>1. f[n] = <<>> BY <1>0, <2>1 DEF KeptUpTo
    <3> QED BY <2>1, <3>1
  <2>2. CASE n # 0
    <3>1. n - 1 \in 0..m /\ n - 1 < n /\ n - 1 \in 0..Len(seq) /\ n \in 1..Len(seq) /\ n \in 1..m /\ n \in 0..Len(seq)
      BY <1>0, <2>2
    <3>2. Good(n - 1)
      <4> HIDE DEF Good
      <4> QED BY <1>1, <3>1
    <3>3. f[n] = IF seq[n] \in S THEN Append(f[n - 1], seq[n]) ELSE f[n - 1]
      BY <2>2, <3>1 DEF KeptUpTo
    <3>4. f[n - 1] \in Seq(T) /\ seq[n] \in T /\ seq[n] \in S BY <1>0, <3>1, KeptFacts, ElementOfSeq
    <3> DEFINE g == f[n - 1]
    <3>5. g \in Seq(T) /\ Len(g) = n - 1 /\ (\A i \in 1..(n - 1) : g[i] = seq[i]) /\ f[n] = Append(g, seq[n])
      BY <3>2, <3>3, <3>4
    <3> HIDE DEF g
    <3>6. /\ Len(Append(g, seq[n])) = Len(g) + 1
          /\ \A i \in 1..Len(g) : Append(g, seq[n])[i] = g[i]
          /\ Append(g, seq[n])[Len(g) + 1] = seq[n]
      BY <3>4, <3>5, AppendProperties
    <3>7. (n - 1) + 1 = n /\ \A i \in 1..n : i \in 1..(n - 1) \/ i = n BY <1>0, <3>1
    <3> QED BY <3>5, <3>6, <3>7
  <2> QED BY <2>1, <2>2
<1> HIDE DEF Good
<1>2. Bad = {}
  <2>1. Bad \in SUBSET Nat /\ (\A n \in 0..m : n \notin Bad <=> Good(n)) /\ Bad \subseteq 0..m
    BY <1>0
  <2> HIDE DEF Bad
  <2>2. ASSUME Bad # {} PROVE FALSE
    <3>1. PICK n \in Bad : \A y \in Bad : n <= y BY <2>1, <2>2, LeastOf
    <3>2. \A x \in 0..m : x < n => x \notin Bad BY <2>1, <3>1, <1>0
    <3> QED BY <1>1, <2>1, <3>1, <3>2
  <2> QED BY <2>2
<1>3. \A n \in 0..m : Good(n) BY <1>2
<1> QED BY <1>3 DEF Good

LEMMA KeepOnce ==
  ASSUME NEW T, NEW seq \in Seq(T), Once(seq), NEW S
  PROVE  Once(Keep(seq, S))
<1>0. Len(seq) \in Nat BY LenProperties
<1> DEFINE f == CHOOSE f : KeptUpTo(f, seq, S, Len(seq))
<1>1. KeptUpTo(f, seq, S, Len(seq)) BY <1>0, KeptExists
<1>2. Keep(seq, S) = f[Len(seq)] BY KeepUnfolds
<1> HIDE DEF f
<1>3. Len(seq) \in 0..Len(seq) BY <1>0
<1>4. \A n \in 0..Len(seq) : Once(f[n]) BY <1>1, KeptOnce
<1> QED BY <1>2, <1>3, <1>4

\* Without its last, which is in S only there.
LEMMA KeepFront ==
  ASSUME NEW T, NEW s \in Seq(T), NEW x \in T, NEW S, x \notin S, Range(s) \subseteq S
  PROVE  Keep(s, S) = s /\ Keep(Append(s, x), S) = s
<1> DEFINE u == Append(s, x)
<1>1. /\ Len(s) \in Nat /\ DOMAIN s = 1..Len(s) /\ u \in Seq(T) /\ Len(u) = Len(s) + 1
      /\ (\A i \in 1..Len(s) : u[i] = s[i]) /\ u[Len(s) + 1] = x
  BY AppendProperties, LenProperties
<1>2. \A i \in 1..Len(s) : s[i] \in S BY <1>1 DEF Range
<1> HIDE DEF u
<1>3. Keep(s, S) = s
  <2> DEFINE f == CHOOSE f : KeptUpTo(f, s, S, Len(s))
  <2>1. KeptUpTo(f, s, S, Len(s)) /\ Keep(s, S) = f[Len(s)] BY <1>1, KeptExists, KeepUnfolds
  <2> HIDE DEF f
  <2>2. Len(s) \in 0..Len(s) BY <1>1
  <2>3. f[Len(s)] \in Seq(T) BY <2>1, <2>2, KeptFacts
  <2>4. Len(f[Len(s)]) = Len(s) /\ \A i \in 1..Len(s) : f[Len(s)][i] = s[i]
    BY <1>2, <2>1, <2>2, KeptAll
  <2> QED BY <2>1, <2>3, <2>4, SeqEqual
<1>4. Keep(u, S) = s
  <2> DEFINE f == CHOOSE f : KeptUpTo(f, u, S, Len(u))
  <2>0. Len(u) \in Nat BY <1>1
  <2>1. KeptUpTo(f, u, S, Len(u)) /\ Keep(u, S) = f[Len(u)] BY <2>0, KeptExists, KeepUnfolds
  <2> HIDE DEF f
  <2>2. Len(s) \in 0..Len(u) /\ Len(u) \in 0..Len(u) /\ Len(u) # 0 /\ Len(u) - 1 = Len(s) BY <1>1
  <2>3. f[Len(s)] \in Seq(T) BY <1>1, <2>1, <2>2, KeptFacts
  <2>4. Len(s) \in 0..Len(s) /\ \A i \in 1..Len(s) : u[i] \in S BY <1>1, <1>2
  <2>5. Len(f[Len(s)]) = Len(s) /\ \A i \in 1..Len(s) : f[Len(s)][i] = u[i]
    BY <1>1, <2>1, <2>2, <2>4, KeptAll
  <2>6. f[Len(s)] = s BY <1>1, <2>3, <2>5, SeqEqual
  <2>7. f[Len(u)] = IF u[Len(u)] \in S THEN Append(f[Len(u) - 1], u[Len(u)]) ELSE f[Len(u) - 1]
    BY <2>1, <2>2 DEF KeptUpTo
  <2> QED BY <1>1, <2>1, <2>2, <2>6, <2>7
<1> QED BY <1>3, <1>4 DEF u

\* The cases of is of the call k of t in whose slots on c v is.
Own(t, k, is, v, c) ==
  {a \in CaseIds : a[1] = t /\ a[2] \in is /\ slot[a] = v /\ IsCase(k, a[2], "recv", c)}

\* What goes back to the front is what was in the slots, once each.
LEMMA GivenCount ==
  ASSUME IInv, NEW t \in Tasks, NEW k, Shape(k), call[t] = k \/ call[t] = None,
         NEW is \in SUBSET CasesOf(k), NEW c \in Chans, NEW v \in Values
  PROVE  /\ IsFiniteSet(Own(t, k, is, v, c))
         /\ Count(v, GivenBack(t, k, is, c)) = Cardinality(Own(t, k, is, v, c))
<1> DEFINE full == {i \in is : IsCase(k, i, "recv", c) /\ slot[<<t, i>>] # None}
           down == [j \in CasesOf(k) |-> Len(k.cases) + 1 - j]
           ids == Keep(down, full)
           given == [j \in DOMAIN ids |-> slot[<<t, ids[j]>>]]
           P == Places(v, given)
           O == Own(t, k, is, v, c)
           f == [j \in P |-> <<t, ids[j]>>]
<1>1. GivenBack(t, k, is, c) = given BY DEF GivenBack
<1>2. CasesOf(k) = 1..Len(k.cases) /\ Len(k.cases) \in Nat BY DEF Shape
<1>3. down \in Seq(CasesOf(k)) /\ Once(down) /\ Range(down) = CasesOf(k)
  <2>1. \A j \in 1..Len(k.cases) : /\ Len(k.cases) + 1 - j \in 1..Len(k.cases)
                                   /\ Len(k.cases) + 1 - (Len(k.cases) + 1 - j) = j
    BY <1>2
  <2>2. down \in Seq(CasesOf(k)) BY <1>2, <2>1, SeqDef
  <2>3. DOMAIN down = 1..Len(k.cases) /\ \A j \in 1..Len(k.cases) : down[j] = Len(k.cases) + 1 - j BY <1>2
  <2> HIDE DEF down
  <2>4. Once(down)
    <3> SUFFICES ASSUME NEW i \in 1..Len(k.cases), NEW j \in 1..Len(k.cases), down[i] = down[j] PROVE i = j
      BY <2>3 DEF Once
    <3> QED BY <1>2, <2>3
  <2>5. \A i \in 1..Len(k.cases) : \E j \in 1..Len(k.cases) : down[j] = i BY <2>1, <2>3
  <2>6. Range(down) = CasesOf(k)
    <3>1. DOMAIN down = CasesOf(k) /\ \A i \in CasesOf(k) : down[i] \in CasesOf(k) BY <1>2, <2>1, <2>3
    <3>2. \A i \in CasesOf(k) : \E j \in CasesOf(k) : down[j] = i BY <1>2, <2>5
    <3> QED BY <3>1, <3>2 DEF Range
  <2> QED BY <2>2, <2>4, <2>6
<1>4. given \in Seq(Values) BY <1>1, GivenFacts
<1>5. v # None BY NoneAssumption
<1>6. \A i \in is : i \in CasesOf(k) /\ <<t, i>> \in CaseIds /\ <<t, i>>[1] = t /\ <<t, i>>[2] = i BY CaseNamed
<1>7. \A i : i \in full <=> i \in is /\ IsCase(k, i, "recv", c) /\ slot[<<t, i>>] # None OBVIOUS
<1>8. full \subseteq CasesOf(k) OBVIOUS
<1> HIDE DEF full, down
<1>9. ids \in Seq(CasesOf(k)) /\ Range(ids) = full /\ Once(ids)
  <2>1. ids \in Seq(CasesOf(k)) /\ Range(ids) = Range(down) \cap full BY <1>3, KeepFacts
  <2>2. Once(ids) BY <1>3, KeepOnce
  <2> QED BY <1>3, <1>8, <2>1, <2>2
<1>10. /\ DOMAIN given = DOMAIN ids /\ \A j \in DOMAIN ids : given[j] = slot[<<t, ids[j]>>] /\ ids[j] \in full
  BY <1>9 DEF Range
<1>11. \A j : j \in P <=> j \in DOMAIN ids /\ slot[<<t, ids[j]>>] = v BY <1>10 DEF Places
<1>12. IsFiniteSet(P) /\ Count(v, given) = Cardinality(P) BY <1>4, PlacesFacts
<1>13. f \in [P -> O]
  <2>1. ASSUME NEW j \in P PROVE <<t, ids[j]>> \in O
    <3>1. ids[j] \in is /\ IsCase(k, ids[j], "recv", c) /\ slot[<<t, ids[j]>>] = v BY <1>7, <1>10, <1>11
    <3> QED BY <1>6, <3>1 DEF Own
  <2> QED BY <2>1
<1>14. \A x, y \in P : f[x] = f[y] => x = y
  <2> SUFFICES ASSUME NEW x \in P, NEW y \in P, <<t, ids[x]>> = <<t, ids[y]>> PROVE x = y
    OBVIOUS
  <2>1. ids[x] = ids[y] /\ x \in DOMAIN ids /\ y \in DOMAIN ids BY <1>11
  <2> QED BY <1>9, <2>1 DEF Once
<1>15. \A a \in O : \E j \in P : f[j] = a
  <2> SUFFICES ASSUME NEW a \in O PROVE \E j \in P : <<t, ids[j]>> = a
    OBVIOUS
  <2>1. a \in CaseIds /\ a[1] = t /\ a[2] \in is /\ slot[a] = v /\ IsCase(k, a[2], "recv", c) BY DEF Own
  <2>2. a = <<t, a[2]>> BY <2>1 DEF CaseIds
  <2>3. a[2] \in full BY <1>5, <1>7, <2>1, <2>2
  <2>4. PICK j \in DOMAIN ids : ids[j] = a[2] BY <1>9, <2>3 DEF Range
  <2> QED BY <1>11, <2>1, <2>2, <2>4
<1> HIDE DEF P, O, f, given
<1>16. IsFiniteSet(O) /\ Cardinality(O) = Cardinality(P) BY <1>12, <1>13, <1>14, <1>15, CountImage
<1> QED BY <1>1, <1>12, <1>16 DEF O

\* A value is in the slot of a case of the call that is asked for, on the channel it names.
LEMMA SlotFacts ==
  ASSUME IInv, NEW a \in CaseIds, NEW v \in Values, slot[a] = v
  PROVE  call[a[1]] # None /\ a[2] \in CasesOf(call[a[1]]) /\ Rendezvous(call[a[1]].cases[a[2]].ch)
BY NoneAssumption DEF IInv, SlotInv

\* The end of a call empties its slots, and fills that of the waiter it chose.
LEMMA LeaveSlots ==
  ASSUME IInv, NEW t \in Tasks, NEW k, Begins(t, k), NEW taken, NEW filled, NEW x, Leave(t, taken, filled, x),
         NEW c \in Chans,
         filled # None => filled \in Range(waiters[c]) /\ slot[filled] = None /\ Pairs(t, filled),
         NEW d \in Chans, NEW v \in Values, IsFiniteSet(SlotsWith(v, d))
  PROVE  /\ IsFiniteSet(SlotsWith(v, d)')
         /\ Cardinality(SlotsWith(v, d)') + Cardinality(Own(t, k, CasesOf(k), v, d))
              = Cardinality(SlotsWith(v, d)) + If(filled # None /\ x = v /\ d = c)
         /\ Cardinality(SlotsWith(v, d)') \in Nat /\ Cardinality(Own(t, k, CasesOf(k), v, d)) \in Nat
         /\ Cardinality(SlotsWith(v, d)) \in Nat
<1> DEFINE A == SlotsWith(v, d)
           O == Own(t, k, CasesOf(k), v, d)
           R == {a \in A : a[1] # t}
           fills == filled # None /\ x = v /\ d = c
<1>0. CallTypes /\ v # None BY TypeParts, NoneAssumption DEF IInv
<1>1. /\ \A u \in Tasks \ {t} : call'[u] = call[u]
      /\ \A a \in CaseIds : slot'[a] = IF a[1] = t THEN None ELSE IF a = filled THEN x ELSE slot[a]
  BY <1>0, LeaveEffect DEF Leave
<1>2. \A a : a \in A <=> a \in CaseIds /\ slot[a] = v /\ call[a[1]] # None /\ IsCase(call[a[1]], a[2], "recv", d)
  BY DEF SlotsWith
<1>3. \A a : a \in SlotsWith(v, d)' <=>
        a \in CaseIds /\ slot'[a] = v /\ call'[a[1]] # None /\ IsCase(call'[a[1]], a[2], "recv", d)
  BY DEF SlotsWith, IsCase
<1>4. \A a \in CaseIds : a[1] \in Tasks /\ a # None BY IdsNamed
<1>5. A = R \cup O /\ R \cap O = {}
  <2>1. ASSUME NEW a \in A, a[1] = t PROVE a \in O
    <3>1. a \in CaseIds /\ slot[a] = v /\ call[t] # None /\ IsCase(call[t], a[2], "recv", d) BY <1>2, <2>1
    <3>2. a[2] \in CasesOf(call[t]) BY <2>1, <3>1, SlotFacts
    <3>3. call[t] = k BY <3>1 DEF Begins
    <3> QED BY <2>1, <3>1, <3>2, <3>3 DEF Own
  <2>2. ASSUME NEW a \in O PROVE a \in A /\ a[1] = t
    <3>1. a \in CaseIds /\ slot[a] = v /\ a[1] = t /\ IsCase(k, a[2], "recv", d) BY DEF Own
    <3>2. call[t] # None BY <3>1, SlotFacts
    <3>3. call[t] = k BY <3>2 DEF Begins
    <3> QED BY <1>2, <3>1, <3>2, <3>3
  <2> HIDE DEF A, O
  <2> QED BY <2>1, <2>2
<1>6. filled # None => /\ filled \in CaseIds /\ filled[1] # t /\ filled \notin R /\ call[filled[1]] # None
                       /\ IsCase(call[filled[1]], filled[2], "recv", c)
  <2> SUFFICES ASSUME filled # None
               PROVE  /\ filled \in CaseIds /\ filled[1] # t /\ slot[filled] # v /\ call[filled[1]] # None
                      /\ IsCase(call[filled[1]], filled[2], "recv", c)
    BY <1>2
  <2>1. filled \in CaseIds /\ filled[1] \in Busy /\ IsCase(call[filled[1]], filled[2], "recv", c)
    BY WaiterFacts
  <2> QED BY <1>0, <2>1 DEF Pairs, Busy
<1>7. SlotsWith(v, d)' = IF fills THEN R \cup {filled} ELSE R
  <2>1. ASSUME NEW a, a \in SlotsWith(v, d)' PROVE a \in R \/ (fills /\ a = filled)
    <3>1. a \in CaseIds /\ slot'[a] = v /\ call'[a[1]] # None /\ IsCase(call'[a[1]], a[2], "recv", d) BY <1>3, <2>1
    <3>2. a[1] # t /\ (a = filled => x = v) /\ (a # filled => slot[a] = v) BY <1>0, <1>1, <3>1
    <3>3. call'[a[1]] = call[a[1]] BY <1>1, <1>4, <3>1, <3>2
    <3>4. CASE a = filled
      <4>1. filled # None /\ IsCase(call[filled[1]], filled[2], "recv", c) BY <1>4, <1>6, <3>1, <3>4
      <4>2. d = c BY <3>1, <3>3, <3>4, <4>1 DEF IsCase
      <4> QED BY <3>2, <3>4, <4>1, <4>2
    <3>5. CASE a # filled
      <4>1. a \in A BY <1>2, <3>1, <3>2, <3>3, <3>5
      <4> QED BY <3>2, <4>1
    <3> QED BY <3>4, <3>5
  <2>2. ASSUME NEW a \in R PROVE a \in SlotsWith(v, d)'
    <3>1. a \in CaseIds /\ slot[a] = v /\ call[a[1]] # None /\ IsCase(call[a[1]], a[2], "recv", d) /\ a[1] # t
      BY <1>2
    <3>2. a # filled BY <1>4, <1>6, <3>1
    <3>3. call'[a[1]] = call[a[1]] /\ slot'[a] = slot[a] BY <1>1, <1>4, <3>1, <3>2
    <3> QED BY <1>3, <3>1, <3>3
  <2>3. ASSUME fills PROVE filled \in SlotsWith(v, d)'
    <3>1. /\ filled \in CaseIds /\ filled[1] # t /\ call[filled[1]] # None
          /\ IsCase(call[filled[1]], filled[2], "recv", d)
      BY <1>6, <2>3
    <3>2. call'[filled[1]] = call[filled[1]] /\ slot'[filled] = x BY <1>1, <1>4, <3>1
    <3> QED BY <1>3, <2>3, <3>1, <3>2
  <2> HIDE DEF R, fills
  <2> QED BY <2>1, <2>2, <2>3
<1> HIDE DEF A, O, R, fills
<1>8. IsFiniteSet(A) BY DEF A
<1>9. R \subseteq A /\ O \subseteq A BY <1>5
<1>10. IsFiniteSet(R) /\ IsFiniteSet(O) BY <1>8, <1>9, FS_Subset
<1>11. /\ Cardinality(A) = Cardinality(R) + Cardinality(O)
       /\ Cardinality(R) \in Nat /\ Cardinality(O) \in Nat
  BY <1>5, <1>10, CountUnion
<1>12. fills => /\ IsFiniteSet(R \cup {filled}) /\ Cardinality(R \cup {filled}) = Cardinality(R) + 1
  <2>1. fills => filled \notin R BY <1>6 DEF fills
  <2> QED BY <1>10, <2>1, FS_AddElement
<1>13. CASE fills
  <2>1. If(fills) = 1 BY <1>13 DEF If
  <2> QED BY <1>7, <1>11, <1>12, <1>13, <2>1 DEF A, O, fills
<1>14. CASE ~fills
  <2>1. If(fills) = 0 BY <1>14 DEF If
  <2> QED BY <1>7, <1>10, <1>11, <1>14, <2>1 DEF A, O, fills
<1> QED BY <1>13, <1>14

\* What is put behind a sequence, and taken from its front, is put behind and taken from
\* whatever ends or begins with it.
LEMMA PutTake ==
  ASSUME NEW T, NEW g \in Seq(T), NEW s \in Seq(T)
  PROVE  /\ \A x \in T : g \o Append(s, x) = Append(g \o s, x)
         /\ s # <<>> => Append(g, Head(s)) \o Tail(s) = g \o s
         /\ \A x \in T : Append(g, x) \o s = g \o (<<x>> \o s)
         /\ (<<>> \o <<>>) \o s = s /\ (<<>> \o g) \o s = g \o s
<1>1. ASSUME NEW x \in T PROVE g \o Append(s, x) = Append(g \o s, x)
  <2> DEFINE one == <<x>>
  <2>1. one \in Seq(T) /\ Append(s, x) = s \o one BY AppendIsConcat
  <2>2. g \o s \in Seq(T) BY ConcatProperties
  <2>3. Append(g \o s, x) = (g \o s) \o one BY <2>2, AppendIsConcat
  <2> HIDE DEF one
  <2>4. (g \o s) \o one = g \o (s \o one) BY <2>1, ConcatAssociative
  <2> QED BY <2>1, <2>3, <2>4
<1>2. ASSUME NEW x \in T, NEW u \in Seq(T) PROVE Append(g, x) \o u = g \o (<<x>> \o u)
  <2> DEFINE one == <<x>>
  <2>1. one \in Seq(T) /\ Append(g, x) = g \o one BY AppendIsConcat
  <2> HIDE DEF one
  <2>2. (g \o one) \o u = g \o (one \o u) BY <2>1, ConcatAssociative
  <2> QED BY <2>1, <2>2 DEF one
<1>3. ASSUME s # <<>> PROVE Append(g, Head(s)) \o Tail(s) = g \o s
  <2>1. Head(s) \in T /\ Tail(s) \in Seq(T) /\ s = <<Head(s)>> \o Tail(s) BY <1>3, HeadOnTail
  <2>2. Append(g, Head(s)) \o Tail(s) = g \o (<<Head(s)>> \o Tail(s)) BY <1>2, <2>1
  <2> QED BY <2>1, <2>2
<1>4. <<>> \o s = s /\ <<>> \o g = g BY ConcatEmptySeq
<1>5. (<<>> \o <<>>) \o s = s
  <2>1. <<>> \in Seq(T) OBVIOUS
  <2>2. <<>> \o <<>> = <<>> BY <2>1, ConcatEmptySeq
  <2> QED BY <1>4, <2>2
<1> QED BY <1>1, <1>2, <1>3, <1>4, <1>5

(***************************************************************************)
(* The values, beside IInv.                                                *)
(***************************************************************************)
FifoInv == \A c \in Chans : ~Rendezvous(c) => accepted[c] = got[c] \o buf[c]
\* No tick is a tick of before: the one that is replaced is in no other place.
TicksInv == \A c \in Chans : Ticker(c) => Once(accepted[c])
Held(v, c) == Count(v, buf[c]) + Cardinality(SlotsWith(v, c)) + Count(v, got[c])
Placed(v, c) == IsFiniteSet(SlotsWith(v, c)) /\ Held(v, c) = Count(v, accepted[c])
PlacedInv == \A c \in Chans : \A v \in Values : Rendezvous(c) => Placed(v, c)
ValuesInv == FifoInv /\ TicksInv /\ PlacedInv

\* What has no effect on the values of a channel.
SameOn(c) ==
  /\ buf'[c] = buf[c] /\ got'[c] = got[c] /\ accepted'[c] = accepted[c]
  /\ \A v \in Values : SlotsWith(v, c)' = SlotsWith(v, c)

LEMMA SameKeeps ==
  ASSUME ValuesInv, UNCHANGED made, \A c \in Chans : SameOn(c)
  PROVE  ValuesInv'
<1>1. \A c : Rendezvous(c)' = Rendezvous(c) /\ Ticker(c)' = Ticker(c) BY DEF Rendezvous, Room, Ticker
<1>2. FifoInv' BY <1>1 DEF ValuesInv, FifoInv, SameOn
<1>3. TicksInv' BY <1>1 DEF ValuesInv, TicksInv, SameOn
<1>4. PlacedInv'
  <2> SUFFICES ASSUME NEW c \in Chans, NEW v \in Values, Rendezvous(c) PROVE Placed(v, c)'
    BY <1>1 DEF PlacedInv
  <2>1. SlotsWith(v, c)' = SlotsWith(v, c) BY DEF SameOn
  <2>2. Held(v, c)' = Held(v, c) BY <2>1 DEF Held, SameOn
  <2>3. Placed(v, c) BY DEF ValuesInv, PlacedInv
  <2> QED BY <2>1, <2>2, <2>3 DEF Placed, SameOn
<1> QED BY <1>2, <1>3, <1>4 DEF ValuesInv

\* A call that ends without a choice.
LEMMA EndsValues ==
  ASSUME IInv, ValuesInv, NEW t \in Tasks, NEW k, Begins(t, k), NEW what, Ends(t, k, what)
  PROVE  ValuesInv'
<1> DEFINE G(d) == GivenBack(t, k, CasesOf(k), d)
<1>1. /\ Leave(t, None, None, None) /\ buf' = [d \in Chans |-> G(d) \o buf[d]]
      /\ UNCHANGED <<made, accepted, got>>
  BY DEF Ends, GiveUp, PutBack
<1>2. TypeOK /\ ChanTypes /\ CallTypes /\ Shape(k) BY TypeParts, BeginsShape DEF IInv
<1>3. \A d \in Chans : G(d) \in Seq(Values) /\ (~Rendezvous(d) => G(d) = <<>>)
  BY <1>2, GivenFacts DEF Begins
<1>4. ASSUME NEW d \in Chans, NEW v \in Values
      PROVE Count(v, G(d)) = Cardinality(Own(t, k, CasesOf(k), v, d))
  BY <1>2, GivenCount DEF Begins
<1> HIDE DEF G
<1>5. \A c : Rendezvous(c)' = Rendezvous(c) /\ Ticker(c)' = Ticker(c) BY <1>1 DEF Rendezvous, Room, Ticker
<1>6. TicksInv' BY <1>1, <1>5 DEF ValuesInv, TicksInv
<1>7. \A d \in Chans : buf[d] \in Seq(Values) /\ got[d] \in Seq(Values) BY <1>2 DEF ChanTypes
<1>8. FifoInv'
  <2> SUFFICES ASSUME NEW d \in Chans, ~Rendezvous(d) PROVE accepted'[d] = got'[d] \o buf'[d]
    BY <1>5 DEF FifoInv
  <2>1. buf'[d] = buf[d] BY <1>1, <1>3, <1>7, ConcatEmptySeq
  <2> QED BY <1>1, <2>1 DEF ValuesInv, FifoInv
<1>9. PlacedInv'
  <2> SUFFICES ASSUME NEW d \in Chans, NEW v \in Values, Rendezvous(d) PROVE Placed(v, d)'
    BY <1>5 DEF PlacedInv
  <2>1. IsFiniteSet(SlotsWith(v, d)) /\ Held(v, d) = Count(v, accepted[d]) BY DEF ValuesInv, PlacedInv, Placed
  <2> DEFINE S == Cardinality(SlotsWith(v, d))  T == Cardinality(SlotsWith(v, d)')
             O == Cardinality(Own(t, k, CasesOf(k), v, d))
             noFill == None # None /\ None = v /\ d = d
  <2>2. IsFiniteSet(SlotsWith(v, d)') /\ T + O = S + If(noFill) /\ T \in Nat /\ O \in Nat /\ S \in Nat
    BY <1>1, <2>1, LeaveSlots
  <2>3. If(noFill) = 0 BY DEF If
  <2>4. Count(v, G(d) \o buf[d]) = O + Count(v, buf[d]) /\ Count(v, buf[d]) \in Nat
    BY <1>3, <1>4, <1>7, CountConcat
  <2>5. Count(v, got[d]) \in Nat BY <1>7, PlacesFacts
  <2>6. Count(v, buf'[d]) = O + Count(v, buf[d]) /\ got' = got /\ accepted' = accepted BY <1>1, <2>4
  <2>7. Count(v, buf[d]) + S + Count(v, got[d]) = Count(v, accepted[d]) BY <2>1 DEF Held
  <2>8. Held(v, d)' = Count(v, buf'[d]) + T + Count(v, got[d]) BY <2>6 DEF Held
  <2> HIDE DEF S, T, O, noFill
  <2>9. Count(v, buf'[d]) + T + Count(v, got[d]) = Count(v, buf[d]) + S + Count(v, got[d])
    BY <2>2, <2>3, <2>4, <2>5, <2>6
  <2> QED BY <2>2, <2>6, <2>7, <2>8, <2>9 DEF Placed
<1> QED BY <1>6, <1>8, <1>9 DEF ValuesInv

\* A choice moves one value at most, from one place to one other.
LEMMA ChooseValues ==
  ASSUME IInv, ValuesInv, NEW t \in Tasks, NEW k, Begins(t, k), NEW i, NEW polled, NEW raised,
         Chooses(t, k, i, polled, raised)
  PROVE  ValuesInv'
<1> DEFINE kind == k.cases[i].kind
           c    == k.cases[i].ch
           from == From(t, k, i)
           open == Opens(t, k, i)
           push == open /\ ~Rendezvous(c)
           v    == Moved(t, k, i)
           back == kind = "recv" /\ v # None /\ raised
           hands == kind = "recv" /\ v # None /\ ~raised
           takes == from = "offer" \/ open
           taken  == TakenOffer(t, k, i)
           filled == FilledWaiter(t, k, i)
           others == CasesOf(k) \ {i}
           G(d)  == GivenBack(t, k, others, d)
           front(d) == IF d = c /\ back THEN <<v>> ELSE <<>>
           rest(d) == IF d # c THEN buf[d] ELSE IF from = "buf" THEN Tail(buf[c])
                      ELSE IF push THEN Append(buf[c], v) ELSE buf[c]
<1>1. /\ Leave(t, taken, filled, v)
      /\ buf' = [d \in Chans |-> (front(d) \o G(d)) \o rest(d)]
      /\ accepted' = IF takes THEN [accepted EXCEPT ![c] = Append(@, v)] ELSE accepted
      /\ got' = IF hands THEN [got EXCEPT ![c] = Append(@, v)] ELSE got
      /\ UNCHANGED made /\ raised \in BOOLEAN
  BY DEF Chooses, Choose, PutBack
<1>2. TypeOK /\ ChanTypes /\ CallTypes /\ Shape(k) /\ (call[t] = k \/ call[t] = None)
  BY TypeParts, BeginsShape DEF IInv, Begins
<1>3. /\ i \in CasesOf(k) /\ c \in Chans /\ v \in Values \cup {None}
      /\ taken # None => taken \in Range(offers[c]) /\ v \in Values
      /\ from = "offer" => taken # None
      /\ filled # None =>
           /\ filled \in Range(waiters[c]) /\ slot[filled] = None /\ Pairs(t, filled)
           /\ open /\ Rendezvous(c)
      /\ open => /\ i \in Sends(k) /\ v \in Values /\ kind = "send"
                 /\ Rendezvous(c) => filled # None
  <2>1. /\ c = k.cases[i].ch /\ from = From(t, k, i) /\ v = Moved(t, k, i)
        /\ taken = TakenOffer(t, k, i) /\ filled = FilledWaiter(t, k, i)
        /\ open = Opens(t, k, i) /\ kind = k.cases[i].kind
    OBVIOUS
  <2> HIDE DEF kind, c, from, open, v, taken, filled
  <2>2. /\ i \in CasesOf(k) /\ c \in Chans /\ v \in Values \cup {None}
        /\ taken # None =>
             /\ from = "offer" /\ k.cases[i].kind = "recv"
             /\ taken \in Range(offers[c]) /\ Pairs(t, taken) /\ v = call[taken[1]].vals[taken[2]]
             /\ v \in Values /\ filled = None
        /\ from = "offer" => taken # None
        /\ filled # None =>
             /\ filled \in Range(waiters[c]) /\ slot[filled] = None /\ Pairs(t, filled)
             /\ Opens(t, k, i) /\ Rendezvous(c)
        /\ Opens(t, k, i) =>
             /\ i \in Sends(k) /\ v = k.vals[i] /\ v \in Values /\ ~closed[c] /\ offer[<<t, i>>] = "none"
             /\ k.cases[i].kind = "send" /\ taken = None
             /\ Rendezvous(c) => filled # None
             /\ ~Rendezvous(c) => Len(buf[c]) < Room(c)
    BY <2>1, ChosenFacts
  <2> QED BY <2>1, <2>2
<1>4. kind # "recv" => from = "nowhere" BY DEF From
<1>5. kind = "recv" => /\ from \in {"slot", "buf", "offer", "closed"}
                       /\ (from = "slot" => Rendezvous(c) /\ v \in Values /\ v = slot[<<t, i>>])
                       /\ (from # "slot" => slot[<<t, i>>] = None)
                       /\ (from = "buf" => buf[c] # <<>> /\ v = Head(buf[c]) /\ v \in Values)
                       /\ (from = "offer" => v \in Values)
                       /\ (from = "closed" => v = None)
  <2>1. ASSUME kind = "recv" PROVE Received(t, k, i, c, from, v, Head(Takeable(t, c)))
    BY <1>3, <2>1, RecvFacts
  <2> QED BY <2>1 DEF Received
<1>6. \A d \in Chans : G(d) \in Seq(Values) /\ (~Rendezvous(d) => G(d) = <<>>)
  BY <1>2, GivenFacts
<1>7. ASSUME NEW d \in Chans, NEW w \in Values
      PROVE  Count(w, G(d)) = Cardinality(Own(t, k, others, w, d)) /\ IsFiniteSet(Own(t, k, others, w, d))
  BY <1>2, GivenCount
<1>8. from = "offer" => Rendezvous(c) /\ kind = "recv" BY <1>3, <1>4, OfferFacts
<1>9. ASSUME Ticker(c) PROVE ~takes
  <2>1. ~Rendezvous(c)
    <3>1. Room(c) = 1 BY <1>2, <1>3, <1>9, ChanFacts
    <3> QED BY <3>1 DEF Rendezvous
  <2>2. open => ~Ticker(c) BY <1>3 DEF Begins
  <2> QED BY <1>8, <1>9, <2>1, <2>2
<1>10. /\ (push <=> open /\ ~Rendezvous(c)) /\ (takes <=> from = "offer" \/ open)
       /\ (back <=> kind = "recv" /\ v # None /\ raised) /\ (hands <=> kind = "recv" /\ v # None /\ ~raised)
       /\ \A d : front(d) = IF d = c /\ back THEN <<v>> ELSE <<>>
       /\ \A d : rest(d) = IF d # c THEN buf[d] ELSE IF from = "buf" THEN Tail(buf[c])
                           ELSE IF push THEN Append(buf[c], v) ELSE buf[c]
       /\ \A a : a \in others <=> a \in CasesOf(k) /\ a # i
       /\ IsCase(k, i, "recv", c) <=> kind = "recv"
  BY DEF IsCase
<1>11. ASSUME NEW w \in Values, NEW d \in Chans
       PROVE  Cardinality(Own(t, k, CasesOf(k), w, d))
                = Cardinality(Own(t, k, others, w, d)) + If(d = c /\ from = "slot" /\ v = w)
  <2> DEFINE A == Own(t, k, CasesOf(k), w, d)
             B == Own(t, k, others, w, d)
             own == d = c /\ from = "slot" /\ v = w
  <2>1. <<t, i>> \in CaseIds /\ <<t, i>>[1] = t /\ <<t, i>>[2] = i BY <1>2, <1>3, CaseNamed
  <2>2. w # None BY NoneAssumption
  <2>3. <<t, i>> \in A <=> own
    <3>1. <<t, i>> \in A <=> slot[<<t, i>>] = w /\ IsCase(k, i, "recv", d) BY <1>3, <2>1 DEF Own
    <3>2. IsCase(k, i, "recv", d) <=> kind = "recv" /\ d = c BY DEF IsCase
    <3> HIDE DEF kind, c, from, v
    <3> QED BY <1>4, <1>5, <2>2, <3>1, <3>2
  <2>4. B = A \ {<<t, i>>}
    <3>1. \A a : a \in A <=> a \in CaseIds /\ a[1] = t /\ a[2] \in CasesOf(k) /\ slot[a] = w /\ IsCase(k, a[2], "recv", d)
      BY DEF Own
    <3>2. \A a : a \in B <=> a \in CaseIds /\ a[1] = t /\ a[2] \in others /\ slot[a] = w /\ IsCase(k, a[2], "recv", d)
      BY DEF Own
    <3>3. \A a \in CaseIds : a[1] = t => (a[2] = i <=> a = <<t, i>>) BY <2>1 DEF CaseIds
    <3> HIDE DEF A, B, others
    <3> QED BY <1>10, <2>1, <3>1, <3>2, <3>3
  <2>5. IsFiniteSet(B) BY <1>7
  <2> HIDE DEF A, B, own
  <2>6. CASE own
    <3>1. A = B \cup {<<t, i>>} /\ <<t, i>> \notin B BY <2>3, <2>4, <2>6
    <3>2. Cardinality(A) = Cardinality(B) + 1 BY <2>5, <3>1, FS_AddElement
    <3>3. If(own) = 1 BY <2>6 DEF If
    <3> QED BY <3>2, <3>3 DEF A, B, own
  <2>7. CASE ~own
    <3>1. A = B BY <2>3, <2>4, <2>7
    <3>2. Cardinality(B) \in Nat BY <2>5, FS_CardinalityType
    <3>3. If(own) = 0 BY <2>7 DEF If
    <3> QED BY <3>1, <3>2, <3>3 DEF A, B, own
  <2> QED BY <2>6, <2>7
<1> HIDE DEF kind, c, from, open, push, v, back, hands, takes, taken, filled, others, G, front, rest
<1>12. \A d : Rendezvous(d)' = Rendezvous(d) /\ Ticker(d)' = Ticker(d) BY <1>1 DEF Rendezvous, Room, Ticker
<1>13. ASSUME NEW d \in Chans
       PROVE  /\ buf[d] \in Seq(Values) /\ got[d] \in Seq(Values) /\ accepted[d] \in Seq(Values)
              /\ buf'[d] = (front(d) \o G(d)) \o rest(d)
              /\ accepted'[d] = IF d = c /\ takes THEN Append(accepted[d], v) ELSE accepted[d]
              /\ got'[d] = IF d = c /\ hands THEN Append(got[d], v) ELSE got[d]
  <2>1. /\ buf \in [Chans -> Seq(Values)] /\ got \in [Chans -> Seq(Values)]
        /\ accepted \in [Chans -> Seq(Values)]
    BY <1>2 DEF ChanTypes
  <2> QED BY <1>1, <2>1
<1>14. TicksInv'
  <2> SUFFICES ASSUME NEW d \in Chans, Ticker(d) PROVE Once(accepted'[d]) BY <1>12 DEF TicksInv
  <2>1. accepted'[d] = accepted[d] BY <1>9, <1>13
  <2> QED BY <2>1 DEF ValuesInv, TicksInv
<1>15. FifoInv'
  <2> SUFFICES ASSUME NEW d \in Chans, ~Rendezvous(d) PROVE accepted'[d] = got'[d] \o buf'[d]
    BY <1>12 DEF FifoInv
  <2>1. /\ buf[d] \in Seq(Values) /\ got[d] \in Seq(Values) /\ accepted[d] = got[d] \o buf[d] /\ G(d) = <<>>
        /\ buf'[d] = (front(d) \o G(d)) \o rest(d)
        /\ accepted'[d] = IF d = c /\ takes THEN Append(accepted[d], v) ELSE accepted[d]
        /\ got'[d] = IF d = c /\ hands THEN Append(got[d], v) ELSE got[d]
    BY <1>6, <1>13 DEF ValuesInv, FifoInv
  <2>2. CASE ~(d = c /\ (v # None \/ push))
    <3>1. front(d) = <<>> /\ rest(d) = buf[d]
      <4>1. ~(d = c /\ from = "buf") BY <1>4, <1>5, <2>2, NoneAssumption
      <4> QED BY <1>10, <2>2, <4>1
    <3>2. got'[d] = got[d] BY <1>10, <2>1, <2>2
    <3>3. accepted'[d] = accepted[d]
      <4>1. d = c => ~takes BY <1>8, <1>10, <2>2
      <4> QED BY <2>1, <4>1
    <3>4. buf'[d] = (<<>> \o <<>>) \o buf[d] BY <2>1, <3>1
    <3>5. buf'[d] = buf[d] BY <2>1, <3>4, PutTake
    <3> QED BY <2>1, <3>2, <3>3, <3>5
  <2>3. CASE d = c /\ kind = "recv" /\ v # None
    <3>1. from = "buf" /\ v = Head(buf[d]) /\ v \in Values /\ buf[d] # <<>> /\ ~takes /\ rest(d) = Tail(buf[d])
      <4>1. from = "buf" BY <1>5, <1>8, <2>3
      <4>2. ~open BY <1>3, <2>3
      <4> QED BY <1>5, <1>10, <2>3, <4>1, <4>2
    <3>2. CASE raised
      <4>1. front(d) = <<v>> /\ got'[d] = got[d] /\ accepted'[d] = accepted[d] BY <1>10, <2>1, <2>3, <3>1, <3>2
      <4>2. buf'[d] = (<<v>> \o <<>>) \o Tail(buf[d]) BY <2>1, <3>1, <4>1
      <4>3. buf[d] = <<v>> \o Tail(buf[d]) /\ <<v>> \in Seq(Values) BY <2>1, <3>1, HeadOnTail
      <4>4. <<v>> \o <<>> = <<v>> BY <4>3, ConcatEmptySeq
      <4> QED BY <2>1, <4>1, <4>2, <4>3, <4>4
    <3>3. CASE ~raised
      <4>1. front(d) = <<>> /\ got'[d] = Append(got[d], v) /\ accepted'[d] = accepted[d]
        BY <1>10, <2>1, <2>3, <3>1, <3>3
      <4>2. buf'[d] = (<<>> \o <<>>) \o Tail(buf[d]) BY <2>1, <3>1, <4>1
      <4>3. Tail(buf[d]) \in Seq(Values) BY <2>1, <3>1, HeadOnTail
      <4>4. \A r \in Seq(Values) : (<<>> \o <<>>) \o r = r BY <2>1, PutTake
      <4>5. \A g, s \in Seq(Values) : s # <<>> => Append(g, Head(s)) \o Tail(s) = g \o s BY PutTake
      <4>6. buf'[d] = Tail(buf[d]) BY <4>2, <4>3, <4>4
      <4>7. Append(got[d], Head(buf[d])) \o Tail(buf[d]) = got[d] \o buf[d] BY <2>1, <3>1, <4>5
      <4>8. got'[d] = Append(got[d], Head(buf[d])) BY <3>1, <4>1
      <4> QED BY <2>1, <4>1, <4>6, <4>7, <4>8
    <3> QED BY <3>2, <3>3
  <2>4. CASE d = c /\ open
    <3>1. kind = "send" /\ from # "buf" /\ push /\ takes /\ ~back /\ ~hands /\ v \in Values
      BY <1>3, <1>4, <1>10, <2>4
    <3>2. /\ front(d) = <<>> /\ rest(d) = Append(buf[d], v) /\ got'[d] = got[d]
          /\ accepted'[d] = Append(accepted[d], v)
      BY <1>10, <2>1, <2>4, <3>1
    <3>3. buf'[d] = (<<>> \o <<>>) \o Append(buf[d], v) BY <2>1, <3>2
    <3>4. Append(buf[d], v) \in Seq(Values) BY <2>1, <3>1, AppendProperties
    <3>5. \A r \in Seq(Values) : (<<>> \o <<>>) \o r = r BY <2>1, PutTake
    <3>6. buf'[d] = Append(buf[d], v) BY <3>3, <3>4, <3>5
    <3>7. \A g, s \in Seq(Values) : \A x \in Values : g \o Append(s, x) = Append(g \o s, x) BY PutTake
    <3> QED BY <2>1, <3>1, <3>2, <3>6, <3>7
  <2>5. kind # "recv" /\ ~open => v = None
    <3> USE DEF kind, open, v
    <3> QED BY DEF Moved
  <2> QED BY <1>3, <1>10, <2>2, <2>3, <2>4, <2>5
<1>16. ASSUME NEW w \in Values, NEW d \in Chans, Rendezvous(d)
       PROVE  If(d = c /\ back /\ v = w) + If(d = c /\ hands /\ v = w) + If(filled # None /\ v = w /\ d = c)
                = If(d = c /\ from = "slot" /\ v = w) + If(d = c /\ from = "buf" /\ v = w)
                    + If(d = c /\ takes /\ v = w)
  <2>1. w # None BY NoneAssumption
  <2>2. CASE ~(d = c /\ v = w) BY <2>2 DEF If
  <2>3. CASE d = c /\ v = w
    <3>1. v # None BY <2>1, <2>3
    <3>2. CASE kind = "recv"
      <4>1. /\ ~open /\ filled = None /\ from \in {"slot", "buf", "offer"} /\ (takes <=> from = "offer")
            /\ (back <=> raised) /\ (hands <=> ~raised)
        BY <1>3, <1>5, <1>10, <3>1, <3>2
      <4> QED BY <1>1, <2>3, <4>1 DEF If
    <3>3. CASE kind # "recv"
      <4>1. /\ from = "nowhere" /\ ~back /\ ~hands /\ (takes <=> open) /\ (filled # None <=> open)
        BY <1>3, <1>4, <1>10, <1>16, <2>3, <3>3
      <4> QED BY <2>3, <4>1 DEF If
    <3> QED BY <3>2, <3>3
  <2> QED BY <2>2, <2>3

<1>17. ASSUME NEW w \in Values, NEW d \in Chans, Rendezvous(d) PROVE Placed(w, d)'
  <2>1. /\ buf[d] \in Seq(Values) /\ got[d] \in Seq(Values) /\ accepted[d] \in Seq(Values) /\ G(d) \in Seq(Values)
        /\ buf'[d] = (front(d) \o G(d)) \o rest(d)
        /\ accepted'[d] = IF d = c /\ takes THEN Append(accepted[d], v) ELSE accepted[d]
        /\ got'[d] = IF d = c /\ hands THEN Append(got[d], v) ELSE got[d]
    BY <1>6, <1>13
  <2>2. IsFiniteSet(SlotsWith(w, d)) /\ Held(w, d) = Count(w, accepted[d])
    BY <1>17 DEF ValuesInv, PlacedInv, Placed
  <2> DEFINE S == Cardinality(SlotsWith(w, d))  T == Cardinality(SlotsWith(w, d)')
             O == Cardinality(Own(t, k, CasesOf(k), w, d))  R == Cardinality(Own(t, k, others, w, d))
             fills == If(filled # None /\ v = w /\ d = c)
             slotted == If(d = c /\ from = "slot" /\ v = w)
             backed == If(d = c /\ back /\ v = w)
             handed == If(d = c /\ hands /\ v = w)
             tailed == If(d = c /\ from = "buf" /\ v = w)
             taking == If(d = c /\ takes /\ v = w)
  <2>3. IsFiniteSet(SlotsWith(w, d)') /\ T + O = S + fills /\ T \in Nat /\ O \in Nat /\ S \in Nat
    BY <1>1, <1>3, <2>2, LeaveSlots
  <2>4. O = R + slotted /\ R \in Nat
    <3>1. R \in Nat BY <1>7, FS_CardinalityType
    <3> QED BY <1>11, <3>1
  <2>5. front(d) \in Seq(Values) /\ Count(w, front(d)) = backed
    <3>1. CASE d = c /\ back
      <4>1. v \in Values /\ front(d) = <<v>> BY <1>3, <1>10, <3>1
      <4>2. <<v>> \in Seq(Values) BY <4>1
      <4>3. Count(w, <<v>>) = If(v = w) BY CountOne
      <4> QED BY <3>1, <4>1, <4>2, <4>3 DEF If
    <3>2. CASE ~(d = c /\ back)
      <4>1. front(d) = <<>> BY <1>10, <3>2
      <4> QED BY <3>2, <4>1, CountEmpty DEF If
    <3> QED BY <3>1, <3>2
  <2>6. rest(d) \in Seq(Values) /\ Count(w, buf[d]) = tailed + Count(w, rest(d))
    <3>1. CASE d = c /\ from = "buf"
      <4>1. kind = "recv" /\ buf[d] # <<>> /\ v = Head(buf[d]) /\ rest(d) = Tail(buf[d]) BY <1>4, <1>5, <1>10, <3>1
      <4>2. Tail(buf[d]) \in Seq(Values) BY <2>1, <4>1, HeadOnTail
      <4>3. Count(w, buf[d]) = If(Head(buf[d]) = w) + Count(w, Tail(buf[d])) BY <2>1, <4>1, CountTail
      <4> QED BY <3>1, <4>1, <4>2, <4>3 DEF If
    <3>2. CASE ~(d = c /\ from = "buf")
      <4>1. rest(d) = buf[d] BY <1>10, <1>17, <3>2
      <4>2. Count(w, buf[d]) \in Nat BY <2>1, PlacesFacts
      <4> QED BY <2>1, <3>2, <4>1, <4>2 DEF If
    <3> QED BY <3>1, <3>2
  <2>7. Count(w, buf'[d]) = backed + R + Count(w, rest(d))
    <3>1. front(d) \o G(d) \in Seq(Values) BY <2>1, <2>5, ConcatProperties
    <3>2. Count(w, front(d) \o G(d)) = Count(w, front(d)) + Count(w, G(d)) BY <2>1, <2>5, CountConcat
    <3>3. Count(w, (front(d) \o G(d)) \o rest(d)) = Count(w, front(d) \o G(d)) + Count(w, rest(d))
      BY <2>6, <3>1, CountConcat
    <3> QED BY <1>7, <2>1, <2>5, <3>2, <3>3
  <2>8. Count(w, got'[d]) = Count(w, got[d]) + handed /\ Count(w, got[d]) \in Nat
    <3>1. CASE d = c /\ hands
      <4>1. v \in Values BY <1>3, <1>10, <3>1
      <4>2. Count(w, Append(got[d], v)) = Count(w, got[d]) + If(v = w) /\ Count(w, got[d]) \in Nat
        BY <2>1, <4>1, CountAppend
      <4> QED BY <2>1, <3>1, <4>2 DEF If
    <3>2. CASE ~(d = c /\ hands)
      <4>1. Count(w, got[d]) \in Nat BY <2>1, PlacesFacts
      <4> QED BY <2>1, <3>2, <4>1 DEF If
    <3> QED BY <3>1, <3>2
  <2>9. Count(w, accepted'[d]) = Count(w, accepted[d]) + taking /\ Count(w, accepted[d]) \in Nat
    <3>1. CASE d = c /\ takes
      <4>1. v \in Values BY <1>3, <1>10, <3>1
      <4>2. Count(w, Append(accepted[d], v)) = Count(w, accepted[d]) + If(v = w) /\ Count(w, accepted[d]) \in Nat
        BY <2>1, <4>1, CountAppend
      <4> QED BY <2>1, <3>1, <4>2 DEF If
    <3>2. CASE ~(d = c /\ takes)
      <4>1. Count(w, accepted[d]) \in Nat BY <2>1, PlacesFacts
      <4> QED BY <2>1, <3>2, <4>1 DEF If
    <3> QED BY <3>1, <3>2
  <2>10. Count(w, rest(d)) \in Nat BY <2>6, PlacesFacts
  <2>11. backed + handed + fills = slotted + tailed + taking BY <1>16, <1>17
  <2>12. Count(w, buf[d]) + S + Count(w, got[d]) = Count(w, accepted[d]) BY <2>2 DEF Held
  <2>13. Held(w, d)' = Count(w, buf'[d]) + T + Count(w, got'[d]) BY DEF Held
  <2>14. backed \in Nat /\ handed \in Nat /\ fills \in Nat /\ slotted \in Nat /\ tailed \in Nat /\ taking \in Nat
    BY DEF If
  <2> HIDE DEF S, T, O, R, fills, slotted, backed, handed, tailed, taking
  <2> DEFINE b == Count(w, buf[d])  b1 == Count(w, buf'[d])  r == Count(w, rest(d))
             g == Count(w, got[d])  g1 == Count(w, got'[d])
             a == Count(w, accepted[d])  a1 == Count(w, accepted'[d])
  <2>15. b1 + T + g1 = a1
    <3>1. b = tailed + r /\ b1 = backed + R + r /\ r \in Nat BY <2>6, <2>7, <2>10
    <3>2. g1 = g + handed /\ a1 = a + taking /\ g \in Nat /\ a \in Nat /\ b + S + g = a BY <2>8, <2>9, <2>12
    <3> HIDE DEF b, b1, r, g, g1, a, a1
    <3> QED BY <2>3, <2>4, <2>11, <2>14, <3>1, <3>2
  <2> QED BY <2>3, <2>13, <2>15 DEF Placed
<1> QED BY <1>12, <1>14, <1>15, <1>17 DEF ValuesInv, PlacedInv

\* What is of one channel alone.
LEMMA OneChannel ==
  ASSUME ValuesInv, UNCHANGED made, NEW c \in Chans, \A d \in Chans : d # c => SameOn(d),
         ~Rendezvous(c) => accepted'[c] = got'[c] \o buf'[c],
         Ticker(c) => Once(accepted'[c]),
         Rendezvous(c) => \A v \in Values : Placed(v, c)'
  PROVE  ValuesInv'
<1>1. \A d : Rendezvous(d)' = Rendezvous(d) /\ Ticker(d)' = Ticker(d) BY DEF Rendezvous, Room, Ticker
<1>2. FifoInv' BY <1>1 DEF ValuesInv, FifoInv, SameOn
<1>3. TicksInv' BY <1>1 DEF ValuesInv, TicksInv, SameOn
<1>4. PlacedInv'
  <2> SUFFICES ASSUME NEW d \in Chans, NEW v \in Values, Rendezvous(d) PROVE Placed(v, d)'
    BY <1>1 DEF PlacedInv
  <2>1. CASE d = c BY <2>1
  <2>2. CASE d # c
    <3>1. SlotsWith(v, d)' = SlotsWith(v, d) BY <2>2 DEF SameOn
    <3>2. Held(v, d)' = Held(v, d) BY <2>2, <3>1 DEF Held, SameOn
    <3>3. Placed(v, d) BY DEF ValuesInv, PlacedInv
    <3> QED BY <2>2, <3>1, <3>2, <3>3 DEF Placed, SameOn
  <2> QED BY <2>1, <2>2
<1> QED BY <1>2, <1>3, <1>4 DEF ValuesInv

\* Where calls and slots stay, so does what is in the slots.
LEMMA SlotsStay ==
  ASSUME slot' = slot, call' = call, NEW v, NEW c
  PROVE  SlotsWith(v, c)' = SlotsWith(v, c)
<1>1. \A a : IsCase(call'[a[1]], a[2], "recv", c) = IsCase(call[a[1]], a[2], "recv", c) BY DEF IsCase
<1> QED BY DEF SlotsWith, IsCase

\* A call that goes on waiting had no value in a slot: it would have been ready.
LEMMA SleepsValues ==
  ASSUME IInv, ValuesInv, NEW t \in Tasks, NEW k, Begins(t, k), Sleeps(t, k)
  PROVE  ValuesInv'
<1>1. call' = [call EXCEPT ![t] = k] /\ UNCHANGED <<made, buf, slot, accepted, got>> BY DEF Sleeps, Wait
<1>2. CallTypes /\ Shape(k) /\ k # None BY TypeParts, BeginsShape DEF IInv
<1>3. call = [u \in Tasks |-> call[u]] BY <1>2 DEF CallTypes
<1>4. \A u \in Tasks : call'[u] = IF u = t THEN k ELSE call[u] BY <1>1, <1>3
<1>5. ASSUME NEW c \in Chans, NEW v \in Values PROVE SlotsWith(v, c)' = SlotsWith(v, c)
  <2>1. ASSUME NEW a \in CaseIds, slot[a] = v PROVE call'[a[1]] = call[a[1]]
    <3>1. call[a[1]] # None /\ a[1] \in Tasks BY <2>1, SlotFacts, IdsNamed
    <3>2. a[1] = t => call[t] = k BY <3>1 DEF Begins
    <3> QED BY <1>4, <3>1, <3>2
  <2>2. \A a : a \in SlotsWith(v, c) <=>
          a \in CaseIds /\ slot[a] = v /\ call[a[1]] # None /\ IsCase(call[a[1]], a[2], "recv", c)
    BY DEF SlotsWith
  <2>3. \A a : a \in SlotsWith(v, c)' <=>
          a \in CaseIds /\ slot[a] = v /\ call'[a[1]] # None /\ IsCase(call'[a[1]], a[2], "recv", c)
    BY <1>1 DEF SlotsWith, IsCase
  <2> QED BY <2>1, <2>2, <2>3
<1> QED BY <1>1, <1>5, SameKeeps DEF SameOn

\* An alarm, a close and a stutter leave values and slots alone.
LEMMA QuietValues ==
  ASSUME ValuesInv, UNCHANGED <<made, buf, slot, call, accepted, got>>
  PROVE  ValuesInv'
<1>1. \A c \in Chans, v \in Values : SlotsWith(v, c)' = SlotsWith(v, c) BY SlotsStay
<1> QED BY <1>1, SameKeeps DEF SameOn

\* A try_send appends to the buffer, or fills the slot of one waiter.
LEMMA TrySendValues ==
  ASSUME IInv, ValuesInv, NEW c \in Chans, TrySend(c)
  PROVE  ValuesInv'
<1>0. TypeOK /\ ChanTypes /\ CallTypes BY TypeParts DEF IInv
<1>1. /\ ~Ticker(c) /\ UNCHANGED <<made, call, got>> /\ next \in Values BY TrySendTold DEF TrySend
<1>2. /\ buf \in [Chans -> Seq(Values)] /\ got \in [Chans -> Seq(Values)] /\ accepted \in [Chans -> Seq(Values)]
      /\ slot \in [CaseIds -> Values \cup {None}]
  BY <1>0 DEF ChanTypes, CallTypes
<1>3. \/ UNCHANGED <<buf, slot, accepted>>
      \/ /\ Rendezvous(c) /\ Fillable(None, c) # <<>> /\ buf' = buf
         /\ slot' = [slot EXCEPT ![Head(Fillable(None, c))] = next]
         /\ accepted' = [accepted EXCEPT ![c] = Append(accepted[c], next)]
      \/ /\ ~Rendezvous(c) /\ slot' = slot /\ buf' = [buf EXCEPT ![c] = Append(buf[c], next)]
         /\ accepted' = [accepted EXCEPT ![c] = Append(accepted[c], next)]
  BY DEF TrySend
<1>4. CASE UNCHANGED <<buf, slot, accepted>> BY <1>1, <1>4, QuietValues
<1>5. CASE /\ ~Rendezvous(c) /\ slot' = slot /\ buf' = [buf EXCEPT ![c] = Append(buf[c], next)]
           /\ accepted' = [accepted EXCEPT ![c] = Append(accepted[c], next)]
  <2>1. /\ buf'[c] = Append(buf[c], next) /\ accepted'[c] = Append(accepted[c], next)
        /\ \A d \in Chans : d # c => buf'[d] = buf[d] /\ accepted'[d] = accepted[d]
    BY <1>2, <1>5
  <2>2. \A d \in Chans, v \in Values : SlotsWith(v, d)' = SlotsWith(v, d) BY <1>1, <1>5, SlotsStay
  <2>3. \A d \in Chans : d # c => SameOn(d) BY <1>1, <2>1, <2>2 DEF SameOn
  <2>4. buf[c] \in Seq(Values) /\ got[c] \in Seq(Values) /\ accepted[c] = got[c] \o buf[c]
    BY <1>2, <1>5 DEF ValuesInv, FifoInv
  <2>5. \A g, s \in Seq(Values) : \A x \in Values : g \o Append(s, x) = Append(g \o s, x) BY PutTake
  <2>6. accepted'[c] = got'[c] \o buf'[c] BY <1>1, <2>1, <2>4, <2>5
  <2> QED BY <1>1, <1>5, <2>3, <2>6, OneChannel
<1>6. CASE /\ Rendezvous(c) /\ Fillable(None, c) # <<>> /\ buf' = buf
           /\ slot' = [slot EXCEPT ![Head(Fillable(None, c))] = next]
           /\ accepted' = [accepted EXCEPT ![c] = Append(accepted[c], next)]
  <2>1. PICK w : w = Head(Fillable(None, c)) OBVIOUS
  <2>2. w \in Range(waiters[c]) /\ slot[w] = None BY <1>6, <2>1, PairFacts
  <2>3. w \in CaseIds /\ w[1] \in Busy /\ IsCase(call[w[1]], w[2], "recv", c) BY <2>2, WaiterFacts
  <2>4. /\ slot'[w] = next /\ \A a \in CaseIds : a # w => slot'[a] = slot[a]
        /\ accepted'[c] = Append(accepted[c], next) /\ \A d \in Chans : d # c => accepted'[d] = accepted[d]
    BY <1>2, <1>6, <2>1, <2>3
  <2>5. ASSUME NEW d \in Chans, NEW v \in Values
        PROVE  SlotsWith(v, d)' = IF d = c /\ v = next THEN SlotsWith(v, d) \cup {w} ELSE SlotsWith(v, d)
    <3>1. \A a : a \in SlotsWith(v, d) <=>
            a \in CaseIds /\ slot[a] = v /\ call[a[1]] # None /\ IsCase(call[a[1]], a[2], "recv", d)
      BY DEF SlotsWith
    <3>2. \A a : a \in SlotsWith(v, d)' <=>
            a \in CaseIds /\ slot'[a] = v /\ call[a[1]] # None /\ IsCase(call[a[1]], a[2], "recv", d)
      BY <1>1 DEF SlotsWith, IsCase
    <3>3. v # None BY NoneAssumption
    <3>4. w \notin SlotsWith(v, d) BY <2>2, <3>1, <3>3
    <3>5. IsCase(call[w[1]], w[2], "recv", d) <=> d = c BY <2>3 DEF IsCase
    <3>6. w \in SlotsWith(v, d)' <=> d = c /\ v = next BY <2>3, <2>4, <3>2, <3>5 DEF Busy
    <3>7. \A a : a # w => (a \in SlotsWith(v, d)' <=> a \in SlotsWith(v, d)) BY <2>4, <3>1, <3>2
    <3> QED BY <3>4, <3>6, <3>7
  <2>6. \A d \in Chans : d # c => SameOn(d) BY <1>1, <1>6, <2>4, <2>5 DEF SameOn
  <2>7. ASSUME NEW v \in Values PROVE Placed(v, c)'
    <3> DEFINE S == SlotsWith(v, c)  fills == next = v
    <3>1. /\ IsFiniteSet(S) /\ Count(v, buf[c]) + Cardinality(S) + Count(v, got[c]) = Count(v, accepted[c])
      BY <1>6 DEF ValuesInv, PlacedInv, Placed, Held
    <3>2. /\ Count(v, accepted'[c]) = Count(v, accepted[c]) + If(fills) /\ Count(v, buf[c]) \in Nat
          /\ Count(v, got[c]) \in Nat /\ Count(v, accepted[c]) \in Nat
      BY <1>1, <1>2, <2>4, CountAppend, PlacesFacts
    <3>3. w \notin S
      <4>1. v # None BY NoneAssumption
      <4> QED BY <2>2, <4>1 DEF SlotsWith
    <3>4. /\ IsFiniteSet(SlotsWith(v, c)') /\ Cardinality(SlotsWith(v, c)') = Cardinality(S) + If(fills)
          /\ Cardinality(S) \in Nat
      <4>1. Cardinality(S) \in Nat BY <3>1, FS_CardinalityType
      <4>2. CASE fills
        <5>1. SlotsWith(v, c)' = S \cup {w} /\ If(fills) = 1 BY <2>5, <4>2 DEF If
        <5>2. IsFiniteSet(S \cup {w}) /\ Cardinality(S \cup {w}) = Cardinality(S) + 1 BY <3>1, <3>3, FS_AddElement
        <5> QED BY <4>1, <5>1, <5>2
      <4>3. CASE ~fills
        <5>1. SlotsWith(v, c)' = S /\ If(fills) = 0 BY <2>5, <4>3 DEF If
        <5> QED BY <3>1, <4>1, <5>1
      <4> QED BY <4>2, <4>3
    <3>5. Held(v, c)' = Count(v, buf[c]) + Cardinality(SlotsWith(v, c)') + Count(v, got[c]) BY <1>1, <1>6 DEF Held
    <3>6. If(fills) \in Nat BY DEF If
    <3> HIDE DEF S, fills
    <3>7. Held(v, c)' = Count(v, accepted'[c]) BY <3>1, <3>2, <3>4, <3>5, <3>6
    <3> QED BY <3>4, <3>7 DEF Placed
  <2> QED BY <1>1, <1>6, <2>6, <2>7, OneChannel
<1> QED BY <1>3, <1>4, <1>5, <1>6

\* Nothing is dropped from a sequence that is in S throughout.
LEMMA KeepValues ==
  ASSUME NEW T, NEW s \in Seq(T)
  PROVE  Keep(s, T) = s
<1> DEFINE f == CHOOSE f : KeptUpTo(f, s, T, Len(s))
<1>1. Len(s) \in Nat /\ \A i \in 1..Len(s) : s[i] \in T BY LenProperties, ElementOfSeq
<1>2. KeptUpTo(f, s, T, Len(s)) /\ Keep(s, T) = f[Len(s)] BY <1>1, KeptExists, KeepUnfolds
<1> HIDE DEF f
<1>3. Len(s) \in 0..Len(s) BY <1>1
<1>4. f[Len(s)] \in Seq(T) BY <1>2, <1>3, KeptFacts
<1>5. Len(f[Len(s)]) = Len(s) /\ \A i \in 1..Len(s) : f[Len(s)][i] = s[i] BY <1>1, <1>2, <1>3, KeptAll
<1> QED BY <1>2, <1>4, <1>5, SeqEqual

\* A try_recv takes the front, or an offer: the value is accepted and handed over at once.
LEMMA TryRecvValues ==
  ASSUME IInv, ValuesInv, NEW c \in Chans, TryRecv(c)
  PROVE  ValuesInv'
<1>0. TypeOK /\ ChanTypes BY TypeParts DEF IInv
<1>1. UNCHANGED <<made, slot, call>> BY DEF TryRecv
<1>2. buf \in [Chans -> Seq(Values)] /\ got \in [Chans -> Seq(Values)] /\ accepted \in [Chans -> Seq(Values)]
  BY <1>0 DEF ChanTypes
<1>3. \A d \in Chans, v \in Values : SlotsWith(v, d)' = SlotsWith(v, d) BY <1>1, SlotsStay
<1>4. CASE buf[c] # <<>>
  <2>1. /\ UNCHANGED accepted /\ buf' = [buf EXCEPT ![c] = Tail(buf[c])]
        /\ got' = [got EXCEPT ![c] = Append(got[c], Head(buf[c]))]
    BY <1>4 DEF TryRecv
  <2>2. /\ buf'[c] = Tail(buf[c]) /\ got'[c] = Append(got[c], Head(buf[c]))
        /\ \A d \in Chans : d # c => buf'[d] = buf[d] /\ got'[d] = got[d]
    BY <1>2, <2>1
  <2>3. \A d \in Chans : d # c => SameOn(d) BY <1>3, <2>1, <2>2 DEF SameOn
  <2>4. buf[c] \in Seq(Values) /\ got[c] \in Seq(Values) /\ Head(buf[c]) \in Values BY <1>2, <1>4, HeadOnTail
  <2>5. ASSUME ~Rendezvous(c) PROVE accepted'[c] = got'[c] \o buf'[c]
    <3>1. \A g, s \in Seq(Values) : s # <<>> => Append(g, Head(s)) \o Tail(s) = g \o s BY PutTake
    <3>2. Append(got[c], Head(buf[c])) \o Tail(buf[c]) = got[c] \o buf[c] BY <1>4, <2>4, <3>1
    <3> QED BY <2>1, <2>2, <2>5, <3>2 DEF ValuesInv, FifoInv
  <2>6. Ticker(c) => Once(accepted'[c]) BY <2>1 DEF ValuesInv, TicksInv
  <2>7. ASSUME Rendezvous(c), NEW v \in Values PROVE Placed(v, c)'
    <3> DEFINE S == Cardinality(SlotsWith(v, c))  x == If(Head(buf[c]) = v)
    <3>1. /\ IsFiniteSet(SlotsWith(v, c)) /\ Count(v, buf[c]) + S + Count(v, got[c]) = Count(v, accepted[c])
      BY <2>7 DEF ValuesInv, PlacedInv, Placed, Held
    <3>2. Count(v, buf[c]) = x + Count(v, Tail(buf[c])) /\ Count(v, Tail(buf[c])) \in Nat
      BY <1>4, <2>4, CountTail
    <3>3. Count(v, got'[c]) = Count(v, got[c]) + x /\ Count(v, got[c]) \in Nat BY <2>2, <2>4, CountAppend
    <3>4. S \in Nat /\ x \in Nat BY <3>1, FS_CardinalityType DEF If
    <3>5. Held(v, c)' = Count(v, Tail(buf[c])) + S + Count(v, got'[c]) BY <1>3, <2>2 DEF Held
    <3> HIDE DEF S, x
    <3>6. Held(v, c)' = Count(v, accepted[c])
      <4> DEFINE b == Count(v, buf[c])  r == Count(v, Tail(buf[c]))  g == Count(v, got[c])  g1 == Count(v, got'[c])
      <4>1. b + S + g = Count(v, accepted[c]) /\ b = x + r /\ r \in Nat /\ g1 = g + x /\ g \in Nat
        BY <3>1, <3>2, <3>3
      <4>2. Held(v, c)' = r + S + g1 BY <3>5
      <4> HIDE DEF b, r, g, g1
      <4> QED BY <3>4, <4>1, <4>2
    <3> QED BY <1>3, <2>1, <3>1, <3>6 DEF Placed
  <2> QED BY <1>1, <2>3, <2>5, <2>6, <2>7, OneChannel
<1>5. CASE buf[c] = <<>>
  <2>1. PICK o \in Range(offers[c]) : \E v :
           /\ v = call[o[1]].vals[o[2]] /\ buf' = buf
           /\ accepted' = [accepted EXCEPT ![c] = Append(accepted[c], v)]
           /\ got' = [got EXCEPT ![c] = Append(got[c], v)]
    BY <1>5, TakeEffect
  <2>2. PICK v : /\ v = call[o[1]].vals[o[2]] /\ buf' = buf
                 /\ accepted' = [accepted EXCEPT ![c] = Append(accepted[c], v)]
                 /\ got' = [got EXCEPT ![c] = Append(got[c], v)]
    BY <2>1
  <2>3. v \in Values /\ Rendezvous(c) BY <2>2, OfferFacts
  <2>4. ~Ticker(c) BY <1>0, <2>3, ChanFacts DEF Rendezvous
  <2>5. /\ accepted'[c] = Append(accepted[c], v) /\ got'[c] = Append(got[c], v)
        /\ \A d \in Chans : d # c => accepted'[d] = accepted[d] /\ got'[d] = got[d]
    BY <1>2, <2>2
  <2>6. \A d \in Chans : d # c => SameOn(d) BY <1>3, <2>2, <2>5 DEF SameOn
  <2>7. ASSUME NEW w \in Values PROVE Placed(w, c)'
    <3> DEFINE S == Cardinality(SlotsWith(w, c))  x == If(v = w)
    <3>1. /\ IsFiniteSet(SlotsWith(w, c)) /\ Count(w, buf[c]) + S + Count(w, got[c]) = Count(w, accepted[c])
      BY <2>3 DEF ValuesInv, PlacedInv, Placed, Held
    <3>2. Count(w, accepted'[c]) = Count(w, accepted[c]) + x /\ Count(w, accepted[c]) \in Nat
      BY <1>2, <2>3, <2>5, CountAppend
    <3>3. Count(w, got'[c]) = Count(w, got[c]) + x /\ Count(w, got[c]) \in Nat
      BY <1>2, <2>3, <2>5, CountAppend
    <3>4. Count(w, buf[c]) \in Nat BY <1>2, PlacesFacts
    <3>5. S \in Nat /\ x \in Nat BY <3>1, FS_CardinalityType DEF If
    <3>6. Held(w, c)' = Count(w, buf[c]) + S + Count(w, got'[c]) BY <1>3, <2>2 DEF Held
    <3> HIDE DEF S, x
    <3>7. Held(w, c)' = Count(w, accepted'[c]) BY <3>1, <3>2, <3>3, <3>4, <3>5, <3>6
    <3> QED BY <1>3, <3>1, <3>7 DEF Placed
  <2> QED BY <1>1, <2>3, <2>4, <2>6, <2>7, OneChannel
<1> QED BY <1>4, <1>5

\* A tick behind what was received: the unread one before it, if any, is forgotten.
LEMMA TickValues ==
  ASSUME IInv, ValuesInv, NEW c \in Chans, Tick(c)
  PROVE  ValuesInv'
<1> DEFINE old == IF Len(buf[c]) >= Room(c) THEN {Last(buf[c])} ELSE {}
           others == Values \ old
<1>0. TypeOK /\ ChanTypes /\ FreshInv BY TypeParts DEF IInv
<1>1. /\ Ticker(c) /\ ~Rendezvous(c) /\ next \in Values /\ Len(buf[c]) <= 1 /\ Room(c) = 1
      /\ \A d \in Chans : d # c => buf'[d] = buf[d] /\ accepted'[d] = accepted[d]
      /\ UNCHANGED <<made, slot, call, got>>
  BY TickEffect
<1>2. buf \in [Chans -> Seq(Values)] /\ got \in [Chans -> Seq(Values)] /\ accepted \in [Chans -> Seq(Values)]
  BY <1>0 DEF ChanTypes
<1>3. /\ buf'[c] = Append(Keep(buf[c], others), next)
      /\ accepted'[c] = Append(Keep(accepted[c], others), next)
  BY <1>2 DEF Tick
<1>4. accepted[c] = got[c] \o buf[c] /\ Once(accepted[c]) BY <1>1 DEF ValuesInv, FifoInv, TicksInv
<1>5. buf[c] \in Seq(Values) /\ got[c] \in Seq(Values) /\ Len(buf[c]) \in Nat BY <1>2, LenProperties
<1>6. Range(got[c]) \subseteq Values BY <1>5, RangeOfSeq
<1>7. Keep(accepted[c], others) = got[c] /\ Keep(buf[c], others) = <<>>
  <2>1. CASE Len(buf[c]) = 0
    <3>1. buf[c] = <<>> /\ others = Values BY <1>1, <1>5, <2>1, EmptySeq
    <3>2. accepted[c] = got[c] BY <1>4, <1>5, <3>1, ConcatEmptySeq
    <3>3. \A s \in Seq(Values) : Keep(s, Values) = s BY KeepValues
    <3> QED BY <1>5, <3>1, <3>2, <3>3
  <2>2. CASE Len(buf[c]) = 1
    <3> DEFINE x == buf[c][1]
    <3>1. others = Values \ {x} /\ x \in Values
      <4>1. old = {x} BY <1>1, <2>2 DEF Last
      <4>2. x \in Values BY <1>5, <2>2, ElementOfSeq
      <4> QED BY <4>1, <4>2
    <3>2. buf[c] = <<x>>
      <4>1. <<x>> \in Seq(Values) /\ Len(<<x>>) = 1 /\ <<x>>[1] = x BY <3>1
      <4>2. \A i \in 1..1 : i = 1 OBVIOUS
      <4> QED BY <1>5, <2>2, <4>1, <4>2, SeqEqual
    <3> HIDE DEF x, others
    <3>3. accepted[c] = Append(got[c], x)
      <4>1. Append(got[c], x) = got[c] \o <<x>> BY <1>5, <3>1, AppendIsConcat
      <4> QED BY <1>4, <3>2, <4>1
    <3>4. x \notin Range(got[c])
      <4>1. /\ Len(got[c]) \in Nat /\ DOMAIN got[c] = 1..Len(got[c])
            /\ DOMAIN accepted[c] = 1..(Len(got[c]) + 1)
            /\ \A i \in 1..Len(got[c]) : accepted[c][i] = got[c][i]
            /\ accepted[c][Len(got[c]) + 1] = x
        BY <1>5, <3>1, <3>3, AppendProperties, LenProperties
      <4> SUFFICES ASSUME NEW i \in DOMAIN got[c], got[c][i] = x PROVE FALSE BY DEF Range
      <4>2. /\ i \in DOMAIN accepted[c] /\ Len(got[c]) + 1 \in DOMAIN accepted[c]
            /\ i # Len(got[c]) + 1
        BY <4>1
      <4> QED BY <1>4, <4>1, <4>2 DEF Once
    <3>5. x \notin others /\ Range(got[c]) \subseteq others BY <1>6, <3>1, <3>4
    <3>6. Keep(Append(got[c], x), others) = got[c] BY <1>5, <3>1, <3>5, KeepFront
    <3>7. Keep(<<x>>, others) = <<>>
      <4>1. <<>> \in Seq(Values) /\ Range(<<>>) \subseteq others /\ Append(<<>>, x) = <<x>> BY DEF Range
      <4>2. Keep(Append(<<>>, x), others) = <<>> BY <3>1, <3>5, <4>1, KeepFront
      <4> QED BY <4>1, <4>2
    <3> QED BY <3>2, <3>3, <3>6, <3>7
  <2>3. Len(buf[c]) = 0 \/ Len(buf[c]) = 1
    <3>1. \A n \in Nat : n <= 1 => n = 0 \/ n = 1 OBVIOUS
    <3> QED BY <1>1, <1>5, <3>1
  <2> HIDE DEF others, old
  <2> QED BY <2>1, <2>2, <2>3
<1> HIDE DEF others, old
<1>8. accepted'[c] = got'[c] \o buf'[c]
  <2>1. buf'[c] = <<next>> /\ accepted'[c] = Append(got[c], next) BY <1>3, <1>7
  <2>2. Append(got[c], next) = got[c] \o <<next>> BY <1>1, <1>5, AppendIsConcat
  <2> QED BY <1>1, <2>1, <2>2
<1>9. Once(accepted'[c])
  <2>1. next >= next BY <1>0, MaxValuesAssumption DEF ChanTypes
  <2>2. next \notin Range(accepted[c]) BY <1>0, <1>1, <2>1 DEF FreshInv
  <2>3. Once(got[c]) /\ Range(got[c]) \subseteq Range(accepted[c])
    <3>1. accepted[c] \in Seq(Values) BY <1>2
    <3>2. Once(Keep(accepted[c], others)) BY <1>4, <3>1, KeepOnce
    <3>3. Range(Keep(accepted[c], others)) = Range(accepted[c]) \cap others BY <3>1, KeepFacts
    <3> QED BY <1>7, <3>2, <3>3
  <2>4. accepted'[c] = Append(got[c], next) BY <1>3, <1>7
  <2>5. /\ Len(got[c]) \in Nat /\ DOMAIN got[c] = 1..Len(got[c])
        /\ DOMAIN Append(got[c], next) = 1..(Len(got[c]) + 1)
        /\ \A i \in 1..Len(got[c]) : Append(got[c], next)[i] = got[c][i]
        /\ Append(got[c], next)[Len(got[c]) + 1] = next
    BY <1>1, <1>5, AppendProperties, LenProperties
  <2>6. \A i \in 1..Len(got[c]) : got[c][i] # next BY <2>2, <2>3, <2>5 DEF Range
  <2>7. \A i \in 1..(Len(got[c]) + 1) : i \in 1..Len(got[c]) \/ i = Len(got[c]) + 1 BY <2>5
  <2>8. \A i, j \in 1..Len(got[c]) : got[c][i] = got[c][j] => i = j BY <2>3, <2>5 DEF Once
  <2> QED BY <2>4, <2>5, <2>6, <2>7, <2>8 DEF Once
<1>10. \A d \in Chans, v \in Values : SlotsWith(v, d)' = SlotsWith(v, d) BY <1>1, SlotsStay
<1>11. \A d \in Chans : d # c => SameOn(d) BY <1>1, <1>10 DEF SameOn
<1> QED BY <1>1, <1>8, <1>9, <1>11, OneChannel

LEMMA InitValues ==
  ASSUME Init
  PROVE  ValuesInv
<1>1. \A c \in Chans : buf[c] = <<>> /\ accepted[c] = <<>> /\ got[c] = <<>> BY DEF Init
<1>2. \A t \in Tasks : call[t] = None BY DEF Init
<1>3. \A c \in Chans, v \in Values : SlotsWith(v, c) = {}
  <2>1. \A a \in CaseIds : call[a[1]] = None BY <1>2, IdsNamed
  <2> QED BY <2>1 DEF SlotsWith
<1>4. FifoInv
  <2>1. <<>> \o <<>> = <<>> OBVIOUS
  <2> QED BY <1>1, <2>1 DEF FifoInv
<1>5. TicksInv BY <1>1 DEF TicksInv, Once
<1>6. PlacedInv
  <2>1. IsFiniteSet({}) /\ Cardinality({}) = 0 BY FS_EmptySet
  <2> SUFFICES ASSUME NEW c \in Chans, NEW v \in Values PROVE Placed(v, c) BY DEF PlacedInv
  <2>2. /\ Count(v, buf[c]) = 0 /\ Count(v, got[c]) = 0 /\ Count(v, accepted[c]) = 0
        /\ SlotsWith(v, c) = {}
    BY <1>1, <1>3, CountEmpty
  <2> QED BY <2>1, <2>2 DEF Placed, Held
<1> QED BY <1>4, <1>5, <1>6 DEF ValuesInv

LEMMA NextValues ==
  ASSUME IInv, ValuesInv, [Next]_vars
  PROVE  ValuesInv'
<1>1. TypeOK BY DEF IInv
<1>2. ASSUME NEW t \in Tasks, NEW k, Moves(t, k) PROVE ValuesInv'
  <2>1. ASSUME NEW i, NEW polled, NEW raised, Chooses(t, k, i, polled, raised) PROVE ValuesInv'
    BY <1>2, <2>1, ChooseValues DEF Moves
  <2>2. ASSUME NEW what, Ends(t, k, what) PROVE ValuesInv'
    BY <1>2, <2>2, EndsValues DEF Moves
  <2>3. ASSUME Sleeps(t, k) PROVE ValuesInv'
    BY <1>2, <2>3, SleepsValues DEF Moves
  <2> QED BY <1>2, <2>1, <2>2, <2>3 DEF Moves
<1>3. ASSUME NEW t \in Tasks, Expire(t) \/ Cancel(t) PROVE ValuesInv'
  <2>1. UNCHANGED <<made, buf, slot, call, accepted, got>> BY <1>3 DEF Expire, Cancel, chanVars, ghosts
  <2> QED BY <2>1, QuietValues
<1>4. ASSUME NEW c \in Chans, TrySend(c) PROVE ValuesInv'
  BY <1>4, TrySendValues
<1>5. ASSUME NEW c \in Chans, TryRecv(c) PROVE ValuesInv'
  BY <1>5, TryRecvValues
<1>6. ASSUME NEW c \in Chans, Close(c) PROVE ValuesInv'
  <2>1. UNCHANGED <<made, buf, slot, call, accepted, got>> BY <1>6 DEF Close, ghosts
  <2> QED BY <2>1, QuietValues
<1>7. ASSUME NEW c \in Chans, Tick(c) PROVE ValuesInv'
  BY <1>7, TickValues
<1>8. ASSUME UNCHANGED vars PROVE ValuesInv'
  <2>1. UNCHANGED <<made, buf, slot, call, accepted, got>> BY <1>8 DEF vars, chanVars, callVars, ghosts
  <2> QED BY <2>1, QuietValues
<1> QED BY <1>1, <1>2, <1>3, <1>4, <1>5, <1>6, <1>7, <1>8, NextCases

\* A value is neither lost, duplicated nor overtaken: what a buffered channel accepted is
\* what was received from it and what it holds, in that order, also when a select puts back
\* what it was given (chan.rs unrecv) or a tick replaces another (run_ticker); and what a
\* rendezvous channel accepted is in the front, in the slot of one waiter, or in the hands
\* of one receiver (chan.rs take_offer, Receiving::withdraw).
THEOREM InOrderAlways == Spec => []InOrder
<1>1. Init => ValuesInv BY InitValues
<1>2. IInv /\ ValuesInv /\ [Next]_vars => ValuesInv' BY NextValues
<1>3. ValuesInv => InOrder BY DEF ValuesInv, FifoInv, PlacedInv, Placed, Held, InOrder
<1> QED BY <1>1, <1>2, <1>3, Invariant, PTL DEF Spec
=============================================================================
