----------------------------- MODULE TaskProofs -----------------------------
(***************************************************************************)
(* Proofs about tasks: Scope, the tasks of a run and their deadlines, and  *)
(* TaskLib, the handles Lua code has of them.  For any tree of tasks and   *)
(* any graces: the types, that a completed scope left nothing behind, that *)
(* a drain told every task to stop, and that no scope outlasts an ancestor.*)
(* For any handles and coroutines: the types, that an unjoined handle is   *)
(* never unknown, that an outcome is told once and as it was, and that a   *)
(* task left alone is cancelled.                                           *)
(***************************************************************************)
EXTENDS Scope, TaskLib, WellFoundedInduction, TLAPS

(***************************************************************************)
(* Scope.                                                                  *)
(***************************************************************************)
USE RootAssumption, GracesAssumption, LastTickAssumption, NoneAssumption

(***************************************************************************)
(* The inductive strengthening.                                            *)
(***************************************************************************)
\* Scopes whose body was never polled: they have no tasks.
Childless == {"unborn", "fresh", "unpolled"}

\* A future that is gone is marked done, and a completed one awaited all its tasks.
FutInv ==
  /\ \A s \in Ids : s \in done <=> fut[s] \in {"ready", "dropped", "unpolled"}
  /\ polling # None => fut[polling] = "body"
  /\ \A s \in Ids : fut[s] = "ready" => kids[s] \subseteq done

Child(c, s) == c \in Tasks /\ s \notin anc[s] /\ anc[c] = anc[s] \cup {s} /\ fut[c] # "unborn"

\* The tree of the scopes: a task that left the list of its parent is done.
TreeInv ==
  /\ \A s, t \in Ids : s \in anc[t] => anc[s] \subseteq anc[t] /\ s # t /\ fut[s] \notin Childless
  /\ \A s, t \in Ids : t \in kids[s] => Child(t, s)
  /\ \A s, t \in Ids : s \in anc[t] => \E c \in anc[t] \cup {t} : Child(c, s) /\ (c \in kids[s] \/ c \in done)
  /\ \A t \in Ids : fut[t] = "unborn" => anc[t] = {}

\* A deadline was taken by a scope that was polled, from a clock that only advances.
DeadlineInv ==
  /\ \A s \in Ids : deadline[s] # None => deadline[s] <= now + grace[s] /\ fut[s] \notin Childless
  /\ \A s \in Ids : fut[s] = "drain" => deadline[s] # None

IInv ==
  /\ TypeOK /\ FutInv /\ TreeInv /\ DeadlineInv
  /\ DrainCancels /\ CompletedIsQuiet /\ OneDeadline

LEMMA InitIInv == Init => IInv
<1> SUFFICES ASSUME Init PROVE IInv
  OBVIOUS
<1>1. TypeOK
  BY DEF Init, TypeOK, Ids, Futures
<1>2. FutInv /\ DeadlineInv
  BY DEF Init, FutInv, DeadlineInv
<1>3. TreeInv
  BY DEF Init, TreeInv
<1>4. DrainCancels /\ CompletedIsQuiet /\ OneDeadline
  BY DEF Init, DrainCancels, CompletedIsQuiet, OneDeadline, NoLaterThanAncestors, LiveAncestors
<1> QED BY <1>1, <1>2, <1>3, <1>4 DEF IInv

(***************************************************************************)
(* Deadlines.                                                              *)
(***************************************************************************)
\* The least of a set of instants is one of them.
LEMMA MinIsLeast ==
  ASSUME NEW S \in SUBSET Nat, S # {}
  PROVE  Min(S) \in S /\ \A y \in S : Min(S) <= y
<1> DEFINE R == {ss \in Nat \X Nat : ss[1] < ss[2]}
<1>1. IsWellFoundedOn(R, Nat)
  BY NatLessThanWellFounded DEF OpToRel
<1>2. \A y, x \in Nat : y < x => <<y, x>> \in R
  OBVIOUS
<1> HIDE DEF R
<1>3. PICK x \in S : \A y \in S : <<y, x>> \notin R
  BY <1>1, WFMin
<1>4. \A y \in S : x <= y
  <2> SUFFICES ASSUME NEW y \in S PROVE x <= y
    OBVIOUS
  <2>1. x \in Nat /\ y \in Nat
    OBVIOUS
  <2>2. ~(y < x)
    BY <1>2, <1>3, <2>1
  <2> QED BY <2>1, <2>2
<1> QED BY <1>4 DEF Min

\* A scope's own deadline is no later than its grace allows, nor than that of any ancestor.
LEMMA OwnDeadlineClamps ==
  ASSUME TypeOK, NEW s \in Ids
  PROVE  /\ OwnDeadline(s) \in Nat
         /\ OwnDeadline(s) <= now + grace[s]
         /\ \A a \in LiveAncestors(s) : deadline[a] # None => OwnDeadline(s) <= deadline[a]
         /\ OwnDeadline(s) = now + grace[s]
            \/ \E a \in LiveAncestors(s) : deadline[a] # None /\ OwnDeadline(s) = deadline[a]
<1> DEFINE S == Deadlines(LiveAncestors(s)) \cup {now + grace[s]}
<1>1. LiveAncestors(s) \subseteq Ids
  <2>1. anc[s] \subseteq Ids
    BY DEF TypeOK
  <2> QED BY <2>1 DEF LiveAncestors
<1>2. now + grace[s] \in Nat
  <2>1. grace[s] \in Nat /\ now \in Nat
    BY DEF TypeOK
  <2> QED BY <2>1
<1>3. S \in SUBSET Nat /\ S # {}
  BY <1>1, <1>2 DEF Deadlines, TypeOK
<1>4. Min(S) \in S /\ \A y \in S : Min(S) <= y
  <2> HIDE DEF S
  <2> QED BY <1>3, MinIsLeast
<1>5. OwnDeadline(s) = Min(S)
  BY DEF OwnDeadline
<1>6. \A a \in LiveAncestors(s) : deadline[a] # None => deadline[a] \in S
  BY DEF Deadlines
<1>7. \A d \in S : d = now + grace[s] \/ \E a \in LiveAncestors(s) : deadline[a] # None /\ d = deadline[a]
  BY DEF Deadlines
<1> HIDE DEF S
<1>8. now + grace[s] \in S
  BY DEF S
<1> QED BY <1>2, <1>3, <1>4, <1>5, <1>6, <1>7, <1>8

(***************************************************************************)
(* Steps that spawn nothing.                                               *)
(***************************************************************************)
\* How the future of one scope may move while the tree stays as it is.
Moves(s) ==
  /\ fut'[s] # fut[s] =>
       \/ fut[s] \in {"unborn", "fresh"} /\ fut'[s] = "unpolled"
       \/ fut[s] \in {"fresh", "body", "drain"} /\ fut'[s] \in {"body", "drain", "ready", "dropped"}
  /\ \A x \in Ids \ {s} : fut'[x] = fut[x]

TakesDeadline(s) == deadline[s] = None /\ deadline' = [deadline EXCEPT ![s] = OwnDeadline(s)]

\* What the moves leave of a future.
LEMMA MovesFacts ==
  ASSUME NEW s \in Ids, Moves(s), NEW x \in Ids
  PROVE  /\ fut'[x] \in Childless => fut[x] \in Childless
         /\ fut'[x] = "unborn" => fut[x] = "unborn"
         /\ fut[x] = "unborn" => fut'[x] \in {"unborn", "unpolled"}
         /\ fut[x] = "dropped" => fut'[x] = "dropped"
         /\ fut[x] = "ready" => fut'[x] = "ready"
         /\ x # s /\ fut'[x] = "ready" => fut[x] = "ready"
         /\ Alive(x)' => Alive(x)
BY DEF Moves, Childless, Alive

LEMMA TreeKeeps ==
  ASSUME TreeInv, NEW s \in Ids, Moves(s), UNCHANGED <<anc, kids>>, done \subseteq done',
         anc \in [Ids -> SUBSET Ids]
  PROVE  TreeInv'
<1>1. Tasks \subseteq Ids
  BY DEF Ids
<1>2. ASSUME NEW x \in Ids, NEW c \in Ids, Child(c, x) PROVE Child(c, x)'
  BY <1>2, MovesFacts DEF Child
<1>3. \A x, t \in Ids : x \in anc'[t] => anc'[x] \subseteq anc'[t] /\ x # t /\ fut'[x] \notin Childless
  BY MovesFacts DEF TreeInv
<1>4. \A x, t \in Ids : t \in kids'[x] => Child(t, x)'
  BY <1>2 DEF TreeInv
<1>5. ASSUME NEW x \in Ids, NEW t \in Ids, x \in anc'[t]
      PROVE  \E c \in anc'[t] \cup {t} : Child(c, x)' /\ (c \in kids'[x] \/ c \in done')
  <2>1. PICK c \in anc[t] \cup {t} : Child(c, x) /\ (c \in kids[x] \/ c \in done)
    BY <1>5 DEF TreeInv
  <2>2. c \in Ids
    BY <1>1, <2>1 DEF Child
  <2> QED BY <1>2, <2>1, <2>2
<1>6. \A t \in Ids : fut'[t] = "unborn" => anc'[t] = {}
  BY MovesFacts DEF TreeInv
<1>7. Childless' = Childless
  BY DEF Childless
<1> QED BY <1>3, <1>4, <1>5, <1>6, <1>7 DEF TreeInv

\* A scope that completes has awaited its tasks; what is left below them is below a dropped one.
LEMMA QuietKeeps ==
  ASSUME TreeInv, CompletedIsQuiet, FutInv', NEW s \in Ids, Moves(s), UNCHANGED <<anc, kids>>,
         done \subseteq done', anc \in [Ids -> SUBSET Ids]
  PROVE  CompletedIsQuiet'
<1> SUFFICES ASSUME NEW x \in Ids, NEW t \in Ids, fut'[x] = "ready", x \in anc[t], Alive(t)'
             PROVE  \E b \in anc[t] : x \in anc[b] /\ fut'[b] = "dropped"
  BY DEF CompletedIsQuiet
<1>0. Alive(t)
  BY MovesFacts
<1>1. ASSUME NEW y \in Ids, y \in anc[t], fut[y] = "ready"
      PROVE  \E b \in anc[t] : y \in anc[b] /\ fut'[b] = "dropped"
  <2>1. PICK b \in anc[t] : y \in anc[b] /\ fut[b] = "dropped"
    BY <1>0, <1>1 DEF CompletedIsQuiet
  <2>2. b \in Ids
    OBVIOUS
  <2> QED BY <2>1, <2>2, MovesFacts
<1>2. CASE fut[x] = "ready"
  BY <1>1, <1>2
<1>3. CASE fut[x] # "ready"
  <2>1. x = s
    BY <1>3, MovesFacts
  <2>2. PICK c \in anc[t] \cup {t} : Child(c, x) /\ (c \in kids[x] \/ c \in done)
    BY DEF TreeInv
  <2>3. c \in Ids /\ x \in anc[c] /\ c # x
    BY <2>2 DEF Child, Ids
  <2>4. c \in done'
    BY <2>2 DEF FutInv
  <2>5. fut'[c] \in {"ready", "dropped", "unpolled"}
    BY <2>3, <2>4 DEF FutInv
  <2>6. c \in anc[t]
    BY <2>2, <2>5 DEF Alive
  <2>7. fut[c] \notin Childless
    BY <2>3, <2>6 DEF TreeInv
  <2>8. fut'[c] # "unpolled"
    BY <2>3, <2>7, MovesFacts DEF Childless
  <2>9. CASE fut'[c] = "dropped"
    BY <2>3, <2>6, <2>9
  <2>10. CASE fut'[c] = "ready"
    <3>1. fut[c] = "ready"
      BY <2>1, <2>3, <2>10, MovesFacts
    <3>2. PICK b \in anc[t] : c \in anc[b] /\ fut'[b] = "dropped"
      BY <1>1, <2>3, <2>6, <3>1
    <3>3. x \in anc[b]
      BY <2>3, <3>2 DEF TreeInv
    <3> QED BY <3>2, <3>3
  <2> QED BY <2>5, <2>8, <2>9, <2>10
<1> QED BY <1>2, <1>3

\* An ancestor of an ancestor still reached is still reached.
LEMMA LiveIsTransitive ==
  ASSUME TypeOK, TreeInv, NEW t \in Ids, NEW a \in LiveAncestors(t), NEW b \in LiveAncestors(a)
  PROVE  b \in LiveAncestors(t)
<1>1. a \in Ids /\ a \in anc[t] /\ anc[t] \subseteq Ids
  BY DEF LiveAncestors, TypeOK
<1>2. b \in anc[a] /\ anc[a] \subseteq anc[t]
  BY <1>1 DEF LiveAncestors, TreeInv
<1>3. \A d \in anc[t] : fut[d] = "dropped" => d \in anc[a]
  BY DEF LiveAncestors
<1>4. \A d \in anc[a] : fut[d] = "dropped" => d \in anc[b]
  BY DEF LiveAncestors
<1> QED BY <1>2, <1>3, <1>4 DEF LiveAncestors

LEMMA DeadlineKeeps ==
  ASSUME IInv, TypeOK', NEW s \in Ids, Moves(s), UNCHANGED <<anc, grace>>, now <= now',
         deadline' = deadline \/ (TakesDeadline(s) /\ fut'[s] \notin Childless),
         fut'[s] = "drain" => deadline'[s] # None
  PROVE  DeadlineInv' /\ OneDeadline'
<1> USE DEF IInv
<1>1. \A x \in Ids : /\ grace[x] \in Nat /\ now + grace[x] \in Nat /\ now' + grace[x] \in Nat
                     /\ deadline[x] # None => deadline[x] \in Nat
                     /\ deadline'[x] # None => deadline'[x] \in Nat
                     /\ now + grace[x] <= now' + grace[x]
                     /\ LiveAncestors(x) \subseteq Ids
  <2>1. \A x \in Ids : anc[x] \subseteq Ids /\ grace[x] \in Nat
    BY DEF TypeOK
  <2>2. now \in Nat /\ now' \in Nat
    BY DEF TypeOK
  <2>3. \A x \in Ids : /\ deadline[x] # None => deadline[x] \in Nat
                       /\ deadline'[x] # None => deadline'[x] \in Nat
    BY DEF TypeOK
  <2>4. \A x \in Ids : LiveAncestors(x) \subseteq Ids
    BY <2>1 DEF LiveAncestors
  <2> HIDE DEF IInv
  <2> QED BY <2>1, <2>2, <2>3, <2>4
<1>2. \A x \in Ids : LiveAncestors(x)' \subseteq LiveAncestors(x)
  <2> SUFFICES ASSUME NEW x \in Ids, NEW a \in LiveAncestors(x)' PROVE a \in LiveAncestors(x)
    OBVIOUS
  <2>1. anc[x] \subseteq Ids
    BY DEF TypeOK
  <2>2. a \in anc[x] /\ \A b \in anc[x] : fut'[b] = "dropped" => b \in anc[a]
    BY DEF LiveAncestors
  <2>3. \A b \in anc[x] : fut[b] = "dropped" => fut'[b] = "dropped"
    BY <2>1, MovesFacts
  <2> QED BY <2>2, <2>3 DEF LiveAncestors
<1>3. \A x \in Ids \ {s} : deadline'[x] = deadline[x]
  BY DEF TakesDeadline, TypeOK
<1>4. /\ deadline'[s] = deadline[s] \/ (deadline[s] = None /\ deadline'[s] = OwnDeadline(s))
      /\ deadline[s] # None => deadline'[s] = deadline[s]
  <2>1. deadline \in [Ids -> Nat \cup {None}]
    BY DEF TypeOK
  <2> HIDE DEF IInv
  <2> QED BY <2>1 DEF TakesDeadline
<1>5. /\ OwnDeadline(s) \in Nat /\ OwnDeadline(s) <= now + grace[s]
      /\ \A a \in LiveAncestors(s) : deadline[a] # None => OwnDeadline(s) <= deadline[a]
      /\ OwnDeadline(s) = now + grace[s]
         \/ \E a \in LiveAncestors(s) : deadline[a] # None /\ OwnDeadline(s) = deadline[a]
  BY OwnDeadlineClamps
<1>6. DeadlineInv'
  <2>1. ASSUME NEW x \in Ids, deadline'[x] # None
        PROVE  deadline'[x] <= now' + grace'[x] /\ fut'[x] \notin Childless
    <3>1. CASE deadline'[x] = deadline[x]
      <4>1. deadline[x] <= now + grace[x] /\ fut[x] \notin Childless
        BY <2>1, <3>1 DEF DeadlineInv
      <4> QED BY <1>1, <2>1, <3>1, <4>1, MovesFacts
    <3>2. CASE deadline'[x] # deadline[x]
      <4>1. x = s /\ deadline'[s] = OwnDeadline(s) /\ fut'[s] \notin Childless
        BY <1>3, <1>4, <3>2
      <4> QED BY <1>1, <1>5, <4>1
    <3> QED BY <3>1, <3>2
  <2>2. ASSUME NEW x \in Ids, fut'[x] = "drain" PROVE deadline'[x] # None
    <3>1. CASE x = s
      BY <2>2, <3>1
    <3>2. CASE x # s
      BY <1>3, <2>2, <3>2 DEF Moves, DeadlineInv
    <3> QED BY <3>1, <3>2
  <2>3. Childless' = Childless
    BY DEF Childless
  <2> QED BY <2>1, <2>2, <2>3 DEF DeadlineInv
<1>7. OneDeadline'
  <2> SUFFICES ASSUME NEW t \in Ids, \A a \in anc[t] : grace[t] <= grace[a],
                      NEW a \in LiveAncestors(t)', deadline'[t] # None, deadline'[a] # None
               PROVE  deadline'[t] <= deadline'[a]
    BY DEF OneDeadline, NoLaterThanAncestors
  <2>1. a \in LiveAncestors(t) /\ a \in Ids /\ a \in anc[t] /\ a # t
    <3>1. a \in LiveAncestors(t) /\ a \in Ids
      BY <1>1, <1>2
    <3>2. a \in anc[t]
      BY <3>1 DEF LiveAncestors
    <3> QED BY <3>1, <3>2 DEF TreeInv
  <2>2. ASSUME NEW b \in LiveAncestors(t), deadline[t] # None, deadline[b] # None
        PROVE  deadline[t] <= deadline[b]
    BY <2>2 DEF OneDeadline, NoLaterThanAncestors
  <2>3. CASE deadline'[t] = deadline[t] /\ deadline'[a] = deadline[a]
    BY <2>1, <2>2, <2>3
  <2>4. CASE deadline'[t] # deadline[t]
    <3>1. t = s /\ deadline'[t] = OwnDeadline(t)
      BY <1>3, <1>4, <2>4
    <3>2. deadline'[a] = deadline[a]
      BY <1>3, <2>1, <3>1
    <3> QED BY <1>5, <2>1, <3>1, <3>2
  <2>5. CASE deadline'[a] # deadline[a]
    <3>1. a = s /\ deadline'[a] = OwnDeadline(a)
      BY <1>3, <1>4, <2>1, <2>5
    <3>2. deadline'[t] = deadline[t] /\ deadline[t] # None
      BY <1>3, <2>1, <3>1
    <3>3. CASE OwnDeadline(a) = now + grace[a]
      <4>1. deadline[t] <= now + grace[t] /\ grace[t] <= grace[a]
        BY <2>1, <3>2 DEF DeadlineInv
      <4>2. deadline[t] \in Nat /\ grace[t] \in Nat /\ grace[a] \in Nat /\ now \in Nat
        BY <1>1, <2>1, <3>2 DEF TypeOK
      <4> QED BY <3>1, <3>2, <3>3, <4>1, <4>2
    <3>4. CASE \E b \in LiveAncestors(a) : deadline[b] # None /\ OwnDeadline(a) = deadline[b]
      <4>1. PICK b \in LiveAncestors(a) : deadline[b] # None /\ OwnDeadline(a) = deadline[b]
        BY <3>4
      <4>2. b \in LiveAncestors(t)
        BY <2>1, LiveIsTransitive
      <4> QED BY <2>2, <3>1, <3>2, <4>1, <4>2
    <3> QED BY <1>5, <3>1, <3>3, <3>4
  <2> QED BY <2>3, <2>4, <2>5
<1> QED BY <1>6, <1>7

LEMMA StepKeeps ==
  ASSUME IInv, TypeOK', FutInv', NEW s \in Ids, Moves(s), UNCHANGED <<anc, kids, grace>>,
         done \subseteq done', token \subseteq token', now <= now',
         deadline' = deadline \/ (TakesDeadline(s) /\ fut'[s] \notin Childless),
         fut'[s] = "drain" => deadline'[s] # None /\ (fut[s] = "drain" \/ kids[s] \subseteq token')
  PROVE  IInv'
<1>1. TreeInv'
  BY TreeKeeps DEF IInv, TypeOK
<1>2. CompletedIsQuiet'
  BY QuietKeeps DEF IInv, TypeOK
<1>3. DeadlineInv' /\ OneDeadline'
  BY DeadlineKeeps
<1>4. DrainCancels'
  <2> SUFFICES ASSUME NEW x \in Ids, NEW t \in kids[x], fut'[x] = "drain", t \notin done'
               PROVE  t \in token'
    BY DEF DrainCancels
  <2>1. CASE fut[x] = "drain"
    BY <2>1 DEF IInv, DrainCancels
  <2>2. CASE fut[x] # "drain"
    BY <2>2 DEF Moves
  <2> QED BY <2>1, <2>2
<1> QED BY <1>1, <1>2, <1>3, <1>4 DEF IInv

(***************************************************************************)
(* A task is started.                                                      *)
(***************************************************************************)
LEMMA StartKeeps ==
  ASSUME IInv, NEW s \in Ids, NEW t \in Tasks, NEW g \in Graces,
         fut[t] = "unborn", ~OutOfTime(s), Start(s, t, g),
         UNCHANGED <<deadline, aborted, polling, vmGrace, now>>
  PROVE  IInv'
<1> USE DEF IInv
<1>0. /\ t \in Ids /\ Tasks \subseteq Ids /\ fut[s] \in {"body", "drain"} /\ s # t
      /\ fut \in [Ids -> Futures] /\ anc \in [Ids -> SUBSET Ids] /\ kids \in [Ids -> SUBSET Tasks]
      /\ grace \in [Ids -> Graces]
  BY DEF Ids, OutOfTime, Phase, TypeOK
<1>1. /\ \A x \in Ids : fut'[x] = IF x = t THEN "fresh" ELSE fut[x]
      /\ \A x \in Ids : anc'[x] = IF x = t THEN anc[s] \cup {s} ELSE anc[x]
      /\ \A x \in Ids : grace'[x] = IF x = t THEN g ELSE grace[x]
      /\ \A x \in Ids : kids'[x] = IF x = s THEN (kids[s] \ done) \cup {t} ELSE kids[x]
      /\ token \subseteq token' /\ done' = done
      /\ fut[s] = "drain" => t \in token'
  BY <1>0 DEF Start, Retained, BornCancelled, Phase
<1>2. TypeOK'
  <2>1. /\ fut' \in [Ids -> Futures] /\ anc' \in [Ids -> SUBSET Ids]
        /\ kids' \in [Ids -> SUBSET Tasks] /\ grace' \in [Ids -> Graces]
    BY <1>0 DEF Start, Retained, Futures
  <2>2. token' \subseteq Ids
    BY <1>0 DEF Start, TypeOK
  <2> QED BY <1>1, <2>1, <2>2 DEF TypeOK
<1>3. FutInv'
  BY <1>0, <1>1 DEF FutInv, TypeOK
\* Nobody descends from a scope never polled, and t is no child yet.
<1>4. \A y \in Ids : \A x \in anc[y] : x \in Ids /\ x # t
  BY <1>0 DEF TreeInv, Childless
<1>5. ASSUME NEW x \in Ids, x # t, NEW c \in Ids, Child(c, x) PROVE c # t /\ Child(c, x)'
  BY <1>0, <1>1, <1>5 DEF Child
<1>6. TreeInv'
  <2>1. \A x, y \in Ids : x \in anc'[y] => anc'[x] \subseteq anc'[y] /\ x # y /\ fut'[x] \notin Childless
    BY <1>0, <1>1, <1>4 DEF TreeInv, Childless
  <2>2. Child(t, s)'
    BY <1>0, <1>1 DEF Child, TreeInv
  <2>3. ASSUME NEW x \in Ids, NEW y \in kids'[x] PROVE Child(y, x)'
    <3>1. CASE x = s /\ y = t
      BY <2>2, <3>1
    <3>2. CASE ~(x = s /\ y = t)
      <4>1. y \in kids[x] /\ y \in Ids
        BY <1>0, <1>1, <3>2
      <4>2. Child(y, x)
        BY <4>1 DEF TreeInv
      <4>3. x # t
        BY <1>4, <4>1, <4>2 DEF Child
      <4> QED BY <1>5, <4>1, <4>2, <4>3
    <3> QED BY <3>1, <3>2
  <2>4. ASSUME NEW x \in Ids, NEW y \in Ids, x \in anc[y]
        PROVE  \E c \in anc[y] \cup {y} : c # t /\ Child(c, x)' /\ (c \in kids'[x] \/ c \in done)
    <3>1. PICK c \in anc[y] \cup {y} : Child(c, x) /\ (c \in kids[x] \/ c \in done)
      BY <2>4 DEF TreeInv
    <3>2. c \in Ids /\ x # t
      BY <1>4, <2>4
    <3>3. c # t /\ Child(c, x)'
      BY <1>5, <3>1, <3>2
    <3>4. c \in kids[x] => c \in kids'[x] \/ c \in done
      BY <1>1
    <3> QED BY <3>1, <3>3, <3>4
  <2>5. ASSUME NEW x \in Ids, NEW y \in Ids, x \in anc'[y]
        PROVE  \E c \in anc'[y] \cup {y} : Child(c, x)' /\ (c \in kids'[x] \/ c \in done')
    <3>1. CASE y # t
      BY <1>1, <2>4, <2>5, <3>1
    <3>2. CASE y = t /\ x = s
      BY <1>1, <2>2, <3>2
    <3>3. CASE y = t /\ x # s
      <4>1. x \in anc[s]
        BY <1>1, <2>5, <3>3
      <4>2. PICK c \in anc[s] \cup {s} : Child(c, x)' /\ (c \in kids'[x] \/ c \in done)
        BY <2>4, <4>1
      <4> QED BY <1>1, <3>3, <4>2
    <3> QED BY <3>1, <3>2, <3>3
  <2>6. \A y \in Ids : fut'[y] = "unborn" => anc'[y] = {}
    BY <1>1 DEF TreeInv
  <2>7. \A x, y \in Ids : y \in kids'[x] => Child(y, x)'
    BY <2>3
  <2>8. Childless' = Childless
    BY DEF Childless
  <2> QED BY <2>1, <2>5, <2>6, <2>7, <2>8 DEF TreeInv
<1>7. DeadlineInv'
  <2>1. deadline[t] = None
    BY <1>0 DEF DeadlineInv, Childless
  <2> QED BY <1>1, <2>1 DEF DeadlineInv, Childless
<1>8. DrainCancels'
  <2> SUFFICES ASSUME NEW x \in Ids, NEW y \in kids'[x], fut'[x] = "drain", y \notin done
               PROVE  y \in token'
    BY <1>1 DEF DrainCancels
  <2> QED BY <1>1 DEF DrainCancels
<1>9. CompletedIsQuiet'
  <2> SUFFICES ASSUME NEW x \in Ids, NEW y \in Ids, fut'[x] = "ready", x \in anc'[y], Alive(y)'
               PROVE  \E b \in anc'[y] : x \in anc'[b] /\ fut'[b] = "dropped"
    BY DEF CompletedIsQuiet
  <2>1. ASSUME NEW z \in Ids, x \in anc[z], Alive(z)
        PROVE  \E b \in anc[z] : x \in anc'[b] /\ fut'[b] = "dropped"
    <3>1. PICK b \in anc[z] : x \in anc[b] /\ fut[b] = "dropped"
      BY <1>1, <2>1 DEF CompletedIsQuiet
    <3> QED BY <1>1, <1>4, <3>1
  <2>2. CASE y = t
    <3>1. x \in anc[s] /\ Alive(s)
      BY <1>0, <1>1, <2>2 DEF Alive
    <3> QED BY <1>1, <2>1, <2>2, <3>1
  <2>3. CASE y # t
    BY <1>1, <2>1, <2>3 DEF Alive
  <2> QED BY <2>2, <2>3
<1>10. OneDeadline'
  <2> SUFFICES ASSUME NEW y \in Ids, \A a \in anc'[y] : grace'[y] <= grace'[a],
                      NEW a \in LiveAncestors(y)', deadline[y] # None, deadline[a] # None
               PROVE  deadline[y] <= deadline[a]
    BY DEF OneDeadline, NoLaterThanAncestors
  <2>1. y # t
    BY <1>0 DEF DeadlineInv, Childless
  <2>2. \A b \in anc[y] : b # t /\ anc'[b] = anc[b] /\ fut'[b] = fut[b] /\ grace'[b] = grace[b]
    BY <1>1, <1>4
  <2>3. a \in LiveAncestors(y)
    BY <1>1, <2>1, <2>2 DEF LiveAncestors
  <2>4. \A b \in anc[y] : grace[y] <= grace[b]
    BY <1>1, <2>1, <2>2
  <2> QED BY <2>3, <2>4 DEF OneDeadline, NoLaterThanAncestors
<1> QED BY <1>2, <1>3, <1>6, <1>7, <1>8, <1>9, <1>10

LEMMA SpawnKeeps ==
  ASSUME IInv, NEW s \in Ids, NEW t \in Tasks, NEW g \in Graces, Spawn(s, t, g)
  PROVE  IInv'
<1>1. CASE ~OutOfTime(s) /\ Start(s, t, g)
  BY <1>1, StartKeeps DEF Spawn
<1>2. CASE Refuse(t)
  <2> USE DEF IInv
  <2>1. /\ t \in Ids /\ fut[t] = "unborn" /\ fut \in [Ids -> Futures] /\ fut' = [fut EXCEPT ![t] = "unpolled"]
        /\ token' = token \cup {t} /\ done' = done \cup {t}
        /\ UNCHANGED <<anc, grace, kids, deadline, aborted, polling, vmGrace, now>>
    BY <1>2 DEF Spawn, Refuse, Ids, TypeOK
  <2>2. TypeOK'
    BY <2>1 DEF TypeOK, Futures
  <2>3. FutInv'
    BY <2>1 DEF FutInv, TypeOK
  <2>4. Moves(t)
    BY <2>1 DEF Moves
  <2>5. now <= now'
    BY <2>1 DEF TypeOK
  <2> QED BY <2>1, <2>2, <2>3, <2>4, <2>5, StepKeeps
<1> QED BY <1>1, <1>2 DEF Spawn

(***************************************************************************)
(* Polls.                                                                  *)
(***************************************************************************)
LEMMA BeginPollKeeps ==
  ASSUME IInv, NEW s \in Ids, BeginPoll(s)
  PROVE  IInv'
<1> USE DEF IInv
<1>1. /\ fut[s] \in {"fresh", "body"} /\ fut' = [fut EXCEPT ![s] = "body"] /\ polling' = s
      /\ UNCHANGED <<anc, grace, kids, token, aborted, done, vmGrace, now>>
      /\ fut \in [Ids -> Futures] /\ now \in Nat
      /\ deadline' = deadline \/ TakesDeadline(s)
  BY DEF BeginPoll, TakesDeadline, TypeOK
<1>2. deadline' \in [Ids -> Nat \cup {None}]
  BY <1>1, OwnDeadlineClamps DEF TakesDeadline, TypeOK
<1>3. TypeOK'
  BY <1>1, <1>2 DEF TypeOK, Futures
<1>4. FutInv'
  BY <1>1 DEF FutInv
<1>5. Moves(s) /\ fut'[s] = "body" /\ now <= now'
  BY <1>1 DEF Moves
<1>6. fut'[s] \notin Childless
  BY <1>5 DEF Childless
<1> QED BY <1>1, <1>3, <1>4, <1>5, <1>6, StepKeeps

LEMMA EndPollKeeps ==
  ASSUME IInv, NEW s \in Ids, EndPoll(s)
  PROVE  IInv'
<1> USE DEF IInv
<1>1. /\ polling = s /\ polling' = None /\ fut[s] = "body" /\ fut \in [Ids -> Futures] /\ now \in Nat
      /\ UNCHANGED <<anc, grace, kids, aborted, vmGrace, now>> /\ s # None
  BY DEF EndPoll, FutInv, TypeOK
<1>2. CASE StayPending(s)
  <2>1. TypeOK' /\ FutInv' /\ Moves(s) /\ now <= now'
    BY <1>1, <1>2 DEF StayPending, TypeOK, FutInv, Moves
  <2> QED BY <1>1, <1>2, <2>1, StepKeeps DEF StayPending
<1>3. CASE StartDrain(s)
  <2>1. /\ deadline' = deadline \/ TakesDeadline(s)
        /\ deadline[s] # None \/ TakesDeadline(s)
    BY <1>3 DEF StartDrain, TakesDeadline
  <2>2. deadline' \in [Ids -> Nat \cup {None}] /\ deadline'[s] # None
    BY <1>3, <2>1, OwnDeadlineClamps DEF StartDrain, TakesDeadline, TypeOK
  <2>3. Under(kids[s]) \subseteq Ids /\ kids[s] \subseteq Under(kids[s])
    BY DEF Under, TypeOK, Ids
  <2>4. /\ token' = token \cup Under(kids[s])
        /\ \/ AllDone(s) /\ fut' = [fut EXCEPT ![s] = "ready"] /\ done' = done \cup {s}
           \/ fut' = [fut EXCEPT ![s] = "drain"] /\ done' = done
    BY <1>3 DEF StartDrain
  <2>5. TypeOK'
    BY <1>1, <2>2, <2>3, <2>4 DEF TypeOK, Futures
  <2>6. FutInv'
    BY <1>1, <2>4 DEF FutInv, AllDone, TypeOK
  <2>7. Moves(s) /\ fut'[s] \in {"ready", "drain"} /\ now <= now' /\ done \subseteq done'
    BY <1>1, <2>4 DEF Moves
  <2>8. fut'[s] \notin Childless /\ token \subseteq token' /\ kids[s] \subseteq token'
    BY <2>3, <2>4, <2>7 DEF Childless
  <2> QED BY <1>1, <2>1, <2>2, <2>5, <2>6, <2>7, <2>8, StepKeeps
<1> QED BY <1>2, <1>3 DEF EndPoll

LEMMA DrainedKeeps ==
  ASSUME IInv, NEW s \in Ids, Drained(s)
  PROVE  IInv'
<1> USE DEF IInv, Drained
<1>1. fut \in [Ids -> Futures] /\ now \in Nat
  BY DEF TypeOK
<1>2. TypeOK'
  BY DEF TypeOK, Futures
<1>3. FutInv'
  BY <1>1 DEF FutInv, AllDone
<1>4. Moves(s) /\ now <= now' /\ fut'[s] = "ready"
  BY <1>1 DEF Moves
<1> QED BY <1>2, <1>3, <1>4, StepKeeps

LEMMA DropKeeps ==
  ASSUME IInv, NEW s \in Ids, DropFuture(s), polling' = None,
         polling = None \/ polling = s
  PROVE  IInv'
<1> USE DEF IInv
<1>1. /\ fut \in [Ids -> Futures] /\ done' = done \cup {s} /\ now \in Nat
      /\ \/ fut[s] = "fresh" /\ fut' = [fut EXCEPT ![s] = "unpolled"] /\ token' = token /\ aborted' = aborted
         \/ /\ fut[s] \in {"body", "drain"} /\ fut' = [fut EXCEPT ![s] = "dropped"]
            /\ token' = token \cup Under(kids[s]) /\ aborted' = aborted \cup (kids[s] \ done)
      /\ UNCHANGED <<anc, grace, deadline, kids, vmGrace, now>>
  BY DEF DropFuture, TypeOK
<1>2. Under(kids[s]) \subseteq Ids /\ kids[s] \subseteq Tasks
  BY DEF Under, TypeOK, Ids
<1>3. TypeOK'
  BY <1>1, <1>2 DEF TypeOK, Futures
<1>4. FutInv'
  BY <1>1 DEF FutInv
<1>5. Moves(s) /\ now <= now' /\ fut'[s] # "drain" /\ token \subseteq token' /\ done \subseteq done'
  BY <1>1 DEF Moves
<1> QED BY <1>1, <1>3, <1>4, <1>5, StepKeeps

\* Steps that move no future: a cancel, a change of the grace, the clock.
LEMMA OtherKeeps ==
  ASSUME IInv, (\E s \in Ids : Cancel(s)) \/ (\E g \in Graces : SetConfig(g)) \/ Tick
  PROVE  IInv'
<1> USE DEF IInv
<1>1. /\ token \subseteq token' /\ token' \subseteq Ids /\ vmGrace' \in Graces
      /\ now \in Nat /\ now' \in Nat /\ now <= now'
  BY DEF Cancel, SetConfig, Tick, TypeOK, Under
<1>2. UNCHANGED <<fut, anc, grace, deadline, kids, aborted, done, polling>>
  BY DEF Cancel, SetConfig, Tick
<1>3. TypeOK' /\ FutInv'
  BY <1>1, <1>2 DEF TypeOK, FutInv
<1>4. Root \in Ids /\ Moves(Root)
  BY <1>2 DEF Moves, Ids
<1>5. fut[Root] = "drain" => deadline[Root] # None
  BY <1>4 DEF DeadlineInv
<1> QED BY <1>1, <1>2, <1>3, <1>4, <1>5, StepKeeps

(***************************************************************************)
(* The theorems about scopes.                                              *)
(***************************************************************************)
LEMMA Inductive == Spec => []IInv
<1>1. IInv /\ [Next]_vars => IInv'
  <2> SUFFICES ASSUME IInv, [Next]_vars PROVE IInv'
    OBVIOUS
  <2>0. Root \in Ids /\ Tasks \subseteq Ids
    BY DEF Ids
  <2>1. CASE UNCHANGED vars
    BY <2>1 DEF vars, IInv, TypeOK, FutInv, TreeInv, Child, DeadlineInv, DrainCancels,
                CompletedIsQuiet, Alive, OneDeadline, NoLaterThanAncestors, LiveAncestors, Childless
  <2>2. ASSUME NEW s \in Ids, BeginPoll(s) \/ EndPoll(s) \/ Drained(s) \/ Panic(s) \/ Cancel(s)
        PROVE  IInv'
    <3>1. CASE Panic(s)
      BY <3>1, DropKeeps DEF Panic
    <3> QED BY <2>2, <3>1, BeginPollKeeps, EndPollKeeps, DrainedKeeps, OtherKeeps
  <2>3. ASSUME NEW t \in Tasks, SpawnLua(t) PROVE IInv'
    <3>1. polling \in Ids /\ vmGrace \in Graces
      BY <2>3 DEF SpawnLua, IInv, TypeOK
    <3> QED BY <2>3, <3>1, SpawnKeeps DEF SpawnLua
  <2>4. ASSUME NEW t \in Tasks, DropAborted(t) PROVE IInv'
    BY <2>0, <2>4, DropKeeps DEF DropAborted
  <2>5. ASSUME NEW s \in Ids, NEW t \in Tasks, SpawnLocal(s, t) PROVE IInv'
    <3>1. grace[s] \in Graces
      BY DEF IInv, TypeOK
    <3> QED BY <2>5, <3>1, SpawnKeeps DEF SpawnLocal
  <2>6. CASE DropRun
    BY <2>0, <2>6, DropKeeps DEF DropRun
  <2> QED BY <2>1, <2>2, <2>3, <2>4, <2>5, <2>6, OtherKeeps DEF Next
<1> QED BY <1>1, InitIInv, PTL DEF Spec

\* Every variable keeps its type, deadlines included, which are the least of a set of instants
\* (scope.rs Scope).
THEOREM TypeCorrect == Spec => []TypeOK
<1>1. IInv => TypeOK
  BY DEF IInv
<1> QED BY <1>1, Inductive, PTL

\* A scope whose future completed left no task of its tree alive, but below a task that was
\* dropped with a panic (scope.rs run_in, wait_all, AbortOnDrop).
THEOREM CompletedIsQuietAlways == Spec => []CompletedIsQuiet
<1>1. IInv => CompletedIsQuiet
  BY DEF IInv
<1> QED BY <1>1, Inductive, PTL

\* A draining scope waits for no task that was not told to stop, whenever it was added (scope.rs
\* add, cancel_all).
THEOREM DrainCancelsAlways == Spec => []DrainCancels
<1>1. IInv => DrainCancels
  BY DEF IInv
<1> QED BY <1>1, Inductive, PTL

\* No scope has a later deadline than an ancestor it still reaches, in whichever order they took
\* them (scope.rs own_deadline).
THEOREM OneDeadlineAlways == Spec => []OneDeadline
<1>1. IInv => OneDeadline
  BY DEF IInv
<1> QED BY <1>1, Inductive, PTL

-----------------------------------------------------------------------------

(***************************************************************************)
(* TaskLib.                                                                *)
(***************************************************************************)
USE NilAssumption

(***************************************************************************)
(* The inductive strengthening.                                            *)
(***************************************************************************)
Joins(c, h) == call[c] # Nil /\ call[c].kind = "join" /\ h \in call[c].on

\* A join waits for one handle, which no other join waits for; who is woken is in a call.
CallInv ==
  /\ \A c \in Callers, h, g \in Handles : Joins(c, h) /\ Joins(c, g) => h = g
  /\ \A c, d \in Callers, h \in Handles : Joins(c, h) /\ Joins(d, h) => c = d
  /\ \A c \in woken : call[c] # Nil
  /\ \A c \in Callers, h \in Handles : WaitsFor(c, h) => Live(h)

\* The outcome of a task can still be told: nobody joined it, or the join waits.
Open(h) == h \notin joined \/ \E c \in Callers : Joins(c, h)
ToldInv ==
  \A h \in Handles :
    /\ Open(h) => told[h] = <<>> /\ (h \in finished => Returns(result[h]) = outcome[h])
    /\ told[h] # <<>> => told[h] = <<outcome[h]>> /\ h \in finished
    /\ h \in joined \cup finished \cup tasks \/ result[h] # Nil => phase[h] # "unborn"
    /\ Live(h) /\ h \notin joined => h \in tasks

TaskInv == TaskTypeOK /\ CallInv /\ ToldInv /\ LeftIsCancelled

LEMMA InitTaskInv == TaskInit => TaskInv
<1> SUFFICES ASSUME TaskInit PROVE TaskInv
  OBVIOUS
<1>1. TaskTypeOK
  BY DEF TaskInit, TaskTypeOK
<1>2. \A c \in Callers, h \in Handles : ~Joins(c, h) /\ ~WaitsFor(c, h)
  BY DEF TaskInit, Joins, WaitsFor, Idle
<1>3. CallInv
  BY <1>2 DEF TaskInit, CallInv
<1>4. ToldInv /\ LeftIsCancelled
  BY <1>2 DEF TaskInit, ToldInv, LeftIsCancelled, Live
<1> QED BY <1>1, <1>3, <1>4 DEF TaskInv

LEMMA CallFacts ==
  ASSUME TaskTypeOK, NEW c \in Callers, call[c] # Nil
  PROVE  call[c] \in Calls /\ call[c].kind \in {"join", "select"} /\ call[c].on \subseteq Handles
BY DEF TaskTypeOK, Calls

(***************************************************************************)
(* The task.                                                               *)
(***************************************************************************)
LEMMA SpawnTaskKeeps ==
  ASSUME TaskInv, NEW t \in Handles, SpawnTask(t)
  PROVE  TaskInv'
<1>0. TaskTypeOK /\ CallInv /\ ToldInv /\ LeftIsCancelled
  BY DEF TaskInv
<1>1. PICK refused \in SUBSET {t} :
        /\ finished' = finished \cup refused /\ cancelled' = cancelled \cup refused
        /\ outcome' = [x \in Handles |-> IF x \in refused THEN "cancelled" ELSE outcome[x]]
  BY DEF SpawnTask
<1>2. /\ phase[t] = "unborn" /\ phase' = [phase EXCEPT ![t] = "live"] /\ tasks' = tasks \cup {t}
      /\ UNCHANGED <<joined, result, call, woken, told>>
  BY DEF SpawnTask, callVars
<1>3. TaskTypeOK'
  BY <1>0, <1>1, <1>2 DEF TaskTypeOK, Outcomes
<1>4. \A c \in Callers, h \in Handles : (Joins(c, h)' <=> Joins(c, h)) /\ (WaitsFor(c, h)' <=> WaitsFor(c, h))
  BY <1>2 DEF Joins, WaitsFor, Idle
<1>5. \A h \in Handles : Live(h)' <=> Live(h) \/ h = t
  BY <1>0, <1>2 DEF Live, TaskTypeOK
<1>6. CallInv'
  BY <1>0, <1>2, <1>4, <1>5 DEF CallInv
<1>7. result[t] = Nil /\ told[t] = <<>> /\ t \notin joined
  BY <1>0, <1>2 DEF ToldInv, Open
<1>8. ToldInv'
  BY <1>0, <1>1, <1>2, <1>4, <1>5, <1>7 DEF ToldInv, Open, TaskTypeOK, Returns
<1>9. LeftIsCancelled'
  BY <1>0, <1>1, <1>2 DEF LeftIsCancelled, TaskTypeOK
<1> QED BY <1>3, <1>6, <1>8, <1>9 DEF TaskInv

\* Steps that leave calls, handles and what was told alone.
LEMMA CallsKept ==
  ASSUME TaskInv, UNCHANGED <<handleVars, call, told>>, woken' \subseteq {c \in Callers : call[c] # Nil}
  PROVE  /\ CallInv' /\ TaskTypeOK
         /\ \A c \in Callers, h \in Handles : Joins(c, h)' <=> Joins(c, h)
         /\ \A h \in Handles : (Live(h)' <=> Live(h)) /\ (Open(h)' <=> Open(h))
<1>0. TaskTypeOK /\ CallInv
  BY DEF TaskInv
<1>1. \A c \in Callers, h \in Handles : (Joins(c, h)' <=> Joins(c, h)) /\ (WaitsFor(c, h)' <=> WaitsFor(c, h))
  BY DEF Joins, WaitsFor, Idle
<1>2. \A h \in Handles : (Live(h)' <=> Live(h)) /\ (Open(h)' <=> Open(h))
  BY <1>1 DEF Live, Open, handleVars
<1>3. CallInv'
  BY <1>0, <1>1, <1>2 DEF CallInv
<1> QED BY <1>0, <1>1, <1>2, <1>3

LEMMA CancelKeeps ==
  ASSUME TaskInv, NEW t \in Handles, CancelScope(t) \/ CancelTask(t)
  PROVE  TaskInv'
<1>1. /\ UNCHANGED <<handleVars, tasks, finished, result, outcome, callVars, told>>
      /\ cancelled' \in SUBSET Handles /\ cancelled \subseteq cancelled'
  BY DEF CancelScope, CancelTask, TaskInv, TaskTypeOK
<1>2. woken \subseteq {c \in Callers : call[c] # Nil}
  BY DEF TaskInv, TaskTypeOK, CallInv
<1>3. CallInv' /\ \A h \in Handles : (Live(h)' <=> Live(h)) /\ (Open(h)' <=> Open(h))
  BY <1>1, <1>2, CallsKept DEF callVars
<1>4. TaskTypeOK'
  BY <1>1 DEF TaskInv, TaskTypeOK, handleVars, callVars
<1>5. ToldInv'
  BY <1>1, <1>3 DEF TaskInv, ToldInv, handleVars
<1>6. LeftIsCancelled'
  BY <1>1 DEF TaskInv, LeftIsCancelled, handleVars
<1> QED BY <1>3, <1>4, <1>5, <1>6 DEF TaskInv

LEMMA FinishKeeps ==
  ASSUME TaskInv, NEW t \in Handles, Finish(t)
  PROVE  TaskInv'
<1>0. TaskTypeOK /\ CallInv /\ ToldInv /\ LeftIsCancelled
  BY DEF TaskInv
<1>1. PICK out \in Results \cup {Nil} :
        /\ out = Nil => t \in cancelled
        /\ result' = [result EXCEPT ![t] = Converted(t, out)]
        /\ outcome' = [outcome EXCEPT ![t] = IF out = "returned" \/ t \notin cancelled THEN out ELSE "cancelled"]
  BY DEF Finish
<1>2. /\ phase[t] # "unborn" /\ t \notin finished /\ finished' = finished \cup {t} /\ woken' = woken \cup WakeJoins(t)
      /\ UNCHANGED <<handleVars, tasks, cancelled, call, told>>
  BY DEF Finish
<1>3. WakeJoins(t) \subseteq {c \in Callers : call[c] # Nil} /\ woken \subseteq {c \in Callers : call[c] # Nil}
  BY <1>0 DEF WakeJoins, WaitsFor, Idle, CallInv, TaskTypeOK
<1>4. CallInv' /\ \A h \in Handles : (Live(h)' <=> Live(h)) /\ (Open(h)' <=> Open(h))
  BY <1>2, <1>3, CallsKept
<1>5. Converted(t, out) \in Results \cup {Nil} /\ outcome'[t] \in Outcomes
  BY <1>0, <1>1 DEF Converted, TaskTypeOK, Outcomes, Results
<1>6. TaskTypeOK'
  BY <1>0, <1>1, <1>2, <1>3, <1>5 DEF TaskTypeOK, handleVars
<1>7. Returns(result'[t]) = outcome'[t]
  BY <1>0, <1>1 DEF Returns, Converted, TaskTypeOK, Outcomes, Results
<1>8. told[t] = <<>>
  BY <1>0, <1>2 DEF ToldInv
<1>9. ToldInv'
  BY <1>0, <1>1, <1>2, <1>4, <1>7, <1>8 DEF ToldInv, TaskTypeOK, handleVars, Returns
<1>10. LeftIsCancelled'
  BY <1>0, <1>2 DEF LeftIsCancelled, handleVars
<1> QED BY <1>4, <1>6, <1>9, <1>10 DEF TaskInv

(***************************************************************************)
(* Calls.                                                                  *)
(***************************************************************************)
\* A call ends, and nothing else; what it waited for stays joined.
LEMMA ReturnKeeps ==
  ASSUME TaskInv, NEW c \in Callers, Return(c), UNCHANGED <<handleVars, taskVars, told>>
  PROVE  TaskInv'
<1>0. TaskTypeOK /\ CallInv /\ ToldInv /\ LeftIsCancelled
  BY DEF TaskInv
<1>1. call' = [call EXCEPT ![c] = Nil] /\ woken' = woken \ {c}
  BY DEF Return
<1>2. \A d \in Callers : call'[d] = IF d = c THEN Nil ELSE call[d]
  BY <1>0, <1>1 DEF TaskTypeOK
<1>3. TaskTypeOK'
  BY <1>0, <1>1, <1>2 DEF TaskTypeOK, handleVars, taskVars
<1>4. \A d \in Callers, h \in Handles : /\ Joins(d, h)' <=> Joins(d, h) /\ d # c
                                        /\ WaitsFor(d, h)' <=> WaitsFor(d, h) /\ d # c
  BY <1>2 DEF Joins, WaitsFor, Idle
<1>5. CallInv'
  BY <1>0, <1>1, <1>2, <1>4 DEF CallInv, Live, handleVars, TaskTypeOK
<1>6. \A h \in Handles : Open(h)' => Open(h)
  BY <1>4 DEF Open, handleVars
<1>7. ToldInv'
  BY <1>0, <1>6 DEF ToldInv, Live, handleVars, taskVars
<1>8. LeftIsCancelled'
  BY <1>0 DEF LeftIsCancelled, handleVars, taskVars
<1> QED BY <1>3, <1>5, <1>7, <1>8 DEF TaskInv

\* A call takes the result of t: it is the join of t, or t was unjoined.
LEMMA TakeKeeps ==
  ASSUME TaskInv, NEW c \in Callers, NEW t \in Handles, t \in finished, Take(t), Return(c),
         joined' = joined \cup {t}, UNCHANGED phase, Joins(c, t) \/ t \notin joined
  PROVE  TaskInv'
<1>0. TaskTypeOK /\ CallInv /\ ToldInv /\ LeftIsCancelled
  BY DEF TaskInv
<1>1. /\ call' = [call EXCEPT ![c] = Nil] /\ woken' = woken \ {c}
      /\ tasks' = tasks \ {t} /\ result' = [result EXCEPT ![t] = Nil]
      /\ told' = [told EXCEPT ![t] = Append(@, Returns(result[t]))]
      /\ UNCHANGED <<finished, cancelled, outcome>>
  BY DEF Return, Take
<1>2. \A d \in Callers : call'[d] = IF d = c THEN Nil ELSE call[d]
  BY <1>0, <1>1 DEF TaskTypeOK
<1>3. Open(t) /\ told[t] = <<>> /\ Returns(result[t]) = outcome[t]
  BY <1>0 DEF Open, ToldInv
<1>4. Returns(result[t]) \in Outcomes
  BY <1>0 DEF TaskTypeOK, Returns, Outcomes
<1>5. told'[t] = <<outcome[t]>> /\ \A h \in Handles \ {t} : told'[h] = told[h]
  <2>1. told' = [told EXCEPT ![t] = <<outcome[t]>>]
    <3>1. Append(told[t], Returns(result[t])) = <<outcome[t]>>
      BY <1>3
    <3> QED BY <1>1, <3>1
  <2> QED BY <1>0, <2>1 DEF TaskTypeOK
<1>6. TaskTypeOK'
  <2>1. told' \in [Handles -> Seq(Outcomes)]
    <3>1. Append(told[t], Returns(result[t])) \in Seq(Outcomes)
      BY <1>0, <1>4 DEF TaskTypeOK
    <3> QED BY <1>0, <1>1, <3>1 DEF TaskTypeOK
  <2>2. result' \in [Handles -> Results \cup {Nil}] /\ call' \in [Callers -> Calls \cup {Nil}]
    BY <1>0, <1>1 DEF TaskTypeOK
  <2>3. \A d \in Callers : call'[d] # Nil /\ call'[d].kind = "join" => call'[d].on \subseteq joined'
    BY <1>0, <1>2 DEF TaskTypeOK
  <2> QED BY <1>0, <1>1, <2>1, <2>2, <2>3 DEF TaskTypeOK
<1>7. \A d \in Callers, h \in Handles : /\ Joins(d, h)' <=> Joins(d, h) /\ d # c
                                        /\ WaitsFor(d, h)' <=> WaitsFor(d, h) /\ d # c
  BY <1>2 DEF Joins, WaitsFor, Idle
<1>8. CallInv'
  BY <1>0, <1>1, <1>2, <1>7 DEF CallInv, Live, TaskTypeOK
<1>9. ~Open(t)' /\ \A h \in Handles : Open(h)' => Open(h)
  <2>1. \A d \in Callers : Joins(d, t) => d = c
    BY <1>0 DEF CallInv, TaskTypeOK, Joins
  <2> QED BY <1>7, <2>1 DEF Open
<1>10. ToldInv'
  <2> SUFFICES ASSUME NEW h \in Handles
               PROVE  /\ Open(h)' => told'[h] = <<>> /\ (h \in finished' => Returns(result'[h]) = outcome'[h])
                      /\ told'[h] # <<>> => told'[h] = <<outcome'[h]>> /\ h \in finished'
                      /\ h \in joined' \cup finished' \cup tasks' \/ result'[h] # Nil => phase'[h] # "unborn"
                      /\ Live(h)' /\ h \notin joined' => h \in tasks'
    BY DEF ToldInv
  <2>1. CASE h = t
    BY <1>0, <1>1, <1>5, <1>9, <2>1 DEF ToldInv
  <2>2. CASE h # t
    BY <1>0, <1>1, <1>5, <1>9, <2>2 DEF ToldInv, TaskTypeOK, Live
  <2> QED BY <2>1, <2>2
<1>11. LeftIsCancelled'
  BY <1>0, <1>1 DEF LeftIsCancelled
<1> QED BY <1>6, <1>8, <1>10, <1>11 DEF TaskInv

\* A call begins to wait, or waits on: a join of an unjoined handle, or a select.
LEMMA WaitKeeps ==
  ASSUME TaskInv, NEW c \in Callers, NEW k \in Calls, call' = [call EXCEPT ![c] = k], woken' \in {woken, woken \ {c}},
         UNCHANGED <<phase, tasks, finished, result, outcome, told>>,
         cancelled' \in SUBSET Handles, cancelled \subseteq cancelled',
         \A h \in k.on : Live(h),
         \/ k.kind = "select" /\ joined' = joined /\ (call[c] # Nil => call[c].kind = "select")
         \/ call[c] # Nil /\ call[c].kind = k.kind /\ call[c].on = k.on /\ joined' = joined
         \/ \E t \in Handles : k.kind = "join" /\ k.on = {t} /\ t \notin joined /\ joined' = joined \cup {t} /\ Idle(c)
  PROVE  TaskInv'
<1>0. TaskTypeOK /\ CallInv /\ ToldInv /\ LeftIsCancelled
  BY DEF TaskInv
<1>1. \A d \in Callers : call'[d] = IF d = c THEN k ELSE call[d]
  BY <1>0 DEF TaskTypeOK
<1>2. k # Nil /\ k.on \subseteq Handles
  BY DEF Calls
<1>3. TaskTypeOK'
  <2>1. joined' \subseteq Handles /\ joined \subseteq joined'
    BY <1>0 DEF TaskTypeOK
  <2>2. \A d \in Callers : call'[d] # Nil /\ call'[d].kind = "join" => call'[d].on \subseteq joined'
    BY <1>0, <1>1, <1>2, <2>1 DEF TaskTypeOK
  <2>3. call' \in [Callers -> Calls \cup {Nil}]
    BY <1>0 DEF TaskTypeOK
  <2> QED BY <1>0, <2>1, <2>2, <2>3 DEF TaskTypeOK
<1>4. \A d \in Callers, h \in Handles :
        /\ d # c => (Joins(d, h)' <=> Joins(d, h)) /\ (WaitsFor(d, h)' <=> WaitsFor(d, h))
        /\ Joins(c, h)' <=> k.kind = "join" /\ h \in k.on
        /\ WaitsFor(c, h)' <=> h \in k.on
  BY <1>1, <1>2 DEF Joins, WaitsFor, Idle
<1>5. \A h \in Handles : Live(h)' <=> Live(h)
  BY DEF Live
<1>6. \A d \in Callers, h \in Handles : Joins(d, h) => h \in joined
  BY <1>0 DEF Joins, TaskTypeOK
<1>7. CallInv'
  <2>1. \A d \in Callers, h, g \in Handles : Joins(d, h)' /\ Joins(d, g)' => h = g
    BY <1>0, <1>4 DEF CallInv, Joins
  <2>2. \A d, e \in Callers, h \in Handles : Joins(d, h)' /\ Joins(e, h)' => d = e
    BY <1>0, <1>2, <1>4, <1>6 DEF CallInv, Joins
  <2>3. \A d \in woken' : call'[d] # Nil
    BY <1>0, <1>1, <1>2 DEF CallInv, TaskTypeOK
  <2>4. \A d \in Callers, h \in Handles : WaitsFor(d, h)' => Live(h)'
    BY <1>0, <1>4, <1>5 DEF CallInv
  <2> QED BY <2>1, <2>2, <2>3, <2>4 DEF CallInv
<1>8. \A h \in Handles : Open(h)' => Open(h)
  BY <1>2, <1>4, <1>6 DEF Open, Joins
<1>9. ToldInv'
  BY <1>0, <1>2, <1>5, <1>8 DEF ToldInv, Live
<1>10. LeftIsCancelled'
  BY <1>0 DEF LeftIsCancelled
<1> QED BY <1>3, <1>7, <1>9, <1>10 DEF TaskInv

LEMMA PollJoinKeeps ==
  ASSUME TaskInv, NEW c \in Callers, NEW t \in Handles, PollJoin(c, t), UNCHANGED <<phase, joined>>, Joins(c, t)
  PROVE  TaskInv'
<1>0. TaskTypeOK /\ CallInv /\ t \in joined
  BY DEF TaskInv, TaskTypeOK, Joins
<1>1. CASE t \in finished /\ Take(t) /\ Return(c)
  BY <1>0, <1>1, TakeKeeps
<1>2. CASE /\ t \notin finished /\ Wait(c, [kind |-> "join", on |-> {t}, handler |-> FALSE])
           /\ UNCHANGED <<tasks, finished, result, cancelled, outcome, told>>
  <2> DEFINE k == [kind |-> "join", on |-> {t}, handler |-> FALSE]
  <2>1. call[c] # Nil /\ call[c].kind = k.kind /\ call[c].on = k.on
    BY <1>0, CallFacts DEF Joins, CallInv
  <2>2. k \in Calls /\ \A h \in k.on : Live(h)
    BY <1>0 DEF Joins, CallInv, WaitsFor, Idle, Calls
  <2>3. cancelled \subseteq Handles
    BY <1>0 DEF TaskTypeOK
  <2> QED
    <3> HIDE DEF k
    <3>1. call' = [call EXCEPT ![c] = k] /\ woken' = woken \ {c}
      BY <1>2 DEF Wait, k
    <3> QED BY <1>2, <2>1, <2>2, <2>3, <3>1, WaitKeeps
<1> QED BY <1>1, <1>2 DEF PollJoin

LEMMA JoinKeeps ==
  ASSUME TaskInv, NEW c \in Callers, NEW t \in Handles, Join(c, t)
  PROVE  TaskInv'
<1>0. TaskTypeOK /\ Idle(c) /\ Live(t) /\ t \notin joined /\ joined' = joined \cup {t} /\ UNCHANGED phase
  BY DEF TaskInv, Join, Joinable
<1>1. CASE t \in finished /\ Take(t) /\ Return(c)
  BY <1>0, <1>1, TakeKeeps
<1>2. CASE /\ t \notin finished /\ Wait(c, [kind |-> "join", on |-> {t}, handler |-> FALSE])
           /\ UNCHANGED <<tasks, finished, result, cancelled, outcome, told>>
  <2> DEFINE k == [kind |-> "join", on |-> {t}, handler |-> FALSE]
  <2>1. k \in Calls /\ k.kind = "join" /\ k.on = {t} /\ cancelled \subseteq Handles
    BY <1>0 DEF Calls, TaskTypeOK
  <2>2. call' = [call EXCEPT ![c] = k] /\ woken' = woken \ {c}
    BY <1>2 DEF Wait
  <2> HIDE DEF k
  <2> QED BY <1>0, <1>2, <2>1, <2>2, WaitKeeps
<1> QED BY <1>1, <1>2 DEF Join, PollJoin

\* One poll of a select that waits, or is to wait, for k.on.
LEMMA PollSelectKeeps ==
  ASSUME TaskInv, NEW c \in Callers, NEW k \in Calls, k.kind = "select", PollSelect(c, k), UNCHANGED phase,
         \A h \in k.on : Live(h), call[c] # Nil => call[c].kind = "select"
  PROVE  TaskInv'
<1>0. TaskTypeOK /\ CallInv /\ ToldInv /\ k.on \subseteq Handles
  BY DEF TaskInv, Calls
<1>1. CASE k.on \cap finished = {} /\ Wait(c, k) /\ UNCHANGED <<joined, taskVars, told>>
  <2>1. call' = [call EXCEPT ![c] = k] /\ woken' = woken \ {c} /\ cancelled \subseteq Handles
    BY <1>0, <1>1 DEF Wait, TaskTypeOK
  <2>2. UNCHANGED <<phase, joined, tasks, finished, result, cancelled, outcome, told>>
    BY <1>1 DEF taskVars
  <2> QED BY <2>1, <2>2, WaitKeeps
<1>2. ASSUME NEW h \in k.on \cap finished, Return(c), ~Choosable(h) /\ UNCHANGED <<joined, taskVars, told>>
      PROVE  TaskInv'
  BY <1>2, ReturnKeeps DEF handleVars
<1>3. ASSUME NEW h \in k.on \cap finished, Return(c), Choosable(h), joined' = joined \cup {h}, Take(h)
      PROVE  TaskInv'
  BY <1>0, <1>3, TakeKeeps DEF Choosable
<1>4. ASSUME NEW h \in k.on \cap finished, Return(c), Choosable(h), Untake(h), UNCHANGED <<finished, cancelled, outcome, told>>
      PROVE  TaskInv'
  <2>1. h \in tasks /\ h \notin joined
    BY <1>0, <1>4 DEF ToldInv, Choosable
  <2>2. UNCHANGED <<handleVars, taskVars, told>>
    BY <1>4, <2>1 DEF Untake, handleVars, taskVars
  <2> QED BY <1>4, <2>2, ReturnKeeps
<1> QED BY <1>1, <1>2, <1>3, <1>4 DEF PollSelect

LEMMA SelectKeeps ==
  ASSUME TaskInv, NEW c \in Callers, Select(c)
  PROVE  TaskInv'
<1>1. PICK on \in (SUBSET {h \in Handles : Joinable(h)}) \ {{}}, handler \in BOOLEAN :
        /\ Idle(c) /\ UNCHANGED phase
        /\ PollSelect(c, [kind |-> "select", on |-> on, handler |-> handler])
  BY DEF Select
<1> DEFINE k == [kind |-> "select", on |-> on, handler |-> handler]
<1>2. k \in Calls /\ k.kind = "select" /\ k.on = on
  BY DEF Calls
<1>3. (\A h \in on : Live(h)) /\ call[c] = Nil
  BY <1>1 DEF Joinable, Idle
<1>4. PollSelect(c, k)
  BY <1>1
<1> HIDE DEF k
<1> QED BY <1>1, <1>2, <1>3, <1>4, PollSelectKeeps

LEMMA PollKeeps ==
  ASSUME TaskInv, NEW c \in Callers, Poll(c)
  PROVE  TaskInv'
<1>0. TaskTypeOK /\ CallInv /\ UNCHANGED phase /\ call[c] # Nil
  BY DEF TaskInv, Poll, CallInv
<1>1. call[c] \in Calls /\ call[c].on \subseteq Handles
  BY <1>0, CallFacts
<1>2. CASE call[c].kind = "join" /\ (\E h \in call[c].on : PollJoin(c, h)) /\ UNCHANGED joined
  <2>1. PICK h \in call[c].on : PollJoin(c, h)
    BY <1>2
  <2>2. h \in Handles /\ Joins(c, h)
    BY <1>0, <1>1, <1>2 DEF Joins
  <2> QED BY <1>0, <1>2, <2>1, <2>2, PollJoinKeeps
<1>3. CASE call[c].kind = "select" /\ PollSelect(c, call[c])
  <2>1. \A h \in call[c].on : Live(h)
    BY <1>0, <1>1 DEF CallInv, WaitsFor, Idle
  <2> QED BY <1>0, <1>1, <1>3, <2>1, PollSelectKeeps
<1> QED BY <1>2, <1>3 DEF Poll

(***************************************************************************)
(* The end of a handle.                                                    *)
(***************************************************************************)
LEMMA CloseKeeps ==
  ASSUME TaskInv, NEW c \in Callers, NEW t \in Handles, Close(c, t)
  PROVE  TaskInv'
<1>0. TaskTypeOK /\ CallInv /\ ToldInv /\ LeftIsCancelled
  BY DEF TaskInv
<1>1. /\ Idle(c) /\ Live(t) /\ t \notin joined /\ joined' = joined \cup {t}
      /\ cancelled' = cancelled \cup {t} /\ UNCHANGED <<phase, finished, outcome, woken, told>>
  BY DEF Close, Joinable
<1>2. CASE t \in finished /\ tasks' = tasks \ {t} /\ result' = [result EXCEPT ![t] = Nil] /\ UNCHANGED call
  <2>1. TaskTypeOK'
    BY <1>0, <1>1, <1>2 DEF TaskTypeOK
  <2>2. \A d \in Callers, h \in Handles : (Joins(d, h)' <=> Joins(d, h)) /\ (WaitsFor(d, h)' <=> WaitsFor(d, h))
    BY <1>2 DEF Joins, WaitsFor, Idle
  <2>3. CallInv'
    BY <1>0, <1>1, <1>2, <2>2 DEF CallInv, Live
  <2>4. told[t] = <<>> /\ ~Open(t)' /\ \A h \in Handles : Open(h)' => Open(h)
    <3>1. \A d \in Callers : ~Joins(d, t)
      BY <1>0, <1>1 DEF Joins, TaskTypeOK
    <3> QED BY <1>0, <1>1, <2>2, <3>1 DEF Open, ToldInv
  <2>5. ToldInv'
    <3> SUFFICES ASSUME NEW h \in Handles
                 PROVE  /\ Open(h)' => told'[h] = <<>> /\ (h \in finished' => Returns(result'[h]) = outcome'[h])
                        /\ told'[h] # <<>> => told'[h] = <<outcome'[h]>> /\ h \in finished'
                        /\ h \in joined' \cup finished' \cup tasks' \/ result'[h] # Nil => phase'[h] # "unborn"
                        /\ Live(h)' /\ h \notin joined' => h \in tasks'
      BY DEF ToldInv
    <3>1. CASE h = t
      BY <1>0, <1>1, <1>2, <2>4, <3>1 DEF ToldInv, Live
    <3>2. CASE h # t
      BY <1>0, <1>1, <1>2, <2>4, <3>2 DEF ToldInv, TaskTypeOK, Live
    <3> QED BY <3>1, <3>2
  <2>6. LeftIsCancelled'
    BY <1>0, <1>1 DEF LeftIsCancelled
  <2> QED BY <2>1, <2>3, <2>5, <2>6 DEF TaskInv
<1>3. CASE /\ call' = [call EXCEPT ![c] = [kind |-> "join", on |-> {t}, handler |-> FALSE]]
           /\ UNCHANGED <<tasks, result>>
  <2> DEFINE k == [kind |-> "join", on |-> {t}, handler |-> FALSE]
  <2>1. k \in Calls /\ k.kind = "join" /\ k.on = {t} /\ cancelled' \in SUBSET Handles /\ call' = [call EXCEPT ![c] = k]
    BY <1>0, <1>1, <1>3 DEF Calls, TaskTypeOK
  <2> HIDE DEF k
  <2> QED BY <1>1, <1>3, <2>1, WaitKeeps
<1> QED BY <1>2, <1>3 DEF Close

LEMMA CollectKeeps ==
  ASSUME TaskInv, NEW t \in Handles, Collect(t)
  PROVE  TaskInv'
<1>0. TaskTypeOK /\ CallInv /\ ToldInv /\ LeftIsCancelled
  BY DEF TaskInv
<1>1. /\ Live(t) /\ (\A c \in Callers : ~WaitsFor(c, t)) /\ phase' = [phase EXCEPT ![t] = "collected"]
      /\ UNCHANGED <<joined, finished, result, outcome, call, woken, told>>
  BY DEF Collect, callVars
<1>2. \/ t \notin joined /\ tasks' = tasks \ {t} /\ cancelled' = cancelled \cup {t}
      \/ t \in joined /\ UNCHANGED <<tasks, cancelled>>
  BY DEF Collect, Released
<1>3. TaskTypeOK'
  BY <1>0, <1>1, <1>2 DEF TaskTypeOK
<1>4. \A d \in Callers, h \in Handles : (Joins(d, h)' <=> Joins(d, h)) /\ (WaitsFor(d, h)' <=> WaitsFor(d, h))
  BY <1>1 DEF Joins, WaitsFor, Idle
<1>5. \A h \in Handles : Live(h)' <=> Live(h) /\ h # t
  BY <1>0, <1>1 DEF Live, TaskTypeOK
<1>6. CallInv'
  BY <1>0, <1>1, <1>4, <1>5 DEF CallInv
<1>7. \A h \in Handles : Open(h)' <=> Open(h)
  BY <1>1, <1>4 DEF Open
<1>8. ToldInv'
  BY <1>0, <1>1, <1>2, <1>5, <1>7 DEF ToldInv, TaskTypeOK, Live
<1>9. LeftIsCancelled'
  BY <1>0, <1>1, <1>2 DEF LeftIsCancelled, TaskTypeOK
<1> QED BY <1>3, <1>6, <1>8, <1>9 DEF TaskInv

(***************************************************************************)
(* The theorems.                                                           *)
(***************************************************************************)
LEMMA NextIInv == TaskInv /\ [TaskNext]_libVars => TaskInv'
<1> SUFFICES ASSUME TaskInv, [TaskNext]_libVars PROVE TaskInv'
  OBVIOUS
<1>1. ASSUME NEW h \in Handles, SpawnTask(h) \/ CancelScope(h) \/ Finish(h) \/ CancelTask(h) \/ Collect(h) PROVE TaskInv'
  BY <1>1, SpawnTaskKeeps, CancelKeeps, FinishKeeps, CollectKeeps
<1>2. ASSUME NEW c \in Callers, Select(c) \/ Poll(c) PROVE TaskInv'
  BY <1>2, SelectKeeps, PollKeeps
<1>3. ASSUME NEW c \in Callers, Abandon(c) PROVE TaskInv'
  BY <1>3, ReturnKeeps DEF Abandon
<1>4. ASSUME NEW c \in Callers, NEW h \in Handles, Join(c, h) \/ Close(c, h) PROVE TaskInv'
  BY <1>4, JoinKeeps, CloseKeeps
<1>5. CASE UNCHANGED libVars
  BY <1>5 DEF TaskInv, TaskTypeOK, CallInv, ToldInv, LeftIsCancelled, Open, Joins, WaitsFor, Idle, Live, libVars,
              handleVars, taskVars, callVars
<1> QED BY <1>1, <1>2, <1>3, <1>4, <1>5 DEF TaskNext

LEMMA TaskInductive == TaskSpec => []TaskInv
BY InitTaskInv, NextIInv, PTL DEF TaskSpec

\* The types of the registry, the result slots and the calls in progress; a waiting join holds
\* its handle (task_lib.rs join_raw).
THEOREM TaskTypeCorrect == TaskSpec => []TaskTypeOK
BY TaskInductive, PTL DEF TaskInv

\* An unjoined handle finds its task, and the result of a finished one, whatever selects were
\* armed with it, lost or undone (select.rs TaskArm::untake, task_lib.rs Registry).
THEOREM HandlesAreReachable == TaskSpec => []UnjoinedIsReachable
<1>1. TaskInv => UnjoinedIsReachable
  BY DEF TaskInv, ToldInv, UnjoinedIsReachable, Joinable, Open
<1> QED BY <1>1, TaskInductive, PTL

\* Of all the joins and selects on a task one tells its outcome, and as it was
\* (task_lib.rs join_raw, select.rs TaskArm::join).
THEOREM OutcomeToldOnce == TaskSpec => []JoinTellsOutcome
<1>1. TaskInv => JoinTellsOutcome
  BY DEF TaskInv, ToldInv, JoinTellsOutcome
<1> QED BY <1>1, TaskInductive, PTL

\* A running task whose handle was collected unjoined is cancelled (task_lib.rs __gc).
THEOREM LeftTasksAreCancelled == TaskSpec => []LeftIsCancelled
BY TaskInductive, PTL DEF TaskInv
=============================================================================
