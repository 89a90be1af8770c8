-------------------------- MODULE CancelTokenProofs --------------------------
(***************************************************************************)
(* Proofs about CancelToken: every safety invariant TLC checks on small    *)
(* trees holds for every set of tokens, threads and waiters.               *)
(***************************************************************************)
EXTENDS CancelToken, TLAPS, FiniteSetTheorems

------------------------------------------------------------------------------
(* The inductive strengthening of the invariants above. *)

(* A token that exists is in its own chain, which is its parent's chain    *)
(* and itself.                                                             *)
ParentInv ==
  \A c \in Tokens :
    \/ anc[c] = {} /\ parent[c] = None
    \/ anc[c] = {c} /\ parent[c] = None
    \/ parent[c] \in Tokens /\ c \notin anc[parent[c]]
         /\ anc[parent[c]] # {} /\ anc[c] = {c} \cup anc[parent[c]]

ClosedInv == \A r, t \in Tokens : t \in anc[r] => t \in anc[t] /\ anc[t] \subseteq anc[r]

AcyclicInv == \A r, t \in Tokens : t \in anc[r] /\ r \in anc[t] => r = t

(* What induction along a chain would give: on the way from a member of S  *)
(* down to a token outside S, some edge leaves S.                          *)
EdgeInv ==
  \A S \in SUBSET Tokens : \A c \in Tokens :
    c \notin S /\ anc[c] \cap S # {} => \E b \in anc[c] : b \notin S /\ parent[b] \in S

ChainInv == ParentInv /\ ClosedInv /\ AcyclicInv /\ EdgeInv

HandleInv == \A t \in handles : t \in anc[t]

StageInv == \A t \in Tokens : t \in flag <=> stage[t] # "none"

ListInv == \A p, c \in Tokens : c \in kids[p] \cup pending[p] => parent[c] = p

CallOK(th) ==
  /\ pc[th] \in {"swap", "cancel"} =>
       /\ top[th] \in Tokens /\ cur[th] \in Tokens
       /\ top[th] \in anc[cur[th]]
  /\ pc[th] = "register" =>
       /\ top[th] \in Tokens /\ cur[th] \in Tokens
       /\ lock[top[th]] = th /\ parent[cur[th]] = top[th]

CallInv == \A th \in Threads : CallOK(th)

(* An uncancelled live child is where its parent's canceller, running or   *)
(* still to come, will find it.                                            *)
Tracked(p, c) ==
  \/ stage[p] \in {"none", "notify", "take"} /\ c \in kids[p]
  \/ stage[p] = "iter" /\ c \in pending[p]
  \/ \E th \in Threads : pc[th] = "swap" /\ cur[th] = c
  \/ stage[p] \in {"none", "notify", "take"}
       /\ \E th \in Threads : pc[th] = "register" /\ cur[th] = c

TrackInv ==
  \A c, p \in Tokens : parent[c] = p /\ Alive(c) /\ c \notin flag => Tracked(p, c)

(* A cancellation under way is on the stack of some thread. *)
OnStack(th, t) ==
  /\ pc[th] \in {"swap", "cancel"}
  /\ t \in anc[cur[th]] /\ top[th] \in anc[t]
  /\ pc[th] = "swap" => t # cur[th]

OwnerInv ==
  \A t \in Tokens : stage[t] \in {"notify", "take", "iter"} => \E th \in Threads : OnStack(th, t)

IInv == TypeOK /\ ChainInv /\ HandleInv /\ StageInv /\ ListInv /\ CallInv /\ TrackInv /\ OwnerInv

------------------------------------------------------------------------------

(* The invariants of the tree and of the calls, without the cancellation.  *)
Base == TypeOK /\ ChainInv /\ HandleInv /\ ListInv /\ CallInv

(* The state of the tree and of the calls is out of a future's reach. *)
LEMMA WaitFrame ==
  ASSUME NEW w \in Waiters,
         WaitStep(w) \/ Abandon(w) \/ \E t \in Tokens : BeginWait(w, t)
  PROVE  UNCHANGED <<tokenVars, flag, listVars, stage, pending, callVars>>
BY DEF WaitStep, CreateNotified, Enable, Recheck, Wake, Abandon, WaiterStep, EndWait, BeginWait

(* Where the innermost Inner::cancel returns to is a token that exists,    *)
(* and the token the call was made on is still above it.                   *)
LEMMA ReturnTarget ==
  ASSUME TypeOK, ChainInv, CallInv, NEW th \in Threads,
         pc[th] \in {"swap", "cancel"}, cur[th] # top[th]
  PROVE  /\ parent[cur[th]] \in Tokens
         /\ top[th] \in anc[parent[cur[th]]]
         /\ anc[cur[th]] = {cur[th]} \cup anc[parent[cur[th]]]
         /\ cur[th] \notin anc[parent[cur[th]]]
<1>1. top[th] \in Tokens /\ cur[th] \in Tokens /\ top[th] \in anc[cur[th]]
  BY DEF CallInv, CallOK
<1>2. parent[cur[th]] # None
  <2>1. anc[cur[th]] # {} /\ anc[cur[th]] # {cur[th]}
    BY <1>1
  <2>2. QED
    BY <1>1, <2>1, NoneAssumption DEF ChainInv, ParentInv
<1>3. QED
  BY <1>1, <1>2, NoneAssumption DEF ChainInv, ParentInv

LEMMA TypeStep == Base /\ [Next]_vars => TypeOK'
<1> SUFFICES ASSUME Base, [Next]_vars PROVE TypeOK'
  OBVIOUS
<1> USE DEF Base, TypeOK, Stages, ThreadPc, WaiterPc
<1>1. ASSUME NEW t \in Tokens, New(t) PROVE TypeOK'
  BY <1>1 DEF New, listVars, callVars, waitVars
<1>2. ASSUME NEW t \in Tokens, Drop(t) PROVE TypeOK'
  BY <1>2 DEF Drop, listVars, callVars, waitVars
<1>3. ASSUME NEW th \in Threads, SwapFlag(th) PROVE TypeOK'
  <2>1. top[th] \in Tokens /\ cur[th] \in Tokens
    BY <1>3 DEF SwapFlag, CallInv, CallOK
  <2>2. QED
    BY SMTT(30), <1>3, <2>1 DEF SwapFlag, ReturnFromCancel, Finish, listVars, waitVars
<1>4. ASSUME NEW th \in Threads, NotifyWaiters(th) PROVE TypeOK'
  BY <1>4 DEF NotifyWaiters, Notified, tokenVars, listVars, callVars
<1>5. ASSUME NEW th \in Threads, TakeChildren(th) PROVE TypeOK'
  BY <1>5 DEF TakeChildren, tokenVars, callVars, waitVars, CallInv, CallOK
<1>6. ASSUME NEW th \in Threads, NextChild(th) PROVE TypeOK'
  BY <1>6 DEF NextChild, tokenVars, listVars, waitVars, CallInv, CallOK
<1>7. ASSUME NEW th \in Threads, CancelDone(th) PROVE TypeOK'
  <2>1. top[th] \in Tokens /\ cur[th] \in Tokens
    BY <1>7 DEF CancelDone, CallInv, CallOK
  <2>2. QED
    BY SMTT(30), <1>7, <2>1 DEF CancelDone, ReturnFromCancel, Finish, listVars, waitVars
<1>8. ASSUME NEW th \in Threads, RegisterChild(th) PROVE TypeOK'
  <2>1. top[th] \in Tokens /\ cur[th] \in Tokens
    BY <1>8 DEF RegisterChild, CallInv, CallOK
  <2>2. LiveKids(top[th]) \subseteq Tokens /\ IsFiniteSet(LiveKids(top[th]))
    BY <2>1, TokensFinite, FS_Subset DEF LiveKids
  <2>3. AtLeast(2 * Cardinality(LiveKids(top[th])), SweepMin) \in Nat
    <3>1. Cardinality(LiveKids(top[th])) \in Nat
      BY <2>2, FS_CardinalityType
    <3>2. QED
      BY <3>1, SweepMinAssumption DEF AtLeast
  <2>4. /\ kids' \in [Tokens -> SUBSET Tokens]
        /\ sweepAt' \in [Tokens -> Nat]
    BY <1>8, <2>1, <2>2, <2>3 DEF RegisterChild
  <2>5. QED
    BY <1>8, <2>1, <2>4 DEF RegisterChild, Finish, waitVars
<1>9. ASSUME NEW th \in Threads, NEW t \in Tokens, CancelCall(th, t) PROVE TypeOK'
  BY <1>9 DEF CancelCall, tokenVars, listVars, waitVars
<1>10. ASSUME NEW th \in Threads, NEW p \in Tokens, NEW c \in Tokens, ChildToken(th, p, c)
       PROVE TypeOK'
  <2>1. /\ anc' \in [Tokens -> SUBSET Tokens]
        /\ parent' \in [Tokens -> Tokens \cup {None}]
    BY <1>10 DEF ChildToken
  <2>2. /\ pc' \in [Threads -> ThreadPc]
        /\ top' \in [Threads -> Tokens \cup {None}]
        /\ cur' \in [Threads -> Tokens \cup {None}]
        /\ lock' \in [Tokens -> Threads \cup {None}]
    BY SMTT(30), <1>10 DEF ChildToken
  <2>3. QED
    BY <1>10, <2>1, <2>2 DEF ChildToken, waitVars
<1>11. ASSUME NEW w \in Waiters, WaitStep(w) \/ Abandon(w) PROVE TypeOK'
  BY <1>11 DEF WaitStep, CreateNotified, Enable, Recheck, Wake, Abandon, WaiterStep, EndWait,
               tokenVars, listVars, callVars
<1>12. ASSUME NEW w \in Waiters, NEW t \in Tokens, BeginWait(w, t) PROVE TypeOK'
  BY <1>12 DEF BeginWait, tokenVars, listVars, callVars
<1>13. CASE UNCHANGED vars
  BY <1>13 DEF vars, tokenVars, listVars, callVars, waitVars
<1>14. QED
  BY <1>1, <1>2, <1>3, <1>4, <1>5, <1>6, <1>7, <1>8, <1>9, <1>10, <1>11, <1>12, <1>13
     DEF Next, CancelStep

------------------------------------------------------------------------------
(* The chains of parents change only when a token is made. *)

LEMMA ChainFrame ==
  ASSUME ChainInv, UNCHANGED <<parent, anc>>
  PROVE  ChainInv'
BY DEF ChainInv, ParentInv, ClosedInv, AcyclicInv, EdgeInv

(* A token in nobody's list of children is not in any chain before it exists. *)
LEMMA UnbornOutside ==
  ASSUME TypeOK, ChainInv, NEW t \in Tokens, Unborn(t)
  PROVE  /\ \A r \in Tokens : t \notin anc[r]
         /\ \A r \in Tokens : parent[r] # t
         /\ parent[t] = None
<1>1. \A r \in Tokens : t \notin anc[r]
  BY DEF ChainInv, ClosedInv, Unborn
<1>2. \A r \in Tokens : parent[r] # t
  BY NoneAssumption DEF ChainInv, ParentInv, Unborn
<1>3. parent[t] = None
  BY DEF ChainInv, ParentInv, Unborn
<1>4. QED
  BY <1>1, <1>2, <1>3

LEMMA NewChain ==
  ASSUME TypeOK, ChainInv, NEW t \in Tokens, New(t)
  PROVE  ChainInv'
<1>1. Unborn(t) /\ anc' = [anc EXCEPT ![t] = {t}] /\ parent' = parent
  BY DEF New
<1>2. /\ \A r \in Tokens : t \notin anc[r] /\ parent[r] # t
      /\ parent[t] = None
  BY <1>1, UnbornOutside
<1>3. /\ anc'[t] = {t}
      /\ \A r \in Tokens \ {t} : anc'[r] = anc[r]
  BY <1>1 DEF TypeOK
<1>4. ParentInv'
  BY <1>1, <1>2, <1>3, NoneAssumption DEF ChainInv, ParentInv
<1>5. ClosedInv'
  BY <1>2, <1>3 DEF ChainInv, ClosedInv
<1>6. AcyclicInv'
  BY <1>2, <1>3 DEF ChainInv, AcyclicInv
<1>7. EdgeInv'
  <2> SUFFICES ASSUME NEW S \in SUBSET Tokens, NEW c \in Tokens,
                      c \notin S, anc'[c] \cap S # {}
               PROVE  \E b \in anc'[c] : b \notin S /\ parent'[b] \in S
    BY DEF EdgeInv
  <2>1. c # t
    BY <1>3
  <2>2. QED
    BY <1>1, <1>3, <2>1 DEF ChainInv, EdgeInv
<1>8. QED
  BY <1>4, <1>5, <1>6, <1>7 DEF ChainInv

LEMMA ChildChain ==
  ASSUME TypeOK, ChainInv, NEW th \in Threads, NEW p \in Tokens, NEW c \in Tokens,
         ChildToken(th, p, c), anc[p] # {}
  PROVE  ChainInv'
<1>1. Unborn(c) /\ anc' = [anc EXCEPT ![c] = {c} \cup anc[p]] /\ parent' = [parent EXCEPT ![c] = p]
  BY DEF ChildToken
<1>2. /\ \A r \in Tokens : c \notin anc[r] /\ parent[r] # c
      /\ p # c
  BY <1>1, UnbornOutside DEF Unborn
<1>3. /\ anc'[c] = {c} \cup anc[p] /\ parent'[c] = p
      /\ \A r \in Tokens \ {c} : anc'[r] = anc[r] /\ parent'[r] = parent[r]
  BY <1>1 DEF TypeOK
<1>4. p \in anc[p]
  BY NoneAssumption DEF ChainInv, ParentInv
<1>5. ParentInv'
  <2> SUFFICES ASSUME NEW k \in Tokens
               PROVE  \/ anc'[k] = {} /\ parent'[k] = None
                      \/ anc'[k] = {k} /\ parent'[k] = None
                      \/ parent'[k] \in Tokens /\ k \notin anc'[parent'[k]]
                           /\ anc'[parent'[k]] # {} /\ anc'[k] = {k} \cup anc'[parent'[k]]
    BY DEF ParentInv
  <2>1. CASE k = c
    BY <2>1, <1>2, <1>3
  <2>2. CASE k # c
    BY <2>2, <1>2, <1>3 DEF ChainInv, ParentInv
  <2>3. QED
    BY <2>1, <2>2
<1>6. ClosedInv'
  BY <1>2, <1>3, <1>4 DEF ChainInv, ClosedInv
<1>7. AcyclicInv'
  BY <1>2, <1>3 DEF ChainInv, AcyclicInv
<1>8. EdgeInv'
  <2> SUFFICES ASSUME NEW S \in SUBSET Tokens, NEW k \in Tokens,
                      k \notin S, anc'[k] \cap S # {}
               PROVE  \E b \in anc'[k] : b \notin S /\ parent'[b] \in S
    BY DEF EdgeInv
  <2>1. CASE k # c
    <3>1. PICK b \in anc[k] : b \notin S /\ parent[b] \in S
      BY <2>1, <1>3 DEF ChainInv, EdgeInv
    <3>2. b # c /\ b \in Tokens
      BY <3>1, <1>2 DEF TypeOK
    <3>3. QED
      BY <2>1, <3>1, <3>2, <1>3
  <2>2. CASE k = c /\ p \in S
    BY <2>2, <1>3
  <2>3. CASE k = c /\ p \notin S
    <3>1. anc[p] \cap S # {}
      BY <2>3, <1>3
    <3>2. PICK b \in anc[p] : b \notin S /\ parent[b] \in S
      BY <2>3, <3>1 DEF ChainInv, EdgeInv
    <3>3. b # c /\ b \in Tokens
      BY <3>2, <1>2 DEF TypeOK
    <3>4. QED
      BY <2>3, <3>2, <3>3, <1>3
  <2>4. QED
    BY <2>1, <2>2, <2>3
<1>9. QED
  BY <1>5, <1>6, <1>7, <1>8 DEF ChainInv

LEMMA ChainStep == Base /\ [Next]_vars => ChainInv'
<1> SUFFICES ASSUME Base, [Next]_vars PROVE ChainInv'
  OBVIOUS
<1>1. ASSUME NEW t \in Tokens, New(t) PROVE ChainInv'
  BY <1>1, NewChain DEF Base
<1>2. ASSUME NEW th \in Threads, NEW p \in Tokens, NEW c \in Tokens, ChildToken(th, p, c)
      PROVE  ChainInv'
  <2>1. anc[p] # {}
    BY <1>2 DEF ChildToken, Base, HandleInv
  <2>2. QED
    BY <1>2, <2>1, ChildChain DEF Base
<1>3. CASE UNCHANGED <<parent, anc>>
  BY <1>3, ChainFrame DEF Base
<1>4. CASE \E t \in Tokens : Drop(t)
  BY <1>4, <1>3 DEF Drop
<1>5. CASE \E th \in Threads : CancelStep(th)
  BY <1>5, <1>3 DEF CancelStep, SwapFlag, NotifyWaiters, TakeChildren, NextChild, CancelDone,
                    RegisterChild, tokenVars
<1>6. CASE \E th \in Threads, t \in Tokens : CancelCall(th, t)
  BY <1>6, <1>3 DEF CancelCall, tokenVars
<1>7. CASE \E w \in Waiters : WaitStep(w) \/ Abandon(w) \/ \E t \in Tokens : BeginWait(w, t)
  BY <1>7, <1>3, WaitFrame DEF tokenVars
<1>8. CASE UNCHANGED vars
  BY <1>8, <1>3 DEF vars, tokenVars
<1>9. QED
  BY <1>1, <1>2, <1>4, <1>5, <1>6, <1>7, <1>8 DEF Next

LEMMA HandleStep == Base /\ [Next]_vars => HandleInv'
<1> SUFFICES ASSUME Base, [Next]_vars PROVE HandleInv'
  OBVIOUS
<1> USE DEF Base, HandleInv
<1>1. ASSUME NEW t \in Tokens, New(t) PROVE HandleInv'
  BY <1>1 DEF New, TypeOK
<1>2. ASSUME NEW th \in Threads, NEW p \in Tokens, NEW c \in Tokens, ChildToken(th, p, c)
      PROVE  HandleInv'
  BY <1>2 DEF ChildToken, TypeOK
<1>3. ASSUME NEW t \in Tokens, Drop(t) PROVE HandleInv'
  BY <1>3 DEF Drop
<1>4. ASSUME NEW th \in Threads, SwapFlag(th) \/ CancelDone(th) PROVE HandleInv'
  <2>1. top[th] \in Tokens /\ top[th] \in anc[cur[th]] /\ cur[th] \in Tokens
    BY <1>4 DEF SwapFlag, CancelDone, CallInv, CallOK
  <2>2. top[th] \in anc[top[th]]
    BY <2>1 DEF ChainInv, ClosedInv
  <2>3. handles' \subseteq handles \cup {top[th]} /\ anc' = anc
    BY <1>4 DEF SwapFlag, CancelDone, ReturnFromCancel, Finish
  <2>4. QED
    BY <2>2, <2>3
<1>5. ASSUME NEW th \in Threads, RegisterChild(th) PROVE HandleInv'
  <2>1. parent[cur[th]] \in Tokens /\ cur[th] \in Tokens
    BY <1>5 DEF RegisterChild, CallInv, CallOK
  <2>2. cur[th] \in anc[cur[th]]
    BY <2>1, NoneAssumption DEF ChainInv, ParentInv
  <2>3. QED
    BY <1>5, <2>2 DEF RegisterChild
<1>6. ASSUME UNCHANGED <<anc, handles>> PROVE HandleInv'
  BY <1>6
<1>7. ASSUME NEW th \in Threads, NotifyWaiters(th) \/ TakeChildren(th) \/ NextChild(th)
      PROVE  HandleInv'
  BY <1>6, <1>7 DEF NotifyWaiters, TakeChildren, NextChild, tokenVars
<1>8. ASSUME NEW th \in Threads, NEW t \in Tokens, CancelCall(th, t) PROVE HandleInv'
  BY <1>6, <1>8 DEF CancelCall, tokenVars
<1>9. ASSUME NEW w \in Waiters, WaitStep(w) \/ Abandon(w) \/ \E t \in Tokens : BeginWait(w, t)
      PROVE  HandleInv'
  BY <1>6, <1>9, WaitFrame DEF tokenVars
<1>10. CASE UNCHANGED vars
  BY <1>6, <1>10 DEF vars, tokenVars
<1>11. QED
  BY <1>1, <1>2, <1>3, <1>4, <1>5, <1>7, <1>8, <1>9, <1>10 DEF Next, CancelStep

LEMMA ListStep == Base /\ [Next]_vars => ListInv'
<1> SUFFICES ASSUME Base, [Next]_vars PROVE ListInv'
  OBVIOUS
<1> USE DEF Base, ListInv
<1>1. ASSUME UNCHANGED <<parent, kids, pending>> PROVE ListInv'
  BY <1>1
<1>2. ASSUME NEW th \in Threads, NEW p \in Tokens, NEW c \in Tokens, ChildToken(th, p, c)
      PROVE  ListInv'
  <2>1. /\ parent' = [parent EXCEPT ![c] = p] /\ kids' = kids /\ pending' = pending
        /\ Unborn(c)
    BY <1>2 DEF ChildToken, listVars
  <2>2. parent[c] = None
    BY <2>1, UnbornOutside
  <2>3. \A q \in Tokens : c \notin kids[q] \cup pending[q]
    BY <2>2, NoneAssumption
  <2>4. QED
    BY <2>1, <2>3 DEF TypeOK
<1>3. ASSUME NEW th \in Threads, TakeChildren(th) PROVE ListInv'
  BY <1>3 DEF TakeChildren, tokenVars, TypeOK
<1>4. ASSUME NEW th \in Threads, NextChild(th) PROVE ListInv'
  BY <1>4 DEF NextChild, tokenVars, listVars, TypeOK
<1>5. ASSUME NEW th \in Threads, RegisterChild(th) PROVE ListInv'
  <2>1. /\ top[th] \in Tokens /\ cur[th] \in Tokens
        /\ parent[cur[th]] = top[th]
    BY <1>5 DEF RegisterChild, CallInv, CallOK
  <2>2. /\ kids'[top[th]] \subseteq kids[top[th]] \cup {cur[th]}
        /\ \A q \in Tokens \ {top[th]} : kids'[q] = kids[q]
        /\ parent' = parent /\ pending' = pending
    BY <1>5, <2>1 DEF RegisterChild, LiveKids, TypeOK
  <2>3. QED
    BY <2>1, <2>2
<1>6. ASSUME NEW th \in Threads, SwapFlag(th) \/ NotifyWaiters(th) \/ CancelDone(th)
      PROVE  ListInv'
  BY <1>1, <1>6 DEF SwapFlag, NotifyWaiters, CancelDone, tokenVars, listVars
<1>7. ASSUME NEW t \in Tokens, New(t) \/ Drop(t) PROVE ListInv'
  BY <1>1, <1>7 DEF New, Drop, listVars
<1>8. ASSUME NEW th \in Threads, NEW t \in Tokens, CancelCall(th, t) PROVE ListInv'
  BY <1>1, <1>8 DEF CancelCall, tokenVars, listVars
<1>9. ASSUME NEW w \in Waiters, WaitStep(w) \/ Abandon(w) \/ \E t \in Tokens : BeginWait(w, t)
      PROVE  ListInv'
  BY <1>1, <1>9, WaitFrame DEF tokenVars, listVars
<1>10. CASE UNCHANGED vars
  BY <1>1, <1>10 DEF vars, tokenVars, listVars
<1>11. QED
  BY <1>2, <1>3, <1>4, <1>5, <1>6, <1>7, <1>8, <1>9, <1>10 DEF Next, CancelStep

LEMMA CallStep == Base /\ [Next]_vars => CallInv'
<1> SUFFICES ASSUME Base, [Next]_vars PROVE CallInv'
  OBVIOUS
<1> USE DEF Base, CallInv, CallOK
<1>1. ASSUME UNCHANGED <<parent, lock, callVars>>, \A t \in Tokens : anc[t] \subseteq anc'[t]
      PROVE  CallInv'
  BY <1>1 DEF callVars
<1>2. ASSUME NEW t \in Tokens, New(t) PROVE CallInv'
  BY <1>1, <1>2 DEF New, listVars, Unborn, TypeOK
<1>3. ASSUME NEW th \in Threads, NEW t \in Tokens, CancelCall(th, t) PROVE CallInv'
  <2>1. t \in anc[t]
    BY <1>3 DEF CancelCall, HandleInv
  <2>2. QED
    BY <1>3, <2>1 DEF CancelCall, tokenVars, listVars, TypeOK
<1>4. ASSUME NEW th \in Threads, SwapFlag(th) \/ CancelDone(th) PROVE CallInv'
  <2>1. /\ pc[th] \in {"swap", "cancel"}
        /\ top[th] \in Tokens /\ cur[th] \in Tokens /\ top[th] \in anc[cur[th]]
        /\ UNCHANGED <<parent, anc, lock>>
    BY <1>4 DEF SwapFlag, CancelDone, listVars
  <2>2. \A o \in Threads \ {th} : pc'[o] = pc[o] /\ top'[o] = top[o] /\ cur'[o] = cur[o]
    BY <1>4 DEF SwapFlag, CancelDone, ReturnFromCancel, Finish, TypeOK
  <2>3. CallOK(th)'
    <3>1. CASE ReturnFromCancel(th) /\ cur[th] = top[th]
      BY <3>1 DEF ReturnFromCancel, Finish, TypeOK
    <3>2. CASE ReturnFromCancel(th) /\ cur[th] # top[th]
      <4>1. parent[cur[th]] \in Tokens /\ top[th] \in anc[parent[cur[th]]]
        BY <2>1, <3>2, ReturnTarget
      <4>2. pc'[th] = "cancel" /\ cur'[th] = parent[cur[th]] /\ top'[th] = top[th]
        BY <3>2 DEF ReturnFromCancel, TypeOK
      <4>3. QED
        BY <2>1, <4>1, <4>2
    <3>3. CASE pc' = [pc EXCEPT ![th] = "cancel"] /\ UNCHANGED <<top, cur>>
      BY <2>1, <3>3 DEF TypeOK
    <3>4. QED
      BY <1>4, <3>1, <3>2, <3>3 DEF SwapFlag, CancelDone
  <2>4. QED
    BY <2>1, <2>2, <2>3
<1>5. ASSUME NEW th \in Threads, NextChild(th) PROVE CallInv'
  <2>1. /\ top[th] \in Tokens /\ cur[th] \in Tokens /\ top[th] \in anc[cur[th]]
    BY <1>5 DEF NextChild
  <2>2. PICK c \in pending[cur[th]] :
              \/ pc' = [pc EXCEPT ![th] = "swap"] /\ cur' = [cur EXCEPT ![th] = c]
              \/ UNCHANGED <<pc, cur>>
    BY <1>5 DEF NextChild
  <2>3. c \in Tokens /\ parent[c] = cur[th]
    BY <2>1, <2>2 DEF TypeOK, ListInv
  <2>4. top[th] \in anc[c]
    BY <2>1, <2>3, NoneAssumption DEF ChainInv, ParentInv
  <2>5. QED
    BY <1>5, <2>1, <2>2, <2>3, <2>4 DEF NextChild, tokenVars, listVars, TypeOK
<1>6. ASSUME NEW th \in Threads, NEW p \in Tokens, NEW c \in Tokens, ChildToken(th, p, c)
      PROVE  CallInv'
  <2>1. /\ parent[c] = None /\ anc[c] = {}
        /\ anc' = [anc EXCEPT ![c] = {c} \cup anc[p]]
        /\ parent' = [parent EXCEPT ![c] = p]
        /\ lock[p] = None /\ pc[th] = "idle"
    BY <1>6, UnbornOutside DEF ChildToken, Unborn
  <2>2. \A o \in Threads \ {th} : CallOK(o)'
    <3> SUFFICES ASSUME NEW o \in Threads \ {th} PROVE CallOK(o)'
      OBVIOUS
    <3>1. pc'[o] = pc[o] /\ top'[o] = top[o] /\ cur'[o] = cur[o]
      BY <1>6 DEF ChildToken, TypeOK
    <3>2. CASE pc[o] \in {"swap", "cancel"}
      BY <2>1, <3>1, <3>2 DEF TypeOK
    <3>3. CASE pc[o] = "register"
      <4>1. top[o] # p /\ cur[o] # c
        BY <2>1, <3>3, NoneAssumption
      <4>2. lock'[top[o]] = lock[top[o]]
        BY <1>6, <3>3, <4>1 DEF ChildToken, TypeOK
      <4>3. QED
        BY <2>1, <3>1, <3>3, <4>1, <4>2 DEF TypeOK
    <3>4. QED
      BY <3>1, <3>2, <3>3
  <2>3. CallOK(th)'
    BY <1>6, <2>1 DEF ChildToken, TypeOK
  <2>4. QED
    BY <2>2, <2>3
<1>7. ASSUME NEW th \in Threads, RegisterChild(th) PROVE CallInv'
  <2>1. \A o \in Threads \ {th} : pc[o] = "register" => top[o] # top[th]
    BY <1>7 DEF RegisterChild
  <2>2. QED
    BY <1>7, <2>1 DEF RegisterChild, Finish, TypeOK
<1>8. ASSUME NEW th \in Threads, NotifyWaiters(th) \/ TakeChildren(th) PROVE CallInv'
  BY <1>1, <1>8 DEF NotifyWaiters, TakeChildren, tokenVars, listVars
<1>9. ASSUME NEW t \in Tokens, Drop(t) PROVE CallInv'
  BY <1>1, <1>9 DEF Drop, listVars
<1>10. ASSUME NEW w \in Waiters, WaitStep(w) \/ Abandon(w) \/ \E t \in Tokens : BeginWait(w, t)
       PROVE  CallInv'
  BY <1>1, <1>10, WaitFrame DEF tokenVars, listVars
<1>11. CASE UNCHANGED vars
  BY <1>1, <1>11 DEF vars, tokenVars, listVars
<1>12. QED
  BY <1>2, <1>3, <1>4, <1>5, <1>6, <1>7, <1>8, <1>9, <1>10, <1>11 DEF Next, CancelStep

------------------------------------------------------------------------------
(* A token whose last reference is gone never comes back: no step makes    *)
(* alive a token that was not, but for the one it creates.                 *)

LEMMA ReturnRevivesNone ==
  ASSUME Base, NEW th \in Threads, pc[th] \in {"swap", "cancel"}, ReturnFromCancel(th),
         UNCHANGED <<parent, anc>>, NEW t \in Tokens, Alive(t)'
  PROVE  Alive(t)
<1>1. cur[th] \in Referenced
  BY DEF Referenced, Busy
<1>2. CASE cur[th] = top[th]
  <2>1. Referenced' \subseteq Referenced
    BY <1>1, <1>2 DEF Base, TypeOK, ReturnFromCancel, Finish, Referenced, Busy
  <2>2. QED
    BY <2>1 DEF Alive
<1>3. CASE cur[th] # top[th]
  <2>1. anc[parent[cur[th]]] \subseteq anc[cur[th]]
    BY <1>3, ReturnTarget DEF Base
  <2>2. Referenced' \subseteq Referenced \cup {parent[cur[th]]}
    BY <1>3 DEF Base, TypeOK, ReturnFromCancel, Referenced, Busy
  <2>3. QED
    BY <1>1, <2>1, <2>2 DEF Alive
<1>4. QED
  BY <1>2, <1>3

LEMMA AliveFrame ==
  ASSUME UNCHANGED <<anc, handles, callVars>>, NEW t \in Tokens
  PROVE  Alive(t)' <=> Alive(t)
BY DEF Alive, Referenced, Busy, callVars

LEMMA CallRevivesNone ==
  ASSUME Base, NEW th \in Threads, NEW x \in Tokens, CancelCall(th, x),
         NEW t \in Tokens, Alive(t)'
  PROVE  Alive(t)
<1>1. Referenced' \subseteq Referenced /\ anc' = anc
  BY DEF Base, TypeOK, CancelCall, Referenced, Busy, tokenVars
<1>2. QED
  BY <1>1 DEF Alive

LEMMA NextChildRevivesNone ==
  ASSUME Base, NEW th \in Threads, NextChild(th), NEW t \in Tokens, Alive(t)'
  PROVE  Alive(t)
<1>1. PICK c \in pending[cur[th]] :
            \/ Alive(c) /\ pc' = [pc EXCEPT ![th] = "swap"] /\ cur' = [cur EXCEPT ![th] = c]
            \/ UNCHANGED <<pc, cur>>
  BY DEF NextChild
<1>2. anc' = anc /\ handles' = handles /\ top' = top
  BY DEF NextChild, tokenVars
<1>3. CASE UNCHANGED <<pc, cur>>
  BY <1>2, <1>3 DEF Alive, Referenced, Busy
<1>4. CASE Alive(c) /\ pc' = [pc EXCEPT ![th] = "swap"] /\ cur' = [cur EXCEPT ![th] = c]
  <2>1. c \in Tokens
    BY <1>1 DEF Base, TypeOK, NextChild, CallInv, CallOK
  <2>2. PICK r \in Referenced : c \in anc[r]
    BY <1>4 DEF Alive
  <2>3. r \in Tokens
    BY <2>2 DEF Base, TypeOK, Referenced, Busy, CallInv, CallOK, ThreadPc
  <2>4. anc[c] \subseteq anc[r]
    BY <2>1, <2>2, <2>3 DEF Base, ChainInv, ClosedInv
  <2>5. Referenced' \subseteq Referenced \cup {c}
    BY <1>2, <1>4 DEF Base, TypeOK, Referenced, Busy
  <2>6. QED
    BY <1>2, <2>2, <2>4, <2>5 DEF Alive
<1>5. QED
  BY <1>1, <1>3, <1>4

LEMMA RegisterRevivesNone ==
  ASSUME Base, NEW th \in Threads, RegisterChild(th), NEW t \in Tokens
  PROVE  Alive(t)' => Alive(t)
<1>1. Referenced' \subseteq Referenced /\ anc' = anc
  BY DEF Base, TypeOK, RegisterChild, Finish, Referenced, Busy
<1>2. QED
  BY <1>1 DEF Alive

LEMMA CreationRevivesNone ==
  ASSUME Base, NEW c \in Tokens,
         New(c) \/ \E th \in Threads, p \in Tokens : ChildToken(th, p, c),
         NEW t \in Tokens, t # c, Alive(t)'
  PROVE  Alive(t)
<1>1. CASE New(c)
  <2>1. Referenced' = Referenced \cup {c} /\ anc' = [anc EXCEPT ![c] = {c}]
    BY <1>1 DEF New, Referenced, Busy, callVars
  <2>2. QED
    BY <2>1 DEF Base, TypeOK, Alive
<1>2. ASSUME NEW th \in Threads, NEW p \in Tokens, ChildToken(th, p, c) PROVE Alive(t)
  <2>1. /\ Referenced' \subseteq Referenced \cup {c}
        /\ p \in Referenced
        /\ anc' = [anc EXCEPT ![c] = {c} \cup anc[p]]
    BY <1>2 DEF Base, TypeOK, ChildToken, Referenced, Busy
  <2>2. QED
    BY <2>1 DEF Base, TypeOK, Alive
<1>3. QED
  BY <1>1, <1>2

------------------------------------------------------------------------------
LEMMA StageStep == Base /\ StageInv /\ [Next]_vars => StageInv'
<1> SUFFICES ASSUME Base, StageInv, [Next]_vars PROVE StageInv'
  OBVIOUS
<1> USE DEF Base, TypeOK, StageInv
<1>1. ASSUME UNCHANGED <<flag, stage>> PROVE StageInv'
  BY <1>1
<1>2. ASSUME NEW th \in Threads, SwapFlag(th) PROVE StageInv'
  BY <1>2 DEF SwapFlag, CallInv, CallOK
<1>3. ASSUME NEW th \in Threads, NotifyWaiters(th) \/ TakeChildren(th) \/ CancelDone(th)
      PROVE  StageInv'
  BY <1>3 DEF NotifyWaiters, TakeChildren, CancelDone, CallInv, CallOK
<1>4. ASSUME NEW th \in Threads, NextChild(th) \/ RegisterChild(th) PROVE StageInv'
  BY <1>1, <1>4 DEF NextChild, RegisterChild
<1>5. ASSUME NEW t \in Tokens, New(t) \/ Drop(t) PROVE StageInv'
  BY <1>1, <1>5 DEF New, Drop
<1>6. ASSUME NEW th \in Threads, NEW t \in Tokens,
             CancelCall(th, t) \/ \E c \in Tokens : ChildToken(th, t, c)
      PROVE  StageInv'
  BY <1>1, <1>6 DEF CancelCall, ChildToken
<1>7. ASSUME NEW w \in Waiters, WaitStep(w) \/ Abandon(w) \/ \E t \in Tokens : BeginWait(w, t)
      PROVE  StageInv'
  BY <1>1, <1>7, WaitFrame
<1>8. CASE UNCHANGED vars
  BY <1>1, <1>8 DEF vars
<1>9. QED
  BY <1>2, <1>3, <1>4, <1>5, <1>6, <1>7, <1>8 DEF Next, CancelStep

------------------------------------------------------------------------------
(* Every uncancelled live child stays where a canceller of its parent      *)
(* finds it, and every cancellation under way stays on a stack.            *)

LEMMA TrackStep == Base /\ StageInv /\ TrackInv /\ [Next]_vars => TrackInv'
<1> SUFFICES ASSUME Base, StageInv, TrackInv, [Next]_vars,
                    NEW c \in Tokens, NEW p \in Tokens,
                    parent'[c] = p, Alive(c)', c \notin flag'
             PROVE  Tracked(p, c)'
  BY DEF TrackInv
<1> USE DEF Base, TypeOK, CallInv, CallOK
<1>1. ASSUME UNCHANGED <<tokenVars, flag, kids, stage, pending, callVars>> PROVE Tracked(p, c)'
  <2>1. Alive(c)
    BY <1>1, AliveFrame DEF tokenVars
  <2>2. QED
    BY <1>1, <2>1 DEF TrackInv, Tracked, callVars, tokenVars
<1>2. ASSUME NEW t \in Tokens, New(t) PROVE Tracked(p, c)'
  <2>1. parent[t] = None /\ parent' = parent
    BY <1>2, UnbornOutside DEF New
  <2>2. c # t
    BY <2>1, NoneAssumption
  <2>3. Alive(c)
    BY <1>2, <2>2, CreationRevivesNone
  <2>4. QED
    BY <1>2, <2>1, <2>3 DEF New, TrackInv, Tracked, callVars, listVars
<1>3. ASSUME NEW t \in Tokens, Drop(t) PROVE Tracked(p, c)'
  <2>1. Alive(c)
    BY <1>3 DEF Drop, Alive, Referenced, Busy, callVars
  <2>2. QED
    BY <1>3, <2>1 DEF Drop, TrackInv, Tracked, callVars, listVars
<1>4. ASSUME NEW th \in Threads, NEW t \in Tokens, CancelCall(th, t) PROVE Tracked(p, c)'
  <2>1. Alive(c) /\ Tracked(p, c)
    BY <1>4, CallRevivesNone DEF CancelCall, tokenVars, TrackInv
  <2>2. QED
    BY <1>4, <2>1 DEF CancelCall, tokenVars, listVars, Tracked
<1>5. ASSUME NEW th \in Threads, SwapFlag(th) PROVE Tracked(p, c)'
  <2>1. CASE cur[th] \in flag
    <3>1. Alive(c) /\ Tracked(p, c)
      BY <1>5, <2>1, ReturnRevivesNone DEF SwapFlag, TrackInv
    <3>2. c # cur[th]
      BY <1>5, <2>1 DEF SwapFlag
    <3>3. UNCHANGED <<kids, stage, pending>> /\ pc[th] = "swap"
      BY <1>5, <2>1 DEF SwapFlag, listVars
    <3>4. \A o \in Threads \ {th} : pc'[o] = pc[o] /\ cur'[o] = cur[o]
      BY <1>5, <2>1 DEF SwapFlag, ReturnFromCancel, Finish
    <3>5. QED
      BY <3>1, <3>2, <3>3, <3>4 DEF Tracked
  <2>2. CASE cur[th] \notin flag
    <3>1. /\ flag' = flag \cup {cur[th]} /\ stage' = [stage EXCEPT ![cur[th]] = "notify"]
          /\ pc' = [pc EXCEPT ![th] = "cancel"] /\ pc[th] = "swap" /\ cur[th] \in Tokens
          /\ UNCHANGED <<top, cur, handles, parent, anc, kids, pending>>
      BY <1>5, <2>2 DEF SwapFlag, listVars
    <3>2. Alive(c)
      BY <3>1 DEF Alive, Referenced, Busy
    <3>3. Tracked(p, c) /\ c # cur[th]
      BY <3>1, <3>2 DEF TrackInv
    <3>4. stage[cur[th]] = "none"
      BY <2>2, <3>1 DEF StageInv
    <3>5. QED
      BY <3>1, <3>3, <3>4 DEF Tracked
  <2>3. QED
    BY <2>1, <2>2
<1>6. ASSUME NEW th \in Threads, NotifyWaiters(th) PROVE Tracked(p, c)'
  <2>1. Alive(c) /\ Tracked(p, c)
    BY <1>6, AliveFrame DEF NotifyWaiters, tokenVars, TrackInv
  <2>2. QED
    BY <1>6, <2>1 DEF NotifyWaiters, tokenVars, listVars, callVars, Tracked
<1>7. ASSUME NEW th \in Threads, TakeChildren(th) PROVE Tracked(p, c)'
  <2>1. Alive(c) /\ Tracked(p, c)
    BY <1>7, AliveFrame DEF TakeChildren, tokenVars, TrackInv
  <2>2. ASSUME NEW o \in Threads, pc[o] = "register", cur[o] = c PROVE p # cur[th]
    BY <1>7, <2>2, NoneAssumption DEF TakeChildren, tokenVars
  <2>3. QED
    BY <1>7, <2>1, <2>2 DEF TakeChildren, tokenVars, callVars, Tracked
<1>8. ASSUME NEW th \in Threads, NextChild(th) PROVE Tracked(p, c)'
  <2>1. Alive(c) /\ Tracked(p, c)
    BY <1>8, NextChildRevivesNone DEF NextChild, tokenVars, TrackInv
  <2>2. PICK k \in pending[cur[th]] :
              /\ pending' = [pending EXCEPT ![cur[th]] = @ \ {k}]
              /\ \/ pc' = [pc EXCEPT ![th] = "swap"] /\ cur' = [cur EXCEPT ![th] = k]
                 \/ ~Alive(k) /\ UNCHANGED <<pc, cur>>
    BY <1>8 DEF NextChild
  <2>3. pc[th] = "cancel" /\ UNCHANGED <<kids, stage>>
    BY <1>8 DEF NextChild, listVars
  <2>4. \A o \in Threads \ {th} : pc'[o] = pc[o] /\ cur'[o] = cur[o]
    BY <2>2
  <2>5. CASE c = k
    BY <2>1, <2>2, <2>5 DEF Tracked
  <2>6. CASE c # k
    BY <2>1, <2>2, <2>3, <2>4, <2>6 DEF Tracked
  <2>7. QED
    BY <2>5, <2>6
<1>9. ASSUME NEW th \in Threads, CancelDone(th) PROVE Tracked(p, c)'
  <2>1. Alive(c) /\ Tracked(p, c)
    BY <1>9, ReturnRevivesNone DEF CancelDone, TrackInv
  <2>2. /\ pc[th] = "cancel" /\ UNCHANGED <<kids, pending>>
        /\ cur[th] \in Tokens /\ stage[cur[th]] = "iter" /\ pending[cur[th]] = {}
        /\ stage' = [stage EXCEPT ![cur[th]] = "done"]
    BY <1>9 DEF CancelDone, listVars
  <2>3. \A o \in Threads \ {th} : pc'[o] = pc[o] /\ cur'[o] = cur[o]
    BY <1>9 DEF CancelDone, ReturnFromCancel, Finish
  <2>4. QED
    BY <2>1, <2>2, <2>3 DEF Tracked
<1>10. ASSUME NEW th \in Threads, RegisterChild(th) PROVE Tracked(p, c)'
  <2>1. Alive(c) /\ Tracked(p, c)
    BY <1>10, RegisterRevivesNone DEF RegisterChild, TrackInv
  <2>2. /\ pc[th] = "register" /\ UNCHANGED <<pending, stage>>
        /\ top[th] \in Tokens /\ cur[th] \in Tokens /\ parent[cur[th]] = top[th]
    BY <1>10 DEF RegisterChild
  <2>3. \A o \in Threads \ {th} : pc'[o] = pc[o] /\ cur'[o] = cur[o]
    BY <1>10 DEF RegisterChild, Finish
  <2>4. /\ c \in kids[p] => c \in kids'[p]
        /\ cur[th] \in kids'[top[th]]
    BY <1>10, <2>1, <2>2 DEF RegisterChild, LiveKids
  <2>5. parent' = parent
    BY <1>10 DEF RegisterChild
  <2>6. QED
    BY <2>1, <2>2, <2>3, <2>4, <2>5 DEF Tracked
<1>11. ASSUME NEW th \in Threads, NEW q \in Tokens, NEW k \in Tokens, ChildToken(th, q, k)
       PROVE  Tracked(p, c)'
  <2>1. /\ parent' = [parent EXCEPT ![k] = q] /\ cur' = [cur EXCEPT ![th] = k]
        /\ pc[th] = "idle" /\ UNCHANGED <<flag, kids, stage, pending>>
    BY <1>11 DEF ChildToken
  <2>2. CASE c = k
    <3>1. p = q
      BY <2>1, <2>2
    <3>2. q \notin flag => stage[q] = "none"
      BY DEF StageInv
    <3>3. QED
      BY <1>11, <2>1, <2>2, <3>1, <3>2 DEF ChildToken, Tracked
  <2>3. CASE c # k
    <3>1. Alive(c) /\ Tracked(p, c)
      BY <1>11, <2>1, <2>3, CreationRevivesNone DEF TrackInv
    <3>2. \A o \in Threads \ {th} : pc'[o] = pc[o] /\ cur'[o] = cur[o]
      BY <1>11 DEF ChildToken
    <3>3. QED
      BY <2>1, <3>1, <3>2 DEF Tracked
  <2>4. QED
    BY <2>2, <2>3
<1>12. ASSUME NEW w \in Waiters, WaitStep(w) \/ Abandon(w) \/ \E t \in Tokens : BeginWait(w, t)
       PROVE  Tracked(p, c)'
  BY <1>1, <1>12, WaitFrame DEF listVars
<1>13. CASE UNCHANGED vars
  BY <1>1, <1>13 DEF vars, listVars
<1>14. QED
  BY <1>2, <1>3, <1>4, <1>5, <1>6, <1>7, <1>8, <1>9, <1>10, <1>11, <1>12, <1>13
     DEF Next, CancelStep

LEMMA OwnerStep == Base /\ StageInv /\ OwnerInv /\ [Next]_vars => OwnerInv'
<1> SUFFICES ASSUME Base, StageInv, OwnerInv, [Next]_vars,
                    NEW t \in Tokens, stage'[t] \in {"notify", "take", "iter"}
             PROVE  \E o \in Threads : OnStack(o, t)'
  BY DEF OwnerInv
<1> USE DEF Base, TypeOK, CallInv, CallOK
<1>1. ASSUME stage[t] \in {"notify", "take", "iter"}, UNCHANGED <<anc, callVars>>
      PROVE  \E o \in Threads : OnStack(o, t)'
  BY <1>1 DEF OwnerInv, OnStack, callVars
<1>2. ASSUME NEW th \in Threads, pc[th] \in {"swap", "cancel"}, ReturnFromCancel(th),
             UNCHANGED <<parent, anc>>, t # cur[th], stage[t] \in {"notify", "take", "iter"}
      PROVE  \E o \in Threads : OnStack(o, t)'
  <2>1. PICK o \in Threads : OnStack(o, t)
    BY <1>2 DEF OwnerInv
  <2>2. CASE o # th
    BY <1>2, <2>1, <2>2 DEF OnStack, ReturnFromCancel, Finish
  <2>3. CASE o = th
    <3>1. cur[th] # top[th]
      BY <1>2, <2>1, <2>3 DEF OnStack, ChainInv, AcyclicInv
    <3>2. /\ t \in anc[parent[cur[th]]] /\ parent[cur[th]] \in Tokens
      BY <1>2, <2>1, <2>3, <3>1, ReturnTarget DEF OnStack
    <3>3. pc'[th] = "cancel" /\ cur'[th] = parent[cur[th]] /\ top'[th] = top[th]
      BY <1>2, <3>1 DEF ReturnFromCancel
    <3>4. QED
      BY <1>2, <2>1, <2>3, <3>2, <3>3 DEF OnStack
  <2>4. QED
    BY <2>2, <2>3
<1>3. ASSUME NEW th \in Threads, SwapFlag(th) PROVE \E o \in Threads : OnStack(o, t)'
  <2>1. /\ pc[th] = "swap" /\ cur[th] \in Tokens /\ top[th] \in anc[cur[th]]
        /\ UNCHANGED <<parent, anc>>
    BY <1>3 DEF SwapFlag
  <2>2. CASE cur[th] \in flag
    <3>1. ReturnFromCancel(th) /\ stage' = stage
      BY <1>3, <2>2 DEF SwapFlag
    <3>2. CASE t # cur[th]
      BY <1>2, <2>1, <3>1, <3>2
    <3>3. CASE t = cur[th]
      <4>1. PICK o \in Threads : OnStack(o, t)
        BY <3>1 DEF OwnerInv
      <4>2. o # th
        BY <2>1, <3>3, <4>1 DEF OnStack
      <4>3. QED
        BY <2>1, <3>1, <4>1, <4>2 DEF OnStack, ReturnFromCancel, Finish
    <3>4. QED
      BY <3>2, <3>3
  <2>3. CASE cur[th] \notin flag
    <3>1. /\ stage' = [stage EXCEPT ![cur[th]] = "notify"]
          /\ pc' = [pc EXCEPT ![th] = "cancel"] /\ UNCHANGED <<top, cur>>
      BY <1>3, <2>3 DEF SwapFlag
    <3>2. CASE t = cur[th]
      <4>1. cur[th] \in anc[cur[th]]
        <5>1. anc[cur[th]] # {}
          BY <2>1
        <5>2. ParentInv
          BY DEF ChainInv
        <5>3. \/ anc[cur[th]] = {cur[th]}
              \/ anc[cur[th]] = {cur[th]} \cup anc[parent[cur[th]]]
          BY <2>1, <5>1, <5>2 DEF ParentInv
        <5>4. QED
          BY <5>3
      <4>2. OnStack(th, t)'
        BY <2>1, <3>1, <3>2, <4>1 DEF OnStack
      <4>3. QED
        BY <4>2
    <3>3. CASE t # cur[th]
      BY <2>1, <3>1, <3>3 DEF OwnerInv, OnStack
    <3>4. QED
      BY <3>2, <3>3
  <2>4. QED
    BY <2>2, <2>3
<1>4. ASSUME NEW th \in Threads, NotifyWaiters(th) \/ TakeChildren(th)
      PROVE  \E o \in Threads : OnStack(o, t)'
  <2>1. stage[t] \in {"notify", "take", "iter"}
    BY <1>4 DEF NotifyWaiters, TakeChildren
  <2>2. QED
    BY <1>1, <1>4, <2>1 DEF NotifyWaiters, TakeChildren, tokenVars
<1>5. ASSUME NEW th \in Threads, NextChild(th) PROVE \E o \in Threads : OnStack(o, t)'
  <2>1. PICK o \in Threads : OnStack(o, t)
    BY <1>5 DEF NextChild, OwnerInv
  <2>2. PICK c \in pending[cur[th]] :
              \/ pc' = [pc EXCEPT ![th] = "swap"] /\ cur' = [cur EXCEPT ![th] = c]
              \/ UNCHANGED <<pc, cur>>
    BY <1>5 DEF NextChild
  <2>3. UNCHANGED <<anc, top>> /\ pc[th] = "cancel" /\ cur[th] \in Tokens
    BY <1>5 DEF NextChild, tokenVars
  <2>4. CASE UNCHANGED <<pc, cur>> \/ o # th
    BY <2>1, <2>2, <2>3, <2>4 DEF OnStack
  <2>5. CASE o = th /\ pc' = [pc EXCEPT ![th] = "swap"] /\ cur' = [cur EXCEPT ![th] = c]
    <3>1. c \in Tokens /\ parent[c] = cur[th]
      BY <2>2, <2>3 DEF ListInv
    <3>2. anc[c] = {c} \cup anc[cur[th]] /\ c \notin anc[cur[th]]
      BY <2>3, <3>1, NoneAssumption DEF ChainInv, ParentInv
    <3>3. QED
      BY <2>1, <2>3, <2>5, <3>2 DEF OnStack
  <2>6. QED
    BY <2>2, <2>4, <2>5
<1>6. ASSUME NEW th \in Threads, CancelDone(th) PROVE \E o \in Threads : OnStack(o, t)'
  <2>1. t # cur[th] /\ stage[t] \in {"notify", "take", "iter"}
    BY <1>6 DEF CancelDone
  <2>2. QED
    BY <1>2, <1>6, <2>1 DEF CancelDone
<1>7. ASSUME stage' = stage, NEW th \in Threads, pc[th] \notin {"swap", "cancel"},
             \A o \in Threads \ {th} : pc'[o] = pc[o] /\ cur'[o] = cur[o] /\ top'[o] = top[o],
             \A x \in Tokens : ~Unborn(x) => anc'[x] = anc[x]
      PROVE  \E o \in Threads : OnStack(o, t)'
  <2>1. PICK o \in Threads : OnStack(o, t)
    BY <1>7 DEF OwnerInv
  <2>2. o # th /\ ~Unborn(cur[o]) /\ ~Unborn(t) /\ cur[o] \in Tokens
    BY <1>7, <2>1 DEF OnStack, Unborn
  <2>3. QED
    BY <1>7, <2>1, <2>2 DEF OnStack
<1>8. ASSUME NEW th \in Threads, RegisterChild(th) PROVE \E o \in Threads : OnStack(o, t)'
  BY <1>7, <1>8 DEF RegisterChild, Finish
<1>9. ASSUME NEW th \in Threads, NEW x \in Tokens, CancelCall(th, x)
      PROVE  \E o \in Threads : OnStack(o, t)'
  BY <1>7, <1>9 DEF CancelCall, tokenVars
<1>10. ASSUME NEW th \in Threads, NEW p \in Tokens, NEW c \in Tokens, ChildToken(th, p, c)
       PROVE  \E o \in Threads : OnStack(o, t)'
  BY <1>7, <1>10 DEF ChildToken
<1>11. ASSUME NEW x \in Tokens, New(x) PROVE \E o \in Threads : OnStack(o, t)'
  <2>1. PICK o \in Threads : OnStack(o, t)
    BY <1>11 DEF New, OwnerInv
  <2>2. cur[o] # x /\ t # x /\ cur[o] \in Tokens
    BY <1>11, <2>1 DEF New, OnStack, Unborn
  <2>3. QED
    BY <1>11, <2>1, <2>2 DEF New, OnStack, callVars
<1>12. ASSUME NEW x \in Tokens, Drop(x) PROVE \E o \in Threads : OnStack(o, t)'
  BY <1>1, <1>12 DEF Drop
<1>13. ASSUME NEW w \in Waiters, WaitStep(w) \/ Abandon(w) \/ \E x \in Tokens : BeginWait(w, x)
       PROVE  \E o \in Threads : OnStack(o, t)'
  BY <1>1, <1>13, WaitFrame DEF tokenVars
<1>14. CASE UNCHANGED vars
  BY <1>1, <1>14 DEF vars, tokenVars
<1>15. QED
  BY <1>3, <1>4, <1>5, <1>6, <1>8, <1>9, <1>10, <1>11, <1>12, <1>13, <1>14 DEF Next, CancelStep

------------------------------------------------------------------------------
(* The whole invariant is inductive. *)
THEOREM InductiveInvariant == Spec => []IInv
<1>1. Init => IInv
  <2> SUFFICES ASSUME Init PROVE IInv
    OBVIOUS
  <2>1. TypeOK
    BY DEF Init, TypeOK, Stages, ThreadPc, WaiterPc
  <2>2. ChainInv
    BY DEF Init, ChainInv, ParentInv, ClosedInv, AcyclicInv, EdgeInv
  <2>3. HandleInv /\ ListInv /\ CallInv /\ StageInv /\ OwnerInv
    BY DEF Init, HandleInv, ListInv, CallInv, CallOK, StageInv, OwnerInv
  <2>4. TrackInv
    BY NoneAssumption DEF Init, TrackInv
  <2>5. QED
    BY <2>1, <2>2, <2>3, <2>4 DEF IInv
<1>2. IInv /\ [Next]_vars => IInv'
  <2>1. IInv => Base
    BY DEF IInv, Base
  <2>2. QED
    BY <2>1, TypeStep, ChainStep, HandleStep, ListStep, CallStep, StageStep, TrackStep, OwnerStep
       DEF IInv
<1>3. QED
  BY <1>1, <1>2, PTL DEF Spec

(* A live child that is not cancelled yet, under a cancelled parent, is    *)
(* owed its cancellation by a call still running (hook.rs:73-83, 105-121). *)
THEOREM ChildrenOwedAlways == Spec => []ChildrenOwed
<1>1. IInv => ChildrenOwed
  BY DEF IInv, TrackInv, Tracked, StageInv, ChildrenOwed, Owed
<1>2. QED
  BY <1>1, InductiveInvariant, PTL

(* When no call runs, cancellation has reached every live descendant of    *)
(* every cancelled token, whatever handles between them were dropped       *)
(* (hook.rs:36-40).                                                        *)
THEOREM QuietTreeCancelledAlways == Spec => []QuietTreeCancelled
<1>1. IInv => QuietTreeCancelled
  <2> SUFFICES ASSUME IInv, Busy = {}, NEW c \in Tokens, Alive(c), anc[c] \cap flag # {},
                      c \notin flag
               PROVE  FALSE
    BY DEF QuietTreeCancelled
  <2>1. \A th \in Threads : pc[th] = "idle"
    BY DEF Busy
  <2>2. \A t \in Tokens : stage[t] \notin {"notify", "take", "iter"}
    BY <2>1 DEF IInv, OwnerInv, OnStack
  <2>3. flag \in SUBSET Tokens
    BY DEF IInv, TypeOK
  <2>4. PICK b \in anc[c] : b \notin flag /\ parent[b] \in flag
    BY <2>3 DEF IInv, ChainInv, EdgeInv
  <2>5. b \in Tokens /\ parent[b] \in Tokens
    BY <2>3, <2>4 DEF IInv, TypeOK
  <2>6. Alive(b)
    <3>1. PICK r \in handles : c \in anc[r]
      BY <2>1 DEF Alive, Referenced, Busy
    <3>2. b \in anc[r]
      BY <2>4, <3>1 DEF IInv, TypeOK, ChainInv, ClosedInv
    <3>3. QED
      BY <3>1, <3>2 DEF Alive, Referenced
  <2>7. Tracked(parent[b], b)
    BY <2>4, <2>5, <2>6 DEF IInv, TrackInv
  <2>8. stage[parent[b]] # "none"
    BY <2>4, <2>5 DEF IInv, StageInv
  <2>9. QED
    BY <2>1, <2>2, <2>5, <2>7, <2>8 DEF Tracked
<1>2. QED
  BY <1>1, InductiveInvariant, PTL

(* The state keeps its types through every call of hook.rs. *)
THEOREM TypeCorrect == Spec => []TypeOK
<1>1. IInv => TypeOK
  BY DEF IInv
<1>2. QED
  BY <1>1, InductiveInvariant, PTL

------------------------------------------------------------------------------
(* No future of cancelled() sleeps through the cancellation of its token   *)
(* (hook.rs:143-166).                                                      *)
THEOREM NoLostSignalAlways == Spec => []NoLostSignal
<1>1. Init => NoLostSignal
  BY DEF Init, NoLostSignal
<1>2. TypeOK /\ CallInv /\ NoLostSignal /\ [Next]_vars => NoLostSignal'
  <2> SUFFICES ASSUME TypeOK, CallInv, NoLostSignal, [Next]_vars,
                      NEW w \in Waiters, wpc'[w] = "wait", wtok'[w] \in flag',
                      w \notin signalled'
               PROVE  stage'[wtok'[w]] = "notify"
    BY DEF NoLostSignal
  <2> USE DEF TypeOK, NoLostSignal, CallInv, CallOK
  <2>1. ASSUME UNCHANGED <<flag, stage, waitVars>> PROVE stage'[wtok'[w]] = "notify"
    BY <2>1 DEF waitVars
  <2>2. ASSUME NEW th \in Threads, SwapFlag(th) PROVE stage'[wtok'[w]] = "notify"
    BY <2>2 DEF SwapFlag, waitVars
  <2>3. ASSUME NEW th \in Threads, NotifyWaiters(th) PROVE stage'[wtok'[w]] = "notify"
    BY <2>3 DEF NotifyWaiters, Notified
  <2>4. ASSUME NEW th \in Threads, TakeChildren(th) \/ CancelDone(th)
        PROVE  stage'[wtok'[w]] = "notify"
    BY <2>4 DEF TakeChildren, CancelDone, waitVars
  <2>5. ASSUME NEW th \in Threads, NextChild(th) \/ RegisterChild(th)
        PROVE  stage'[wtok'[w]] = "notify"
    BY <2>1, <2>5 DEF NextChild, RegisterChild
  <2>6. ASSUME NEW t \in Tokens, New(t) \/ Drop(t) PROVE stage'[wtok'[w]] = "notify"
    BY <2>1, <2>6 DEF New, Drop
  <2>7. ASSUME NEW th \in Threads, NEW t \in Tokens,
               CancelCall(th, t) \/ \E c \in Tokens : ChildToken(th, t, c)
        PROVE  stage'[wtok'[w]] = "notify"
    BY <2>1, <2>7 DEF CancelCall, ChildToken
  <2>8. ASSUME NEW v \in Waiters, WaitStep(v) \/ Abandon(v) PROVE stage'[wtok'[w]] = "notify"
    BY <2>8, NoneAssumption DEF WaitStep, CreateNotified, Enable, Recheck, Wake, Abandon, WaiterStep, EndWait
  <2>9. ASSUME NEW v \in Waiters, NEW t \in Tokens, BeginWait(v, t)
        PROVE  stage'[wtok'[w]] = "notify"
    BY <2>9 DEF BeginWait
  <2>10. CASE UNCHANGED vars
    BY <2>1, <2>10 DEF vars
  <2>11. QED
    BY <2>2, <2>3, <2>4, <2>5, <2>6, <2>7, <2>8, <2>9, <2>10 DEF Next, CancelStep
<1>3. IInv => TypeOK /\ CallInv
  BY DEF IInv
<1>4. QED
  BY <1>1, <1>2, <1>3, InductiveInvariant, PTL DEF Spec

(* The list of children never outgrows the threshold the last sweep set    *)
(* (hook.rs:114-118).                                                      *)
THEOREM ListBoundedAlways == Spec => []ListBounded
<1>1. Init => ListBounded
  BY FS_EmptySet DEF Init, ListBounded
<1>2. TypeOK /\ CallInv /\ ListBounded /\ [Next]_vars => ListBounded'
  <2> SUFFICES ASSUME TypeOK, CallInv, ListBounded, [Next]_vars, NEW p \in Tokens
               PROVE  Cardinality(kids'[p]) <= sweepAt'[p]
    BY DEF ListBounded
  <2> USE DEF TypeOK
  <2>1. ASSUME kids'[p] = kids[p], sweepAt' = sweepAt PROVE Cardinality(kids'[p]) <= sweepAt'[p]
    BY <2>1 DEF ListBounded
  <2>2. ASSUME NEW th \in Threads, TakeChildren(th) PROVE Cardinality(kids'[p]) <= sweepAt'[p]
    <3>1. sweepAt' = sweepAt /\ (kids'[p] = kids[p] \/ kids'[p] = {})
      BY <2>2 DEF TakeChildren
    <3>2. CASE kids'[p] = {}
      BY <3>1, <3>2, FS_EmptySet
    <3>3. QED
      BY <2>1, <3>1, <3>2
  <2>3. ASSUME NEW th \in Threads, RegisterChild(th) PROVE Cardinality(kids'[p]) <= sweepAt'[p]
    <3>1. CASE p # top[th]
      <4>1. kids'[p] = kids[p] /\ sweepAt'[p] = sweepAt[p]
        BY <2>3, <3>1 DEF RegisterChild
      <4>2. QED
        BY <4>1 DEF ListBounded
    <3>2. CASE p = top[th]
      <4> DEFINE L == LiveKids(p)
      <4>1. /\ IsFiniteSet(kids[p]) /\ Cardinality(kids[p]) \in Nat
            /\ IsFiniteSet(L) /\ Cardinality(L) \in Nat
        BY TokensFinite, FS_Subset, FS_CardinalityType DEF LiveKids
      <4>2. /\ Cardinality(kids[p] \cup {cur[th]}) <= Cardinality(kids[p]) + 1
            /\ Cardinality(L \cup {cur[th]}) <= Cardinality(L) + 1
        <5>1. ASSUME NEW S, IsFiniteSet(S)
              PROVE  /\ Cardinality(S \cup {cur[th]}) \in Nat
                     /\ Cardinality(S \cup {cur[th]}) <= Cardinality(S) + 1
          <6>1. Cardinality(S) \in Nat
            BY <5>1, FS_CardinalityType
          <6>2. Cardinality(S \cup {cur[th]}) = IF cur[th] \in S THEN Cardinality(S)
                                                ELSE Cardinality(S) + 1
            BY <5>1, FS_AddElement
          <6>3. QED
            BY <6>1, <6>2
        <5>2. QED
          BY <4>1, <5>1
      <4>3. CASE Cardinality(kids[p]) < sweepAt[p]
        <5>1. kids'[p] = kids[p] \cup {cur[th]} /\ sweepAt'[p] = sweepAt[p]
          BY <2>3, <3>2, <4>1, <4>3 DEF RegisterChild
        <5>2. sweepAt[p] \in Nat /\ Cardinality(kids[p] \cup {cur[th]}) \in Nat
          BY <4>1, FS_AddElement, FS_CardinalityType
        <5>3. QED
          BY <4>1, <4>2, <4>3, <5>1, <5>2
      <4>4. CASE Cardinality(kids[p]) >= sweepAt[p]
        <5>1. kids'[p] = L \cup {cur[th]} /\ sweepAt'[p] = AtLeast(2 * Cardinality(L), SweepMin)
          BY <2>3, <3>2, <4>1, <4>4 DEF RegisterChild
        <5>2. Cardinality(L \cup {cur[th]}) \in Nat
          BY <4>1, FS_AddElement, FS_CardinalityType
        <5>3. Cardinality(L) + 1 <= AtLeast(2 * Cardinality(L), SweepMin)
          BY <4>1, SweepMinAssumption DEF AtLeast
        <5>4. AtLeast(2 * Cardinality(L), SweepMin) \in Nat
          BY <4>1, SweepMinAssumption DEF AtLeast
        <5>5. QED
          BY <4>1, <4>2, <5>1, <5>2, <5>3, <5>4
      <4>5. sweepAt[p] \in Nat
        OBVIOUS
      <4>6. QED
        BY <4>1, <4>3, <4>4, <4>5
    <3>3. QED
      BY <3>1, <3>2
  <2>4. ASSUME UNCHANGED <<kids, sweepAt>> PROVE Cardinality(kids'[p]) <= sweepAt'[p]
    BY <2>1, <2>4
  <2>5. ASSUME NEW th \in Threads, SwapFlag(th) \/ NotifyWaiters(th) \/ NextChild(th) \/ CancelDone(th)
        PROVE  Cardinality(kids'[p]) <= sweepAt'[p]
    BY <2>4, <2>5 DEF SwapFlag, NotifyWaiters, NextChild, CancelDone, listVars
  <2>6. ASSUME NEW t \in Tokens, New(t) \/ Drop(t) PROVE Cardinality(kids'[p]) <= sweepAt'[p]
    BY <2>4, <2>6 DEF New, Drop, listVars
  <2>7. ASSUME NEW th \in Threads, NEW t \in Tokens,
               CancelCall(th, t) \/ \E c \in Tokens : ChildToken(th, t, c)
        PROVE  Cardinality(kids'[p]) <= sweepAt'[p]
    BY <2>4, <2>7 DEF CancelCall, ChildToken, listVars
  <2>8. ASSUME NEW w \in Waiters, WaitStep(w) \/ Abandon(w) \/ \E t \in Tokens : BeginWait(w, t)
        PROVE  Cardinality(kids'[p]) <= sweepAt'[p]
    BY <2>4, <2>8, WaitFrame DEF listVars
  <2>9. CASE UNCHANGED vars
    BY <2>4, <2>9 DEF vars, listVars
  <2>10. QED
    BY <2>2, <2>3, <2>5, <2>6, <2>7, <2>8, <2>9 DEF Next, CancelStep
<1>3. IInv => TypeOK /\ CallInv
  BY DEF IInv
<1>4. QED
  BY <1>1, <1>2, <1>3, InductiveInvariant, PTL DEF Spec

==============================================================================
