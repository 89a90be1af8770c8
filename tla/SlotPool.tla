------------------------------- MODULE SlotPool -------------------------------
(***************************************************************************)
(* What a pool promises, blocking (pool.rs) or async (async_pool.rs): at   *)
(* most MaxSize slots, each claimed by a user or holding an idle VM; once  *)
(* the pool is closed no slot is claimed and no VM becomes idle again.     *)
(***************************************************************************)
EXTENDS Naturals, FiniteSets

CONSTANTS
  Vms,      \* the VMs the pool may keep
  MaxSize   \* its number of slots

VARIABLES
  open,     \* not shut down
  claimed,  \* slots in the hands of users
  idle      \* VMs kept for the next user

vars == <<open, claimed, idle>>

Init == open = TRUE /\ claimed = 0 /\ idle = {}

(* A user claims a slot, with an idle VM or for a new one; idle VMs found  *)
(* dead on the way are let go.                                             *)
Claim ==
  /\ open
  /\ claimed < MaxSize
  /\ claimed' = claimed + 1
  /\ idle' \in SUBSET idle
  /\ claimed' + Cardinality(idle') <= MaxSize
  /\ UNCHANGED open

Release ==
  /\ claimed > 0
  /\ claimed' = claimed - 1
  /\ \/ UNCHANGED idle
     \/ open /\ \E v \in Vms \ idle : idle' = idle \cup {v}
  /\ UNCHANGED open

LetGo ==
  /\ idle' \in SUBSET idle
  /\ UNCHANGED <<open, claimed>>

Close ==
  /\ open' = FALSE
  /\ idle' \in SUBSET idle
  /\ UNCHANGED claimed

Next == Claim \/ Release \/ LetGo \/ Close

Spec == Init /\ [][Next]_vars
===============================================================================
