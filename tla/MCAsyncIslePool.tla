--------------------------- MODULE MCAsyncIslePool ---------------------------
(* Small instances of AsyncIslePool for TLC. *)
EXTENDS AsyncIslePool, TLC

CONSTANTS c1, c2, c3, c4, i1, i2

MCCallers2 == {c1, c2}
MCCallers4 == {c1, c2, c3, c4}
MCIsles == {i1, i2}

(* The behaviours of Spec in which callers only check out and return: a    *)
(* counterexample among them is one of Spec.                               *)
CheckoutNext ==
  \E c \in Callers : Step(c) \/ Checkout(c, "checkout") \/ ReturnSlotWarm(c)
CheckoutSpec == Init /\ [][CheckoutNext]_vars

Symmetry == Permutations(MCCallers4) \cup Permutations(MCIsles)
==============================================================================
