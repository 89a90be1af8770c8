------------------------------ MODULE MCIslePool ------------------------------
(* A small instance of IslePool for TLC: two threads, one slot, two VMs. *)
EXTENDS IslePool

CONSTANTS t1, t2, i1, i2

MCThreads == {t1, t2}
MCIsles == {i1, i2}
===============================================================================
