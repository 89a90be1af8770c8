------------------------------- MODULE MCScope -------------------------------
(* A small instance of Scope for TLC: a root and two tasks. *)
EXTENDS Scope

CONSTANTS r, a, b

MCTasks == {a, b}
ZeroOrOne == {0, 1}
==============================================================================
