----------------------------- MODULE MCAsyncIsle -----------------------------
(* A small instance of AsyncIsle for TLC: a sync request that loops until  *)
(* it is cancelled and a coroutine.                                        *)
EXTENDS AsyncIsle

CONSTANTS s, c

MCRequests == {s, c}
MCCoroutines == {c}
MCEndless == {s}
==============================================================================
