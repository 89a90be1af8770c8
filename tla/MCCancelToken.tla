---------------------------- MODULE MCCancelToken ----------------------------
(* A small instance of CancelToken for TLC: a root and two more tokens, *)
(* cancelled from two threads and awaited by one future.                *)
EXTENDS CancelToken

CONSTANTS t1, t2, t3, th1, th2, w1

MCTokens == {t1, t2, t3}
OneRoot == {t1}
MCThreads == {th1, th2}
MCWaiters == {w1}
==============================================================================
