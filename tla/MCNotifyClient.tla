---------------------------- MODULE MCNotifyClient ----------------------------
(* Instances of NotifyClient: two threads, one token.                      *)
EXTENDS NotifyClient, TLC

CONSTANTS c1, c2, t1, b1, b2

OneBound == (t1 :> b1)

Threads == Permutations(Thread)
=============================================================================
