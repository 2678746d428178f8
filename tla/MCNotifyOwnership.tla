-------------------------- MODULE MCNotifyOwnership --------------------------
(* One thread; a token with a binding and one without.  Which string object *)
(* is which makes no difference: the specification only compares them.      *)
EXTENDS NotifyOwnership, TLC

CONSTANTS c1, t1, t2, b1, b2, s1, s2, s3, s4, s5

FirstBound == (t1 :> b1) @@ (t2 :> NULL)
Renamings == Permutations(Str)
=============================================================================
