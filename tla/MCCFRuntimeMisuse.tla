---------------------------- MODULE MCCFRuntimeMisuse ----------------------------
(* Instances of CFRuntimeMisuse for TLC. *)
EXTENDS CFRuntimeMisuse, TLC

CONSTANTS t1, t2, v1, v2, v3, v4, a, b, x, sys, mal

TwoThreads == {t1, t2}
TwoEach    == (v1 :> t1) @@ (v2 :> t1) @@ (v3 :> t2) @@ (v4 :> t2)
TwoAndOne  == (v1 :> t1) @@ (v2 :> t1) @@ (v3 :> t2)
=============================================================================
