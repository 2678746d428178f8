--------------------------- MODULE MCCFClassTable ---------------------------
(***************************************************************************)
(* Two threads, a table of six entries of which two can be registered, and *)
(* three builtin classes, one of them with instances.                      *)
(***************************************************************************)
EXTENDS CFClassTable

CONSTANTS t1, t2, A, B, X, NotATypeClass, TypeClass, AllocatorClass

MCBuiltinClass == [id \in 0..2 |-> IF id = 0 THEN NotATypeClass
                                   ELSE IF id = 1 THEN TypeClass
                                   ELSE AllocatorClass]
=============================================================================
