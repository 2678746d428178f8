--------------------------- MODULE MCCFContainers ---------------------------
(***************************************************************************)
(* Small worlds for CFContainers: up to three strings, two of them equal,  *)
(* and two collections.                                                    *)
(***************************************************************************)
EXTENDS CFContainers

CONSTANTS k1, k2, v, a, b, d, e

\* k1 and k2 are different strings with the same characters.
MCContent == k1 :> "k" @@ k2 :> "k" @@ v :> "v"
=============================================================================
