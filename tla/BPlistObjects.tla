---------------------------- MODULE BPlistObjects ----------------------------
(***************************************************************************)
(* What the writer and the parser of CFBinaryPList.c have in common: the   *)
(* kinds of objects, and what can be said of objects that contain others.  *)
(* to[o] is the set of what o contains, or of what it would contain.       *)
(***************************************************************************)

CONSTANT NULL

Containers == {"array", "dictionary"}
Leaves == {"string", "scalar"}    \* scalar: boolean, number, date or data

\* What the objects of S contain is in S too.
Closed(to, S) == \A o \in S : to[o] \subseteq S

\* No object of S is inside itself: of any of them, one contains no other.
Acyclic(to, S) == \A T \in SUBSET S : T # {} => \E o \in T : to[o] \cap T = {}

\* What start is and contains, directly or not: what no closed set can leave out.
Reach(to, start, N) ==
    {o \in N : \A S \in SUBSET N : start \in S /\ Closed(to, S) => o \in S}
=============================================================================
