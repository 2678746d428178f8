-------------------------- MODULE MCBPlistRoundTrip --------------------------
(***************************************************************************)
(* Every graph of an object r and two containers or leaves below it, with  *)
(* up to two elements each and references in any direction; every graph of *)
(* dictionaries over two strings.                                          *)
(***************************************************************************)
EXTENDS BPlistRoundTrip

CONSTANTS r, x, y, z

\* x and y are equal when they are strings.
MCText == [n \in Node |-> IF n \in {x, y} THEN "a" ELSE "b"]

Leaf(k) == [kind |-> k, items |-> <<>>]
Lists(S, n) == UNION {[1..k -> S] : k \in 0..n}
Arrays(S, n) == {[kind |-> "array", items |-> l] : l \in Lists(S, n)}
\* The keys of a dictionary differ.
Dictionaries(S, n) ==
    {[kind |-> "dictionary", items |-> l] :
        l \in {l \in Lists(S, 2 * n) :
                Len(l) % 2 = 0 /\ (Len(l) = 4 => MCText[l[1]] # MCText[l[3]])}}
AnyLeaf == {Leaf("string"), Leaf("scalar"), Leaf("other")}

\* Three objects, each of any kind.
MixedGraphs ==
    LET S == {r, x, y} IN
    {[n \in Node |-> CASE n = r -> p [] n = x -> q [] n = y -> t
                       [] OTHER -> Leaf("string")] :
        p \in Arrays(S, 2) \cup Dictionaries(S, 1),
        q \in AnyLeaf \cup Arrays(S, 2) \cup Dictionaries(S, 1),
        t \in AnyLeaf \cup Arrays(S, 1)}

\* Dictionaries with two pairs below a dictionary.
DictionaryGraphs ==
    {[n \in Node |-> CASE n = r -> p [] n = x -> q [] OTHER -> Leaf("string")] :
        p \in Dictionaries({x, y, z}, 2),
        q \in {Leaf("string")} \cup Dictionaries({y, z}, 2)}

MCGraphs == MixedGraphs \cup DictionaryGraphs
=============================================================================
