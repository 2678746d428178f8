--------------------------- MODULE MCBPlistParser ---------------------------
(***************************************************************************)
(* Documents of three entries, with up to two references each, in range or *)
(* one beyond; documents whose top is a dictionary of two pairs over equal *)
(* and different strings.                                                  *)
(***************************************************************************)
EXTENDS BPlistParser

Lists(S, n) == UNION {[1..k -> S] : k \in 0..n}
Leaf(k, t) == [kind |-> k, refs |-> <<>>, text |-> t]
Arrays(S, n) == {[kind |-> "array", refs |-> l, text |-> "" ] : l \in Lists(S, n)}
Dictionaries(S, n) == {[kind |-> "dictionary", refs |-> l, text |-> ""] : l \in [1..(2 * n) -> S]}
AnyLeaf == {Leaf("string", "a"), Leaf("scalar", ""), Leaf("corrupt", "")}

Document(t) == [trailer |-> TRUE, offsets |-> TRUE, top |-> 0, table |-> t]

MixedDocuments ==
    {Document(<<p, q, t>>) :
        p \in Arrays(0..2, 2) \cup Arrays({3}, 1) \cup Dictionaries(0..3, 1),
        q \in AnyLeaf \cup Arrays(0..2, 2) \cup Dictionaries(0..2, 1),
        t \in {Leaf("string", "a"), Leaf("corrupt", "")} \cup Arrays(0..1, 1)}

\* Entries 1 and 2 are equal strings, entry 3 another one.
KeyDocuments ==
    {Document(<<p, Leaf("string", "a"), Leaf("string", "a"), Leaf("string", "b")>>) :
        p \in Dictionaries(1..3, 2)}

BadDocuments ==
    {[trailer |-> t, offsets |-> o, top |-> 1, table |-> <<Leaf("scalar", ""), e>>] :
        t \in BOOLEAN, o \in BOOLEAN, e \in AnyLeaf \cup Dictionaries(0..1, 0)}

MCDocuments == MixedDocuments \cup KeyDocuments \cup BadDocuments
=============================================================================
