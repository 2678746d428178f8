----------------------------- MODULE Collections -----------------------------
(***************************************************************************)
(* What CFArray and CFDictionary promise, with no reference counts and no  *)
(* storage: an array is a sequence of objects, a dictionary is a set of    *)
(* key-value pairs with one pair for each key up to CFEqual, every         *)
(* operation takes effect at once, and an object goes away only when the   *)
(* client has dropped it and no collection contains it.                    *)
(***************************************************************************)
EXTENDS Integers, SequencesExt

CONSTANTS Object, Array, Dictionary, Same(_, _), NULL

VARIABLES
    exists,    \* the objects there are
    contents,  \* [Array \cup Dictionary -> sequence of objects, or set of pairs]
    mutable,   \* the collections that may change
    building,  \* the collections the running call has not returned yet
    held       \* [Object -> Nat]: references of the client

avars == <<exists, contents, mutable, building, held>>

Collection == Array \cup Dictionary

Members(c) == IF c \in Array THEN {contents[c][i] : i \in DOMAIN contents[c]}
              ELSE {p[1] : p \in contents[c]} \cup {p[2] : p \in contents[c]}

Contained(o) == \E c \in Collection \cap exists : o \in Members(c)
Referenced(o) == held[o] > 0 \/ o \in building \/ Contained(o)

Empty(c) == IF c \in Array THEN <<>> ELSE {}

AInit ==
    /\ exists \subseteq Object \ Collection
    /\ contents = [c \in Collection |-> Empty(c)]
    /\ mutable = {} /\ building = {}
    /\ held \in [Object -> Nat]
    /\ \A o \in Object : held[o] > 0 <=> o \in exists

Begin(c, m) ==
    /\ c \notin exists
    /\ exists' = exists \cup {c}
    /\ mutable' = IF m THEN mutable \cup {c} ELSE mutable
    /\ building' = building \cup {c}
    /\ UNCHANGED <<contents, held>>

\* A call returns the collection it has built to the client.
Return(c) ==
    /\ c \in building
    /\ building' = building \ {c}
    /\ held' = [held EXCEPT ![c] = @ + 1]
    /\ UNCHANGED <<exists, contents, mutable>>

\* A creation that fails gives up what it has built so far.
GiveUp(c) ==
    /\ c \in building
    /\ building' = building \ {c}
    /\ UNCHANGED <<exists, contents, mutable, held>>

Change(c, value) ==
    /\ c \in exists \cap (mutable \cup building)
    /\ contents' = [contents EXCEPT ![c] = value]
    /\ UNCHANGED <<exists, mutable, building, held>>

Append1(c, v) == c \in Array /\ v \in exists /\ Change(c, Append(contents[c], v))

RemoveIndex(c, i) ==
    /\ c \in Array /\ i \in DOMAIN contents[c]
    /\ Change(c, RemoveAt(contents[c], i))

\* The pair of an equal key keeps its key and gets the new value.
Put(c, k, v) ==
    LET equal == {p \in contents[c] : Same(p[1], k)} IN
    /\ c \in Dictionary /\ {k, v} \subseteq exists
    /\ Change(c, IF equal = {} THEN contents[c] \cup {<<k, v>>}
                 ELSE (contents[c] \ equal) \cup {<<p[1], v>> : p \in equal})

RemoveKey(c, k) ==
    /\ c \in Dictionary
    /\ Change(c, {p \in contents[c] : ~Same(p[1], k)})

RetainHeld(o) ==
    /\ o \in exists /\ Referenced(o)
    /\ held' = [held EXCEPT ![o] = @ + 1]
    /\ UNCHANGED <<exists, contents, mutable, building>>

DropHeld(o) ==
    /\ held[o] > 0
    /\ held' = [held EXCEPT ![o] = @ - 1]
    /\ UNCHANGED <<exists, contents, mutable, building>>

\* Nothing refers to o any more: it goes, with what it contained.
Vanish(o) ==
    /\ o \in exists /\ ~Referenced(o)
    /\ exists' = exists \ {o}
    /\ contents' = IF o \in Collection THEN [contents EXCEPT ![o] = Empty(o)]
                   ELSE contents
    /\ mutable' = mutable \ {o}
    /\ UNCHANGED <<building, held>>

ANext ==
    \/ \E c \in Collection : \/ \E m \in BOOLEAN : Begin(c, m)
                             \/ Return(c) \/ GiveUp(c)
                             \/ \E v \in Object : Append1(c, v)
                             \/ c \in Array /\ \E i \in DOMAIN contents[c] : RemoveIndex(c, i)
                             \/ \E k, v \in Object : Put(c, k, v)
                             \/ \E k \in Object : RemoveKey(c, k)
    \/ \E o \in Object : RetainHeld(o) \/ DropHeld(o) \/ Vanish(o)

ASpec == AInit /\ [][ANext]_avars
=============================================================================
