---------------------------- MODULE CFContainers ----------------------------
(***************************************************************************)
(* CFArray.c and CFDictionary.c: storage, ownership of the elements, and   *)
(* the cascade of releases when a collection goes away.  A call runs alone *)
(* (mutation is single-threaded by contract) but is not one step: it       *)
(* retains and releases elements, and a release may finalize a collection, *)
(* which releases its own elements, and so on.                             *)
(*                                                                         *)
(* todo is the continuation of the running call, its next piece first.     *)
(* What CFRetain and CFRelease do on one object is in CFRuntime; here they *)
(* are steps on the count rc.                                              *)
(***************************************************************************)
EXTENDS Integers, FiniteSets, SequencesExt

CONSTANTS
    Leaf,           \* strings: objects that contain none
    Array,          \* objects CFArrayCreate* may return
    Dictionary,     \* objects CFDictionaryCreate* may return
    Content,        \* [Leaf -> value]: what CFEqual compares
    FirstCapacity,  \* capacity of the first buffer; 4 in the code
    MaxCount,       \* bound: the client lets no collection grow beyond it
    MaxNew,         \* bound: longest list given to a creation
    MaxHeld,        \* bound: references the client holds to one object
    NULL

Collection == Array \cup Dictionary
Object == Leaf \cup Collection

ASSUME ObjectsDistinct ==
    /\ Leaf \cap Collection = {} /\ Array \cap Dictionary = {}
    /\ NULL \notin Object /\ IsFiniteSet(Object)
ASSUME BoundsPositive ==
    {FirstCapacity, MaxHeld} \subseteq Nat \ {0} /\ {MaxCount, MaxNew} \subseteq Nat

VARIABLES
    life,      \* [Object -> {"unborn", "live", "dying", "freed"}]
    rc,        \* [Object -> Nat]: retain count
    slots,     \* [Collection -> Seq(Slot)]: the first count slots of the buffer
    capacity,  \* [Collection -> Nat]
    buffers,   \* [Collection -> Nat]: buffers allocated and not deallocated
    mutable,   \* the collections with the mutable flag
    held,      \* [Object -> 0..MaxHeld]: references of the client
    todo,      \* what is left of the running call
    aborted    \* the reason of _FXCFAbort, "no" while the process runs

vars == <<life, rc, slots, capacity, buffers, mutable, held, todo, aborted>>
storage == <<slots, capacity, buffers, mutable>>

\* An array slot has no key.  A creation may be given NULL elements.
Slot == [key : Object \cup {NULL}, value : Object]
Element == [key : Object \cup {NULL}, value : Object \cup {NULL}]

Frame ==
    [op : {"release", "free"}, obj : Object]
    \cup [op : {"finalize", "shift"}, obj : Collection, index : Nat]
    \cup [op : {"store"}, obj : Dictionary, index : Nat, value : Object]
    \cup [op : {"append"}, obj : Array, slot : Slot]
    \cup [op : {"set"}, obj : Dictionary, slot : Slot]
    \cup [op : {"reserve"}, obj : Collection, room : Nat, rest : Seq(Element)]
    \cup [op : {"fill"}, obj : Collection, rest : Seq(Element)]

Release(o)        == [op |-> "release", obj |-> o]
FreeOf(o)         == [op |-> "free", obj |-> o]
FinalizeFrom(c,i) == [op |-> "finalize", obj |-> c, index |-> i]
ShiftAt(c, i)     == [op |-> "shift", obj |-> c, index |-> i]
StoreAt(c, i, v)  == [op |-> "store", obj |-> c, index |-> i, value |-> v]
Reserve(c, n, l)  == [op |-> "reserve", obj |-> c, room |-> n, rest |-> l]
Fill(c, l)        == [op |-> "fill", obj |-> c, rest |-> l]

Init ==
    /\ life = [o \in Object |-> IF o \in Leaf THEN "live" ELSE "unborn"]
    /\ rc = [o \in Object |-> IF o \in Leaf THEN 1 ELSE 0]
    /\ slots = [c \in Collection |-> <<>>]
    /\ capacity = [c \in Collection |-> 0]
    /\ buffers = [c \in Collection |-> 0]
    /\ mutable = {}
    /\ held = [o \in Object |-> IF o \in Leaf THEN 1 ELSE 0]
    /\ todo = <<>>
    /\ aborted = "no"

-----------------------------------------------------------------------------
(* Helpers of the code.                                                    *)

\* CFEqual: collections have no equal callback, so they equal themselves only.
CFEqual(x, y) == x = y \/ ({x, y} \subseteq Leaf /\ Content[x] = Content[y])

FindIndex(c, k) == {i \in DOMAIN slots[c] : CFEqual(slots[c][i].key, k)}

FirstIndex(c, k) ==
    CHOOSE i \in FindIndex(c, k) : \A j \in FindIndex(c, k) : i <= j

Fits(c, n) == n <= capacity[c]

\* The capacity is doubled until n elements fit: a set of one capacity.
Grown(c, n) ==
    LET start == IF capacity[c] > 0 THEN capacity[c] ELSE FirstCapacity
    IN  {m \in n..(start + 2 * n) : /\ \E j \in 0..n : m = start * 2^j
                                    /\ m = start \/ m < 2 * n}

\* EnsureCapacity when the allocator has memory: a new buffer replaces the old.
EnsureCapacity(c, n) ==
    IF Fits(c, n) THEN UNCHANGED <<capacity, buffers>>
    ELSE /\ \E m \in Grown(c, n) : capacity' = [capacity EXCEPT ![c] = m]
         /\ buffers' = [buffers EXCEPT ![c] =
                           @ + 1 - (IF capacity[c] > 0 THEN 1 ELSE 0)]

ReleasesOf(c, s) == IF c \in Array THEN <<Release(s.value)>>
                    ELSE <<Release(s.key), Release(s.value)>>

Retained(s, o) == (IF s.key = o THEN 1 ELSE 0) + (IF s.value = o THEN 1 ELSE 0)

Now == Head(todo)
Running(op) == aborted = "no" /\ todo # <<>> /\ Now.op = op

\* The rest of the call, after frames.
Push(frames) == todo' = frames \o Tail(todo)

Abort(reason) ==
    /\ aborted' = reason
    /\ UNCHANGED <<life, rc, storage, held, todo>>

-----------------------------------------------------------------------------
(* CFRelease and the finalizers.                                           *)

ReleaseShared ==
    /\ Running("release") /\ life[Now.obj] = "live" /\ rc[Now.obj] > 1
    /\ rc' = [rc EXCEPT ![Now.obj] = @ - 1]
    /\ Push(<<>>)
    /\ UNCHANGED <<life, storage, held, aborted>>

\* A dead object has no last reference to give up: the runtime aborts.
ReleaseLast ==
    /\ Running("release") /\ (life[Now.obj] = "live" => rc[Now.obj] = 1)
    /\ IF life[Now.obj] = "live"
       THEN /\ life' = [life EXCEPT ![Now.obj] = "dying"]
            /\ Push((IF Now.obj \in Leaf THEN <<>> ELSE <<FinalizeFrom(Now.obj, 1)>>)
                    \o <<FreeOf(Now.obj)>>)
            /\ UNCHANGED <<rc, storage, held, aborted>>
       ELSE Abort("release of a dead object")

\* Mutant: the finalizer stops before the last slot.
MutFinalizeElementShort ==
    LET c == Now.obj  i == Now.index IN
    /\ Running("finalize") /\ i + 1 \in DOMAIN slots[c]
    /\ Push(ReleasesOf(c, slots[c][i]) \o <<FinalizeFrom(c, Len(slots[c]) + 1)>>)
    /\ UNCHANGED <<life, rc, storage, held, aborted>>
FinalizeElement ==
    LET c == Now.obj  i == Now.index IN
    /\ Running("finalize") /\ i \in DOMAIN slots[c]
    /\ Push(ReleasesOf(c, slots[c][i]) \o <<FinalizeFrom(c, i + 1)>>)
    /\ UNCHANGED <<life, rc, storage, held, aborted>>

FinalizeBuffer ==
    LET c == Now.obj IN
    /\ Running("finalize") /\ Now.index \notin DOMAIN slots[c]
    /\ buffers' = [buffers EXCEPT ![c] = @ - (IF capacity[c] > 0 THEN 1 ELSE 0)]
    /\ Push(<<>>)
    /\ UNCHANGED <<life, rc, slots, capacity, mutable, held, aborted>>

Free ==
    LET o == Now.obj IN
    /\ Running("free")
    /\ life' = [life EXCEPT ![o] = "freed"]
    /\ IF o \in Collection
       THEN /\ slots' = [slots EXCEPT ![o] = <<>>]
            /\ capacity' = [capacity EXCEPT ![o] = 0]
            /\ mutable' = mutable \ {o}
       ELSE UNCHANGED <<slots, capacity, mutable>>
    /\ Push(<<>>)
    /\ UNCHANGED <<rc, buffers, held, aborted>>

-----------------------------------------------------------------------------
(* The pieces of the calls on collections.                                 *)

\* A slot is written behind the last one, and what it refers to is retained.
AddSlot(c, s) ==
    /\ slots' = [slots EXCEPT ![c] = Append(@, s)]
    /\ rc' = [o \in Object |-> rc[o] + Retained(s, o)]
    /\ UNCHANGED <<life, mutable, held, aborted>>

\* Mutant: the old value is not released.
MutReplaceNoRelease(c, s, rest) ==
    LET i == FirstIndex(c, s.key) IN
    /\ rc' = [rc EXCEPT ![s.value] = @ + 1]
    /\ Push(<<StoreAt(c, i, s.value)>> \o rest)
    /\ UNCHANGED <<life, storage, held, aborted>>
\* The value of the first equal key is replaced: the new value is retained,
\* the old one released, and then the slot is written.
Replace(c, s, rest) ==
    LET i == FirstIndex(c, s.key) IN
    /\ rc' = [rc EXCEPT ![s.value] = @ + 1]
    /\ Push(<<Release(slots[c][i].value), StoreAt(c, i, s.value)>> \o rest)
    /\ UNCHANGED <<life, storage, held, aborted>>

\* __CFDictionaryInsertOrReplace with memory for a new entry.
InsertOrReplace(c, s, rest) ==
    \/ FindIndex(c, s.key) # {} /\ Replace(c, s, rest)
    \/ /\ FindIndex(c, s.key) = {}
       /\ EnsureCapacity(c, Len(slots[c]) + 1)
       /\ AddSlot(c, s)
       /\ Push(rest)

SetValue == Running("set") /\ InsertOrReplace(Now.obj, Now.slot, <<>>)

AppendValue ==
    LET c == Now.obj IN
    /\ Running("append")
    /\ EnsureCapacity(c, Len(slots[c]) + 1)
    /\ AddSlot(c, Now.slot)
    /\ Push(<<>>)

\* The allocator has no memory for the larger buffer of a mutator.
GrowAborts ==
    LET c == Now.obj IN
    /\ Running("set") \/ Running("append")
    /\ ~Fits(c, Len(slots[c]) + 1)
    /\ Running("set") => FindIndex(c, Now.slot.key) = {}
    /\ Abort("allocation failed")

StoreValue ==
    /\ Running("store")
    /\ slots' = [slots EXCEPT ![Now.obj][Now.index].value = Now.value]
    /\ Push(<<>>)
    /\ UNCHANGED <<life, rc, capacity, buffers, mutable, held, aborted>>

ShiftDown ==
    /\ Running("shift")
    /\ slots' = [slots EXCEPT ![Now.obj] = RemoveAt(@, Now.index)]
    /\ Push(<<>>)
    /\ UNCHANGED <<life, rc, capacity, buffers, mutable, held, aborted>>

\* A creation asks for room for all its elements before it adds the first.
ReserveRoom ==
    /\ Running("reserve")
    /\ EnsureCapacity(Now.obj, Now.room)
    /\ Push(<<Fill(Now.obj, Now.rest)>>)
    /\ UNCHANGED <<life, rc, slots, mutable, held, aborted>>

ReserveFails ==
    /\ Running("reserve") /\ ~Fits(Now.obj, Now.room)
    /\ Push(<<Release(Now.obj)>>)
    /\ UNCHANGED <<life, rc, storage, held, aborted>>

Complete(c, s) == s.value # NULL /\ (c \in Dictionary => s.key # NULL)

FillSlot ==
    LET c == Now.obj  s == Head(Now.rest)  next == <<Fill(c, Tail(Now.rest))>> IN
    /\ Running("fill") /\ Now.rest # <<>> /\ Complete(c, s)
    /\ IF c \in Array
       THEN AddSlot(c, s) /\ Push(next) /\ UNCHANGED <<capacity, buffers>>
       ELSE InsertOrReplace(c, s, next)

\* A NULL among the elements: what was built is released, NULL is returned.
FillFails ==
    /\ Running("fill") /\ Now.rest # <<>> /\ ~Complete(Now.obj, Head(Now.rest))
    /\ Push(<<Release(Now.obj)>>)
    /\ UNCHANGED <<life, rc, storage, held, aborted>>

ReturnNew ==
    /\ Running("fill") /\ Now.rest = <<>>
    /\ held' = [held EXCEPT ![Now.obj] = @ + 1]
    /\ Push(<<>>)
    /\ UNCHANGED <<life, rc, storage, aborted>>

Step == \/ ReleaseShared \/ ReleaseLast
        \/ FinalizeElement \/ FinalizeBuffer \/ Free
        \/ SetValue \/ AppendValue \/ GrowAborts \/ StoreValue \/ ShiftDown
        \/ ReserveRoom \/ ReserveFails \/ FillSlot \/ FillFails \/ ReturnNew

-----------------------------------------------------------------------------
(* The client.  It may use what it holds and, borrowed, what the live      *)
(* collections it can reach contain.                                       *)

Members(c) ==
    (UNION {{slots[c][i].key, slots[c][i].value} : i \in DOMAIN slots[c]}) \ {NULL}

\* The least set that has everything in from and, with a collection, its contents.
Reachable(from, contents) ==
    {o \in Object : \A S \in SUBSET Object :
        from \subseteq S /\ (\A c \in S \cap Collection : contents[c] \subseteq S)
        => o \in S}

Usable == Reachable({o \in Object : held[o] > 0}, [c \in Collection |-> Members(c)])

Call(frames) ==
    /\ todo' = frames
    /\ UNCHANGED <<storage, aborted>>

\* _CFRuntimeCreateInstance succeeds; when it fails nothing changes.
Create(c, isMutable, room, list) ==
    /\ life[c] = "unborn"
    /\ life' = [life EXCEPT ![c] = "live"]
    /\ rc' = [rc EXCEPT ![c] = 1]
    /\ mutable' = IF isMutable THEN mutable \cup {c} ELSE mutable
    /\ todo' = <<Reserve(c, room, list)>>
    /\ UNCHANGED <<slots, capacity, buffers, held, aborted>>

ArraySlots == [key : {NULL}, value : Usable \cup {NULL}]
DictionarySlots == [key : (Usable \cap Leaf) \cup {NULL}, value : Usable \cup {NULL}]

ArrayCreate ==
    \E c \in Array : \E list \in SeqOf(ArraySlots, MaxNew) :
        Create(c, FALSE, Len(list), list)

DictionaryCreate ==
    \E c \in Dictionary : \E list \in SeqOf(DictionarySlots, MaxNew) :
        Create(c, FALSE, Len(list), list)

ArrayCreateCopy ==
    \E c \in Array, a \in Array \cap Usable :
        Create(c, FALSE, Len(slots[a]), slots[a])

DictionaryCreateCopy ==
    \E c \in Dictionary, d \in Dictionary \cap Usable :
        Create(c, FALSE, Len(slots[d]), slots[d])

CreateMutable ==
    \E c \in Collection, room \in 0..1 : Create(c, TRUE, room, <<>>)

CallRetain ==
    \E o \in Usable :
        /\ held[o] < MaxHeld
        /\ held' = [held EXCEPT ![o] = @ + 1]
        /\ rc' = [rc EXCEPT ![o] = @ + 1]
        /\ Call(<<>>) /\ UNCHANGED life

CallRelease ==
    \E o \in Object :
        /\ held[o] > 0
        /\ held' = [held EXCEPT ![o] = @ - 1]
        /\ Call(<<Release(o)>>) /\ UNCHANGED <<life, rc>>

\* Mutant: the mutable flag is not checked.
MutMayMutateAlways(c) == TRUE
MayMutate(c) == c \in mutable

\* A mutator begins with the check of the type and of the mutable flag.
Mutate(c, frames) ==
    \/ MayMutate(c) /\ Call(frames) /\ UNCHANGED <<life, rc, held>>
    \/ ~MayMutate(c) /\ Abort("not mutable")

CallAppendValue ==
    \E c \in Array \cap Usable, v \in Usable :
        /\ Len(slots[c]) < MaxCount
        /\ Mutate(c, <<[op |-> "append", obj |-> c,
                        slot |-> [key |-> NULL, value |-> v]]>>)

CallRemoveValueAtIndex ==
    \E c \in Array \cap Usable : \E i \in DOMAIN slots[c] :
        Mutate(c, ReleasesOf(c, slots[c][i]) \o <<ShiftAt(c, i)>>)

CallSetValue ==
    \E c \in Dictionary \cap Usable, s \in DictionarySlots :
        /\ Len(slots[c]) < MaxCount /\ NULL \notin {s.key, s.value}
        /\ Mutate(c, <<[op |-> "set", obj |-> c, slot |-> s]>>)

CallRemoveValue ==
    \E c \in Dictionary \cap Usable, k \in Leaf \cap Usable :
        Mutate(c, IF FindIndex(c, k) = {} THEN <<>>
                  ELSE LET i == FirstIndex(c, k) IN
                       ReleasesOf(c, slots[c][i]) \o <<ShiftAt(c, i)>>)

Client ==
    /\ todo = <<>> /\ aborted = "no"
    /\ \/ ArrayCreate \/ DictionaryCreate \/ ArrayCreateCopy
       \/ DictionaryCreateCopy \/ CreateMutable \/ CallRetain \/ CallRelease
       \/ CallAppendValue \/ CallRemoveValueAtIndex
       \/ CallSetValue \/ CallRemoveValue

Next == Step \/ Client

Spec == Init /\ [][Next]_vars
FairSpec == Spec /\ WF_vars(Step)

-----------------------------------------------------------------------------
(* Safety.                                                                 *)

\* Every variable has its type.
TypeOK ==
    /\ life \in [Object -> {"unborn", "live", "dying", "freed"}]
    /\ rc \in [Object -> Nat]
    /\ slots \in [Collection -> Seq(Slot)]
    /\ capacity \in [Collection -> Nat] /\ buffers \in [Collection -> Nat]
    /\ mutable \subseteq Collection
    /\ held \in [Object -> 0..MaxHeld]
    /\ todo \in Seq(Frame)
    /\ aborted \in {"no", "release of a dead object", "allocation failed",
                    "not mutable"}

Pending(c, op) == {f \in Range(todo) : f.op = op /\ f.obj = c}

\* The slots whose references are c's: without the slot a removal is about to
\* close, with the value a replacement is about to store, and from the slot the
\* finalizer has come to.
OwnedSlots(c) ==
    IF Pending(c, "shift") # {}
    THEN RemoveAt(slots[c], (CHOOSE f \in Pending(c, "shift") : TRUE).index)
    ELSE IF Pending(c, "store") # {}
    THEN LET f == CHOOSE f \in Pending(c, "store") : TRUE
         IN  [slots[c] EXCEPT ![f.index].value = f.value]
    ELSE IF Pending(c, "finalize") # {}
    THEN SubSeq(slots[c], (CHOOSE f \in Pending(c, "finalize") : TRUE).index,
                Len(slots[c]))
    ELSE IF life[c] = "live" THEN slots[c] ELSE <<>>

\* The pieces of the running call that own a reference.
OwningOps == {"release", "reserve", "fill"}

\* Where the collections have a slot of theirs that is in A.
Places(A) ==
    UNION {{c} \X {i \in DOMAIN OwnedSlots(c) : OwnedSlots(c)[i] \in A} : c \in Collection}

References(o) ==
    held[o]
    + Cardinality(Places([key : Object \cup {NULL}, value : {o}]))
    + Cardinality(Places([key : {o}, value : Object]))
    + Cardinality({j \in DOMAIN todo : todo[j].op \in OwningOps /\ todo[j].obj = o})

\* At every step of every call, also of one that fails half way, the count of a
\* live object is the number of references to it: the client's, those of the
\* slots of collections, and those the running call has yet to give up.
CountIsReferences == \A o \in Object : life[o] = "live" => rc[o] = References(o)

\* Whatever is referred to is alive, so no step reads or releases a dead object.
NothingDangles == \A o \in Object : References(o) > 0 => life[o] = "live"

\* A collection has one buffer if it has room for an element and none else; a
\* collection that is gone has left none behind.
BuffersOwned ==
    \A c \in Collection :
        /\ life[c] = "live" => buffers[c] = IF capacity[c] > 0 THEN 1 ELSE 0
        /\ life[c] = "live" => Len(slots[c]) <= capacity[c]
        /\ life[c] = "freed" => buffers[c] = 0

\* No two keys of a dictionary are equal, also when it is created from a list
\* with equal keys.
KeysDistinct ==
    \A d \in Dictionary : \A i, j \in DOMAIN slots[d] :
        i # j => ~CFEqual(slots[d][i].key, slots[d][j].key)

\* The runtime never tells a client that releases what it holds of a dead object.
NoFalseAlarm == aborted # "release of a dead object"

\* The heap between any two pieces of a call, and so also in the callbacks and
\* finalizers a call makes: every object is counted and alive as long as it is
\* referred to, every collection has its one buffer and its keys are distinct.
HeapOK ==
    /\ TypeOK
    /\ CountIsReferences
    /\ NothingDangles
    /\ BuffersOwned
    /\ KeysDistinct
    /\ NoFalseAlarm

-----------------------------------------------------------------------------
(* CFArray and CFDictionary implement Collections.                         *)

ContentsOf(c) ==
    LET s == IF life[c] = "live" THEN OwnedSlots(c) ELSE <<>> IN
    IF c \in Array THEN [i \in DOMAIN s |-> s[i].value]
    ELSE {<<s[i].key, s[i].value>> : i \in DOMAIN s}

Exists == {o \in Object : life[o] = "live"}

Building == {c \in Collection : Pending(c, "reserve") \cup Pending(c, "fill") # {}}

Abstract == INSTANCE Collections WITH
    Same <- CFEqual, exists <- Exists,
    contents <- [c \in Collection |-> ContentsOf(c)],
    mutable <- mutable \cap Exists, building <- Building, held <- held

\* Every step of a call is one atomic operation on sequences and maps, or
\* changes neither, and an object dies only when nothing refers to it.
ImplementsCollections == Abstract!ASpec

-----------------------------------------------------------------------------
(* Liveness.                                                               *)

Referenced(o) == held[o] > 0 \/ o \in Building
                 \/ \E c \in Exists \cap Collection : o \in Abstract!Members(c)

\* An object that neither the client nor a live collection refers to is freed,
\* however deep in a collection that went away it was, unless the process aborts.
UnreferencedFreed ==
    \A o \in Object :
        (life[o] = "live" /\ ~Referenced(o)) ~> (life[o] = "freed" \/ aborted # "no")
=============================================================================
