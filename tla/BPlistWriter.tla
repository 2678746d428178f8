---------------------------- MODULE BPlistWriter ----------------------------
(***************************************************************************)
(* CFPropertyListCreateData and the writer of CFBinaryPList.c: a depth-    *)
(* first walk that numbers every object of the property list once          *)
(* (__FXBplistCollectObject), then one encoded object for each number,     *)
(* whose references are numbers, written in objectRefSize bytes.           *)
(*                                                                         *)
(* stack has the activations of __FXBplistCollectObject for containers;   *)
(* their nodes are collector.stack, and next is the loop's index.          *)
(***************************************************************************)
EXTENDS Integers, FiniteSets, SequencesExt, BPlistObjects

CONSTANTS
    Node,       \* the objects of the caller
    Graphs,     \* the ways the caller may have connected them
    Root,       \* the object given to CFPropertyListCreateData
    MaxDepth,   \* FX_BPLIST_MAX_DEPTH; 64 in the code
    FirstRoom,  \* objects the collector's first array holds; 16 in the code
    ByteBase    \* values of a byte; 256 in the code

ObjectKinds == Containers \cup Leaves \cup {"other"}

\* items are the elements in order, for a dictionary key, value, key, value...
GraphOK(g) ==
    /\ g \in [Node -> [kind : ObjectKinds, items : Seq(Node)]]
    /\ \A n \in Node : /\ g[n].kind = "dictionary" => Len(g[n].items) % 2 = 0
                       /\ g[n].kind \notin Containers => g[n].items = <<>>

ASSUME GraphsOK == \A g \in Graphs : GraphOK(g)
\* Their numbers are CFIndex values, of 8 bytes.
ASSUME NodesOK == IsFiniteSet(Node) /\ Cardinality(Node) <= ByteBase ^ 8
ASSUME RootOK == Root \in Node /\ NULL \notin Node
ASSUME BoundsOK ==
    MaxDepth \in Nat /\ FirstRoom \in Nat \ {0} /\ ByteBase \in Nat \ {0, 1}

VARIABLES
    graph,      \* the objects and what they contain: the call reads it only
    root,       \* the property list argument
    wantsError, \* the caller passed a place for an error
    progress,   \* "idle", "collect", "unwind", "encode", "done"
    stack,      \* activations on containers, the innermost last
    objects,    \* collector.objects, in order of their numbers from 0
    encoded,    \* the objects encoded so far
    refSize,    \* objectRefSize
    held,       \* the working memory the call has allocated
    errorOut,   \* what *errorOut holds: "none", "stale" (from before) or "write"
    errors,     \* errors the call has created
    exhausted,  \* an allocation has failed
    written     \* what the call returned, NULL until then and when it fails

writerVars == <<graph, root, wantsError, progress, stack, objects, encoded, refSize, held,
                errorOut, errors, exhausted, written>>
argument == <<graph, root, wantsError>>

StackEntry == [node : Node, next : Nat \ {0}]
Encoded == [kind : ObjectKinds, refs : Seq(Nat), node : Node]
\* What Wrap returns is no null pointer.
ASSUME NullIsNoData == NULL \notin [top : {0}, refSize : {1, 2, 4, 8}, table : Seq(Encoded)]

WriterInit ==
    /\ graph \in Graphs
    /\ root \in {Root, NULL} /\ wantsError \in BOOLEAN
    /\ progress = "idle"
    /\ stack = <<>> /\ objects = <<>> /\ encoded = <<>> /\ refSize = 0
    /\ held = {} /\ errors = 0 /\ exhausted = FALSE /\ written = NULL
    /\ errorOut = IF wantsError THEN "stale" ELSE "none"

-----------------------------------------------------------------------------
(* Errors and memory.                                                      *)

\* Mutant: an error that is already there is replaced.
MutSetWriteErrorAgain(out) ==
    \/ wantsError /\ errorOut' = "write" /\ errors' = errors + 1 /\ exhausted' = (exhausted \/ out)
    \/ UNCHANGED <<errorOut, errors>> /\ exhausted' = (exhausted \/ out \/ wantsError)
\* __FXBplistSetError: only the first error of a call is kept, and the error
\* object itself may not get its memory.  out: this step ran out of memory.
SetWriteError(out) ==
    \/ /\ wantsError /\ errorOut = "none"
       /\ errorOut' = "write" /\ errors' = errors + 1
       /\ exhausted' = (exhausted \/ out)
    \/ /\ UNCHANGED <<errorOut, errors>>
       /\ exhausted' = (exhausted \/ out \/ (wantsError /\ errorOut = "none"))

\* The collector's array is full: it doubles from FirstRoom.
Full == \/ objects = <<>>
        \/ \E k \in 0..Len(objects) : Len(objects) = FirstRoom * 2^k

-----------------------------------------------------------------------------
(* CFPropertyListCreateData.                                               *)

ClearError(e) == "none"

\* A format or option that is not supported.
CreateDataRefuses ==
    /\ progress = "idle"
    /\ progress' = "done"
    /\ errorOut' \in IF wantsError THEN {"write", ClearError(errorOut)} ELSE {errorOut}
    /\ errors' = IF errorOut' = "write" THEN 1 ELSE 0
    /\ exhausted' = (wantsError /\ errorOut' # "write")
    /\ UNCHANGED <<argument, stack, objects, encoded, refSize, held, written>>

CreateData ==
    /\ progress = "idle"
    /\ progress' = "collect"
    /\ errorOut' = IF wantsError THEN ClearError(errorOut) ELSE errorOut
    /\ UNCHANGED <<argument, stack, objects, encoded, refSize, held, errors, exhausted, written>>

-----------------------------------------------------------------------------
(* __FXBplistCollectObject.                                                *)

TopEntry == Last(stack)
Items(n) == graph[n].items
Finished == stack # <<>> /\ TopEntry.next > Len(Items(TopEntry.node))

\* The object the running activation looks at.
Current == IF stack = <<>> THEN root ELSE Items(TopEntry.node)[TopEntry.next]

\* In a dictionary, the key is checked before it is collected.
IsBadKey(o) == /\ stack # <<>> /\ graph[TopEntry.node].kind = "dictionary"
               /\ TopEntry.next % 2 = 1
               /\ graph[o].kind # "string"

\* Mutant: an object that is being walked is taken for a collected one.
MutStackContains(o) == FALSE
StackContains(o) == \E i \in DOMAIN stack : stack[i].node = o

Collected(o) == \E i \in DOMAIN objects : objects[i] = o

\* Mutant: the loop of the activation below does not go on.
MutAdvanced == stack
\* The loop of the activation below goes on to its next object.
Advanced == IF stack = <<>> THEN <<>>
            ELSE [stack EXCEPT ![Len(stack)].next = @ + 1]

\* __FXBplistMinimalBytesForUnsigned of the largest number.
ReferenceSize(n) ==
    LET fits == {w \in {1, 2, 4, 8} : n - 1 < ByteBase ^ w}
    IN  IF fits = {} THEN 8 ELSE CHOOSE w \in fits : \A v \in fits : w <= v

\* When the outermost activation has returned true, encoding starts.
Continue(new) ==
    /\ stack' = new
    /\ IF new = <<>> THEN progress' = "encode" /\ refSize' = ReferenceSize(Len(objects'))
       ELSE UNCHANGED <<progress, refSize>>

CollectReturn ==
    /\ progress = "collect" /\ Finished
    /\ UNCHANGED <<argument, objects, encoded, held, errorOut, errors, exhausted, written>>
    /\ Continue(Front(stack))

\* The object has its number already.
CollectShared ==
    /\ progress = "collect" /\ ~Finished /\ Current # NULL
    /\ ~IsBadKey(Current) /\ ~StackContains(Current) /\ Collected(Current)
    /\ UNCHANGED <<argument, objects, encoded, held, errorOut, errors, exhausted, written>>
    /\ Continue(Advanced)

New == /\ progress = "collect" /\ ~Finished /\ Current # NULL
       /\ ~IsBadKey(Current) /\ ~StackContains(Current) /\ ~Collected(Current)

\* __FXBplistCollectorAppend when there is memory.
CollectorAppend ==
    /\ objects' = Append(objects, Current)
    /\ held' = held \cup {"objects"}

CollectLeaf ==
    /\ New /\ graph[Current].kind \in Leaves
    /\ CollectorAppend
    /\ UNCHANGED <<argument, encoded, errorOut, errors, exhausted, written>>
    /\ Continue(Advanced)

TooDeep == Len(stack) >= MaxDepth

\* A container is pushed, and its loop starts.
CollectContainer ==
    /\ New /\ graph[Current].kind \in Containers
    /\ ~TooDeep
    /\ CollectorAppend
    /\ stack' = Append(Advanced, [node |-> Current, next |-> 1])
    /\ UNCHANGED <<argument, progress, encoded, refSize, errorOut, errors, exhausted, written>>

\* NULL or an object inside itself.
CollectRefuses ==
    /\ progress = "collect" /\ ~Finished
    /\ Current = NULL \/ (~IsBadKey(Current) /\ StackContains(Current))
    /\ progress' = "unwind"
    /\ SetWriteError(FALSE)
    /\ UNCHANGED <<argument, stack, objects, encoded, refSize, held, written>>

\* A key that is no string: the dictionary's activation will report it.
CollectBadKey ==
    /\ progress = "collect" /\ ~Finished /\ Current # NULL /\ IsBadKey(Current)
    /\ progress' = "unwind"
    /\ UNCHANGED <<argument, stack, objects, encoded, refSize, held, errorOut, errors, exhausted, written>>

\* An object of another type, or one nested too deep: it has its number by then.
CollectUnsupported ==
    /\ New
    /\ \/ graph[Current].kind \notin Containers \cup Leaves
       \/ graph[Current].kind \in Containers /\ TooDeep
    /\ CollectorAppend
    /\ progress' = "unwind"
    /\ SetWriteError(FALSE)
    /\ UNCHANGED <<argument, stack, encoded, refSize, written>>

CollectNoMemory ==
    /\ New /\ Full
    /\ progress' = "unwind"
    /\ SetWriteError(TRUE)
    /\ UNCHANGED <<argument, stack, objects, encoded, refSize, held, written>>

\* A failing activation pops its object; that of a dictionary reports again.
Unwind ==
    /\ progress = "unwind" /\ stack # <<>>
    /\ stack' = Front(stack)
    /\ IF graph[TopEntry.node].kind = "dictionary" THEN SetWriteError(FALSE)
       ELSE UNCHANGED <<errorOut, errors, exhausted>>
    /\ UNCHANGED <<argument, progress, objects, encoded, refSize, held, written>>

FreeAll == held' = {}

GiveUp ==
    /\ progress = "unwind" /\ stack = <<>>
    /\ progress' = "done"
    /\ FreeAll
    /\ UNCHANGED <<argument, stack, objects, encoded, refSize, errorOut, errors, exhausted, written>>

-----------------------------------------------------------------------------
(* _FXCFBinaryPListCreateData, after the walk.                             *)

\* __FXBplistFindObjectIndex: the first number of an object, from 0.
FindObjectIndex(o) ==
    (CHOOSE i \in DOMAIN objects :
        objects[i] = o /\ \A j \in DOMAIN objects : objects[j] = o => i <= j) - 1

\* __FXBplistBufferAppendBEUnsigned of a number in refSize bytes, read back.
Reference(i) == i % ByteBase ^ refSize

\* Mutant: the pairs of a dictionary are written one after the other.
MutRefOrderPairs(o) == Items(o)
\* An array's elements in order; a dictionary's keys, then its values.
RefOrder(o) ==
    LET half == Len(Items(o)) \div 2 IN
    IF graph[o].kind # "dictionary" THEN Items(o)
    ELSE [i \in 1..(2 * half) |-> IF i <= half THEN Items(o)[2 * i - 1]
                                  ELSE Items(o)[2 * (i - half)]]

EncodeObject(o) ==
    [kind |-> graph[o].kind, node |-> o,
     refs |-> [i \in DOMAIN RefOrder(o) |->
                 Reference(FindObjectIndex(RefOrder(o)[i]))]]

\* The next object is encoded; a reference to an object without a number fails.
Encode ==
    /\ progress = "encode" /\ Len(encoded) < Len(objects)
    /\ UNCHANGED <<argument, stack, objects, refSize, written>>
    /\ LET o == objects[Len(encoded) + 1] IN
       IF \A i \in DOMAIN Items(o) : Collected(Items(o)[i])
       THEN /\ encoded' = Append(encoded, EncodeObject(o))
            /\ held' = held \cup {"bytes"}
            /\ UNCHANGED <<progress, errorOut, errors, exhausted>>
       ELSE progress' = "done" /\ FreeAll /\ SetWriteError(FALSE) /\ UNCHANGED encoded

\* The buffer cannot grow for the header, an object, the offsets or the
\* trailer, or CFDataCreate has no memory.
EncodeNoMemory ==
    /\ progress = "encode"
    /\ progress' = "done"
    /\ FreeAll /\ SetWriteError(TRUE)
    /\ UNCHANGED <<argument, stack, objects, encoded, refSize, written>>

\* The offsets and the trailer are appended and the bytes are copied to a CFData.
Wrap ==
    /\ progress = "encode" /\ Len(encoded) = Len(objects)
    /\ progress' = "done"
    /\ written' = [top |-> 0, refSize |-> refSize, table |-> encoded]
    /\ FreeAll
    /\ UNCHANGED <<argument, stack, objects, encoded, refSize, errorOut, errors, exhausted>>

-----------------------------------------------------------------------------

WriterNext ==
    \/ CreateDataRefuses \/ CreateData
    \/ CollectReturn \/ CollectShared \/ CollectLeaf \/ CollectContainer
    \/ CollectRefuses \/ CollectBadKey \/ CollectUnsupported \/ CollectNoMemory
    \/ Unwind \/ GiveUp
    \/ Encode \/ EncodeNoMemory \/ Wrap

WriterSpec == WriterInit /\ [][WriterNext]_writerVars

-----------------------------------------------------------------------------
(* Properties.                                                             *)

WriterTypeOK ==
    /\ graph \in Graphs /\ root \in {Root, NULL} /\ wantsError \in BOOLEAN
    /\ progress \in {"idle", "collect", "unwind", "encode", "done"}
    /\ stack \in Seq(StackEntry) /\ Len(stack) <= MaxDepth
    /\ objects \in Seq(Node) /\ encoded \in Seq(Encoded)
    /\ refSize \in {0, 1, 2, 4, 8}
    /\ held \subseteq {"objects", "bytes"}
    /\ errorOut \in {"none", "stale", "write"} /\ errors \in Nat /\ exhausted \in BOOLEAN
    /\ written = NULL \/ written = [top |-> 0, refSize |-> refSize, table |-> encoded]

\* What each object contains.
Elements == [n \in Node |-> ToSet(Items(n))]

Reachable == Reach(Elements, Root, Node)

\* What a property list is: nothing contains itself, and every object has a
\* type that can be written; the keys of dictionaries are strings.
IsPropertyList ==
    /\ Acyclic(Elements, Reachable)
    /\ \A n \in Reachable :
        /\ graph[n].kind # "other"
        /\ graph[n].kind = "dictionary" =>
            \A i \in DOMAIN Items(n) : i % 2 = 1 => graph[Items(n)[i]].kind = "string"

\* No path of MaxDepth references, the size of the collector's stack, leads from
\* the root to another container.
Shallow ==
    \A path \in [0..MaxDepth -> Node] :
        path[0] = Root /\ (\A k \in 1..MaxDepth : path[k] \in Elements[path[k - 1]])
            => graph[path[MaxDepth]].kind \notin Containers

\* Everything that is a property list, and not nested too deep on any path, is
\* written when memory suffices, however its objects are shared.
AcceptsPropertyLists ==
    progress = "done" /\ objects # <<>> /\ ~exhausted /\ IsPropertyList /\ Shallow
        => written # NULL

\* Nothing else is written: not a graph with a cycle, although the walk stops
\* at objects that already have a number, nor one with a foreign object.
WritesPropertyListsOnly == written # NULL => root = Root /\ IsPropertyList

\* The numbers are those of exactly the objects of the list, one each, and the
\* references, as they come back from refSize bytes, name what the objects
\* contain: a dictionary's i-th key is reference i, its value i + count.
ReferencesAgree ==
    written # NULL =>
        /\ ToSet(objects) = Reachable /\ Len(objects) = Cardinality(Reachable)
        /\ \A e \in ToSet(encoded) :
            LET Named(i) == objects[e.refs[i] + 1]
                half == Len(e.refs) \div 2
            IN  /\ Len(e.refs) = Len(Items(e.node))
                /\ \A i \in DOMAIN e.refs : e.refs[i] < Len(objects)
                /\ IF e.kind = "dictionary"
                   THEN \A i \in 1..half : /\ Named(i) = Items(e.node)[2 * i - 1]
                                           /\ Named(half + i) = Items(e.node)[2 * i]
                   ELSE \A i \in DOMAIN e.refs : Named(i) = Items(e.node)[i]

\* Of all graphs, exactly the property lists are written, each as itself.
WritesPropertyLists ==
    AcceptsPropertyLists /\ WritesPropertyListsOnly /\ ReferencesAgree

\* The caller can tell: after a failure *error is a fresh error, unless there
\* was no memory for it; after a success it is empty.  At most one error is
\* created, so none is lost.
ErrorTellsFailure ==
    /\ errors <= 1
    /\ progress = "done" /\ wantsError =>
        IF written # NULL THEN errorOut = "none"
        ELSE errorOut = "write" \/ (exhausted /\ errorOut = "none")

\* Whichever step fails, the call gives back its working memory.
MemoryReturned == progress = "done" => held = {}

\* A call ends as it should, whichever of its steps fails.
WriterEndsCleanly == WriterTypeOK /\ ErrorTellsFailure /\ MemoryReturned

\* A call returns, also when the caller's objects form a cycle.
WriterReturns == <>(progress = "done")
=============================================================================
