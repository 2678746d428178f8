---------------------------- MODULE BPlistParser ----------------------------
(***************************************************************************)
(* CFPropertyListCreateWithData and the parser of CFBinaryPList.c.  A      *)
(* document is a table of encoded objects that refer to each other by      *)
(* number; it need not come from the writer: numbers may be out of range,  *)
(* shared or cyclic.  The cache owns one reference to every object parsed; *)
(* the cleanup gives them up, after the top object has been retained for   *)
(* the caller.                                                             *)
(*                                                                         *)
(* The object made of entry i is called i.  What CFArrayCreate,            *)
(* CFDictionaryCreate, CFRetain and CFRelease do to reference counts is    *)
(* here a step on the count rc; CFContainers and CFRuntime have them in    *)
(* detail.                                                                 *)
(***************************************************************************)
EXTENDS Integers, FiniteSets, SequencesExt, BPlistObjects

CONSTANT Documents  \* the data a call may be given

\* corrupt: an unknown marker, a length or value that does not fit in the data.
Kinds == Containers \cup Leaves \cup {"corrupt"}

\* A dictionary's refs are its keys, then its values.
DocumentOK(d) ==
    /\ d.trailer \in BOOLEAN    \* magic, sizes and table position are plausible
    /\ d.offsets \in BOOLEAN    \* every offset lies between header and table
    /\ Len(d.table) \in Nat \ {0} /\ DOMAIN d.table = 1..Len(d.table)
    /\ d.top \in 0..(Len(d.table) - 1)
    /\ \A i \in DOMAIN d.table :
        LET e == d.table[i] IN
        /\ e.kind \in Kinds /\ e.refs \in Seq(Nat)
        /\ e.kind = "dictionary" => Len(e.refs) % 2 = 0
        /\ e.kind \notin Containers => e.refs = <<>>

ASSUME DocumentsOK == \A d \in Documents : DocumentOK(d)
ASSUME NullIsNoNumber == NULL \notin Nat

VARIABLES
    doc,         \* the data argument
    wants,       \* the caller passed a place for an error
    phase,       \* "idle", "load", "parse", "cleanup", "done"; or "rejected"
    frames,      \* activations of ParseArray and ParseDictionary, innermost last
    control,     \* what the innermost activation does: call, return or loop
    cache,       \* the entries with an object in parser.cache
    inProgress,  \* the entries with their inProgress flag set
    rc,          \* retain count of the objects; 0 before creation and when freed
    todo,        \* what the cleanup has still to release
    tables,      \* offsets, cache and inProgress are allocated
    arrays,      \* entries whose activation has its keys or values allocated
    format,      \* what *format holds: "stale", "none" or "binary"
    error,       \* what *error holds: "none", "stale" or "read"
    made,        \* errors created
    refused,     \* an allocation has failed
    result       \* what the call returns: an object or NULL

vars == <<doc, wants, phase, frames, control, cache, inProgress, rc, todo, tables,
          arrays, format, error, made, refused, result>>
call == <<doc, wants>>
heap == <<cache, rc>>
outcome == <<error, made, refused>>

NumObjects == Len(doc.table)
Numbers == 0..(NumObjects - 1)
Entry(i) == doc.table[i + 1]

\* at counts array elements or dictionary pairs; key is the parsed key of the pair.
Frame == [object : Numbers, at : Nat \ {0}, key : Numbers \cup {NULL}, onValue : BOOLEAN]
Control == [op : {"call", "return"}, arg : Nat \cup {NULL}] \cup {[op |-> "loop"]}

Init ==
    /\ doc \in Documents /\ wants \in BOOLEAN
    /\ phase = "idle"
    /\ frames = <<>> /\ control = [op |-> "loop"]
    /\ cache = {} /\ inProgress = {} /\ rc = [i \in Numbers |-> 0]
    /\ todo = <<>> /\ tables = FALSE /\ arrays = {}
    /\ format = "stale"
    /\ error = IF wants THEN "stale" ELSE "none"
    /\ made = 0 /\ refused = FALSE /\ result = NULL

-----------------------------------------------------------------------------
(* Errors.                                                                 *)

\* __FXBplistSetError; out: this step ran out of memory.  A function that fails
\* and its caller both call it, so the error may be made at the second attempt.
SetError(out) ==
    \/ /\ wants /\ error = "none"
       /\ error' = "read" /\ made' = made + 1
       /\ refused' \in {refused \/ out, TRUE}
    \/ /\ UNCHANGED <<error, made>>
       /\ refused' = (refused \/ out \/ (wants /\ error = "none"))

-----------------------------------------------------------------------------
(* CFPropertyListCreateWithData and the start of _FXCFBinaryPList-         *)
(* CreateWithData.                                                         *)

\* Options other than kCFPropertyListImmutable.
CreateWithDataRefuses ==
    /\ phase = "idle"
    /\ phase' = "rejected" /\ format' = "none"
    /\ error' \in IF wants THEN {"read", "none"} ELSE {error}
    /\ made' = IF error' = "read" THEN 1 ELSE 0
    /\ refused' = (wants /\ error' # "read")
    /\ UNCHANGED <<call, frames, control, heap, inProgress, todo, tables, arrays, result>>

CreateWithData ==
    /\ phase = "idle"
    /\ phase' = "load" /\ format' = "none"
    /\ error' = "none"
    /\ UNCHANGED <<call, frames, control, heap, inProgress, todo, tables, arrays,
                   made, refused, result>>

\* No CFData, too short, no magic, a trailer out of bounds; or an offset out of
\* bounds, when the tables are allocated already and are freed.
LoadRefuses ==
    /\ phase = "load" /\ ~(doc.trailer /\ doc.offsets)
    /\ phase' = "done"
    /\ SetError(FALSE)
    /\ UNCHANGED <<call, frames, control, heap, inProgress, todo, tables, arrays,
                   format, result>>

LoadNoMemory ==
    /\ phase = "load" /\ doc.trailer
    /\ phase' = "done"
    /\ SetError(TRUE)
    /\ UNCHANGED <<call, frames, control, heap, inProgress, todo, tables, arrays,
                   format, result>>

Load ==
    /\ phase = "load" /\ doc.trailer /\ doc.offsets
    /\ phase' = "parse" /\ tables' = TRUE
    /\ control' = [op |-> "call", arg |-> doc.top]
    /\ UNCHANGED <<call, frames, heap, inProgress, todo, arrays, format, outcome, result>>

-----------------------------------------------------------------------------
(* __FXBplistParseObjectAtIndex.                                           *)

Return(o) == control' = [op |-> "return", arg |-> o]
Calling == phase = "parse" /\ control.op = "call"
Arg == control.arg

CallCached ==
    /\ Calling /\ Arg \in cache
    /\ Return(Arg)
    /\ UNCHANGED <<call, phase, frames, heap, inProgress, todo, tables, arrays, format,
                   outcome, result>>

\* The entry is being parsed: the document has a cycle.
CallRefuses ==
    /\ Calling /\ Arg \notin cache /\ (Arg \in Numbers => Arg \in inProgress)
    /\ Return(NULL) /\ SetError(FALSE)
    /\ UNCHANGED <<call, phase, frames, heap, inProgress, todo, tables, arrays, format,
                   result>>

Fresh == Calling /\ Arg \in Numbers \ (cache \cup inProgress)

\* A boolean, number, date, data or string.
CallLeaf ==
    /\ Fresh /\ Entry(Arg).kind \in Leaves
    /\ rc' = [rc EXCEPT ![Arg] = @ + 1]
    /\ cache' = cache \cup {Arg}
    /\ Return(Arg)
    /\ UNCHANGED <<call, phase, frames, inProgress, todo, tables, arrays, format,
                   outcome, result>>

\* An entry of which nothing can be made, for lack of sense or of memory.
CallFails ==
    /\ Fresh
    /\ Entry(Arg).kind \in Containers => Entry(Arg).refs # <<>>
    /\ Return(NULL)
    /\ SetError(Entry(Arg).kind # "corrupt")
    /\ UNCHANGED <<call, phase, frames, heap, inProgress, todo, tables, arrays, format,
                   result>>

\* The flag is set, and the values (and keys) get their memory if there are any.
CallContainer ==
    /\ Fresh /\ Entry(Arg).kind \in Containers
    /\ inProgress' = inProgress \cup {Arg}
    /\ arrays' = IF Entry(Arg).refs = <<>> THEN arrays ELSE arrays \cup {Arg}
    /\ frames' = Append(frames, [object |-> Arg, at |-> 1, key |-> NULL, onValue |-> FALSE])
    /\ control' = [op |-> "loop"]
    /\ UNCHANGED <<call, phase, heap, todo, tables, format, outcome, result>>

-----------------------------------------------------------------------------
(* The loops of __FXBplistParseArray and __FXBplistParseDictionary.        *)

Top == Last(frames)
Refs == Entry(Top.object).refs
Pairs(o) == Len(Entry(o).refs) \div 2
IsDictionary == Entry(Top.object).kind = "dictionary"
Count == IF IsDictionary THEN Pairs(Top.object) ELSE Len(Refs)

Looping == phase = "parse" /\ frames # <<>> /\ control.op = "loop"
Returned == phase = "parse" /\ frames # <<>> /\ control.op = "return"

SetTop(f) == frames' = [frames EXCEPT ![Len(frames)] = f]
Call(i) == control' = [op |-> "call", arg |-> i]

InRange(r) == r < NumObjects

\* The references of this round: both of a pair are read before it is parsed.
Round == IF IsDictionary THEN {Refs[Top.at], Refs[Count + Top.at]} ELSE {Refs[Top.at]}

\* The key, or the array element, is parsed first.
ParseNext ==
    /\ Looping /\ Top.at <= Count /\ (\A r \in Round : InRange(r))
    /\ Call(Refs[Top.at])
    /\ UNCHANGED <<call, phase, frames, heap, inProgress, todo, tables, arrays, format,
                   outcome, result>>

\* Mutant: the loop does not go on.
MutKeepElementStays ==
    /\ Returned /\ ~IsDictionary /\ Arg # NULL
    /\ control' = [op |-> "loop"]
    /\ UNCHANGED <<call, phase, frames, heap, inProgress, todo, tables, arrays, format,
                   outcome, result>>
KeepElement ==
    /\ Returned /\ ~IsDictionary /\ Arg # NULL
    /\ SetTop([Top EXCEPT !.at = @ + 1])
    /\ control' = [op |-> "loop"]
    /\ UNCHANGED <<call, phase, heap, inProgress, todo, tables, arrays, format, outcome,
                   result>>

\* Whatever became of the key, the value is parsed.
KeepKey ==
    /\ Returned /\ IsDictionary /\ ~Top.onValue
    /\ SetTop([Top EXCEPT !.key = Arg, !.onValue = TRUE])
    /\ Call(Refs[Count + Top.at])
    /\ UNCHANGED <<call, phase, heap, inProgress, todo, tables, arrays, format, outcome,
                   result>>

\* Mutant: any object will do as a key.
MutPairIsGood == Arg # NULL /\ Top.key # NULL
PairIsGood == Arg # NULL /\ Top.key # NULL /\ Entry(Top.key).kind = "string"

KeepPair ==
    /\ Returned /\ IsDictionary /\ Top.onValue /\ PairIsGood
    /\ SetTop([Top EXCEPT !.at = @ + 1, !.key = NULL, !.onValue = FALSE])
    /\ control' = [op |-> "loop"]
    /\ UNCHANGED <<call, phase, heap, inProgress, todo, tables, arrays, format, outcome,
                   result>>

\* The activation frees its arrays and clears its flag.
Leave ==
    /\ frames' = Front(frames)
    /\ arrays' = arrays \ {Top.object}
    /\ inProgress' = inProgress \ {Top.object}

\* An element or a pair failed, or a reference of the round is out of range.
ContainerFails ==
    /\ \/ Returned /\ ~IsDictionary /\ Arg = NULL
       \/ Returned /\ IsDictionary /\ Top.onValue /\ ~PairIsGood
       \/ Looping /\ Top.at <= Count /\ (\E r \in Round : ~InRange(r))
    /\ Leave
    /\ Return(NULL) /\ SetError(FALSE)
    /\ UNCHANGED <<call, phase, heap, todo, tables, format, result>>

\* The elements of a set of numbers, the smallest first.
Ascending(S) ==
    [k \in 1..Cardinality(S) |-> CHOOSE x \in S : Cardinality({y \in S : y <= x}) = k]

\* Where s has i, and how often.
At(s, i) == {k \in DOMAIN s : s[k] = i}
Occurrences(s, i) == Cardinality(At(s, i))

\* Of the pairs with equal keys, a dictionary keeps the first key and the last value.
Same(i, j) == i = j \/ Entry(i).text = Entry(j).text
KeptKeys(o) ==
    {i \in 1..Pairs(o) : \A j \in 1..(i - 1) : ~Same(Entry(o).refs[i], Entry(o).refs[j])}
KeptValues(o) ==
    {i \in 1..Pairs(o) :
        \A j \in (i + 1)..Pairs(o) : ~Same(Entry(o).refs[i], Entry(o).refs[j])}

\* The references an object holds.
Picked(s, places, from) ==
    [k \in 1..Cardinality(places) |-> s[from + Ascending(places)[k]]]
Stored(o) ==
    LET refs == Entry(o).refs IN
    IF Entry(o).kind # "dictionary" THEN refs
    ELSE Picked(refs, KeptKeys(o), 0) \o Picked(refs, KeptValues(o), Pairs(o))

\* Mutant: the elements are stored without being retained.
MutRetained(o) == [i \in Numbers |-> IF i = o THEN 1 ELSE rc[i]]
\* rc after the creation of o, which retains what it stores.
Retained(o) ==
    [i \in Numbers |-> (IF i = o THEN 1 ELSE rc[i]) + Occurrences(Stored(o), i)]

ContainerDone ==
    /\ Looping /\ Top.at > Count
    /\ rc' = Retained(Top.object)
    /\ cache' = cache \cup {Top.object}
    /\ Leave
    /\ Return(Top.object)
    /\ UNCHANGED <<call, phase, todo, tables, format, outcome, result>>

ContainerNoMemory ==
    /\ Looping /\ Top.at > Count
    /\ Leave
    /\ Return(NULL) /\ SetError(TRUE)
    /\ UNCHANGED <<call, phase, heap, todo, tables, format, result>>

-----------------------------------------------------------------------------
(* The end of _FXCFBinaryPListCreateWithData and its cleanup.              *)

CacheSeq == Ascending(cache)
TopReturned == phase = "parse" /\ frames = <<>> /\ control.op = "return"

ParseFailed ==
    /\ TopReturned /\ Arg = NULL
    /\ phase' = "cleanup" /\ todo' = CacheSeq
    /\ UNCHANGED <<call, frames, control, heap, inProgress, tables, arrays, format,
                   outcome, result>>

\* Mutant: the top object is not retained before the cleanup.
MutParseDoneUnretained ==
    /\ TopReturned /\ Arg # NULL
    /\ phase' = "cleanup" /\ todo' = CacheSeq
    /\ format' = "binary"
    /\ result' = Arg
    /\ UNCHANGED <<call, frames, control, heap, inProgress, tables, arrays, outcome>>
ParseDone ==
    /\ TopReturned /\ Arg # NULL
    /\ phase' = "cleanup" /\ todo' = CacheSeq
    /\ format' = "binary"
    /\ rc' = [rc EXCEPT ![Arg] = @ + 1]
    /\ result' = Arg
    /\ UNCHANGED <<call, frames, control, cache, inProgress, tables, arrays, outcome>>

\* CFRelease: the last reference of a container takes its contents along.
CleanupRelease ==
    /\ phase = "cleanup" /\ todo # <<>>
    /\ rc' = [rc EXCEPT ![Head(todo)] = @ - 1]
    /\ todo' = (IF rc[Head(todo)] = 1 THEN Stored(Head(todo)) ELSE <<>>) \o Tail(todo)
    /\ UNCHANGED <<call, phase, frames, control, cache, inProgress, tables, arrays, format,
                   outcome, result>>

CleanupFree ==
    /\ phase = "cleanup" /\ todo = <<>>
    /\ phase' = "done"
    /\ tables' = FALSE
    /\ UNCHANGED <<call, frames, control, heap, inProgress, todo, arrays, format, outcome,
                   result>>

-----------------------------------------------------------------------------

Next ==
    \/ CreateWithDataRefuses \/ CreateWithData
    \/ LoadRefuses \/ LoadNoMemory \/ Load
    \/ CallCached \/ CallRefuses \/ CallLeaf \/ CallFails \/ CallContainer
    \/ ParseNext \/ KeepElement \/ KeepKey \/ KeepPair
    \/ ContainerFails \/ ContainerDone \/ ContainerNoMemory
    \/ ParseFailed \/ ParseDone \/ CleanupRelease \/ CleanupFree

Spec == Init /\ [][Next]_vars
\* The call runs on its caller's thread, with nothing to wait for.
FairSpec == Spec /\ WF_vars(Next)

-----------------------------------------------------------------------------
(* Properties.                                                             *)

TypeOK ==
    /\ doc \in Documents /\ wants \in BOOLEAN
    /\ phase \in {"idle", "load", "parse", "cleanup", "done", "rejected"}
    /\ frames \in Seq(Frame) /\ control \in Control
    /\ cache \subseteq Numbers /\ inProgress \subseteq Numbers /\ arrays \subseteq inProgress
    /\ rc \in [Numbers -> Nat] /\ todo \in Seq(Numbers) /\ tables \in BOOLEAN
    /\ format \in {"stale", "none", "binary"}
    /\ error \in {"none", "stale", "read"} /\ made \in Nat /\ refused \in BOOLEAN
    /\ result \in Numbers \cup {NULL}

Ended == phase \in {"done", "rejected"}

\* What each entry refers to, in range or not.
RefersTo == [i \in Numbers |-> ToSet(Entry(i).refs)]

\* The entry makes sense, and has strings as keys.
Sound(i) ==
    /\ Entry(i).kind # "corrupt"
    /\ Entry(i).kind = "dictionary" =>
        \A k \in 1..Pairs(i) : Entry(Entry(i).refs[k]).kind = "string"

\* What the format allows: the entries that the top refers to, and those they
\* refer to and so on, exist, make sense and have no cycles.
WellFormed ==
    /\ doc.trailer /\ doc.offsets
    /\ \E S \in SUBSET Numbers :
        /\ doc.top \in S /\ Closed(RefersTo, S) /\ Acyclic(RefersTo, S)
        /\ \A i \in S : Sound(i)

\* A well-formed document is parsed when memory suffices, whatever it shares
\* and in whatever order its entries stand.
AcceptsWellFormed == phase = "done" /\ ~refused /\ WellFormed => result # NULL

\* No other document is: the cache never hides a cycle or a bad entry.
RejectsOthers == result # NULL => WellFormed

\* Of all documents, exactly the well-formed ones are parsed.
ParsesWellFormed == AcceptsWellFormed /\ RejectsOthers

\* References to i from the objects that exist.
Places(j, i) == {j} \X At(Stored(j), i)
Holders(i) == Cardinality(UNION {Places(j, i) : j \in {n \in Numbers : rc[n] > 0}})

\* Every count is the number of references there are: of the cache or, in the
\* cleanup, of what is left to release; of existing collections; of the result.
CountIsReferences ==
    \A i \in Numbers :
        rc[i] = Holders(i) + (IF result = i THEN 1 ELSE 0)
                + (CASE phase = "parse" -> IF i \in cache THEN 1 ELSE 0
                     [] phase = "cleanup" -> Occurrences(todo, i)
                     [] OTHER -> 0)

\* The activations on the C stack are a path of references through the document
\* that meets no entry twice, and the flags are exactly theirs: so the recursion,
\* which has no limit of its own, is never deeper than the document has entries,
\* and an error on the way out leaves no flag behind that would look like a cycle.
StackIsPath ==
    /\ inProgress = {frames[k].object : k \in DOMAIN frames}
    /\ Cardinality(inProgress) = Len(frames)
    /\ \A k \in 2..Len(frames) : frames[k].object \in RefersTo[frames[k - 1].object]
    /\ inProgress \cap cache = {}

\* The heap, the parser's tables and its stack between any two steps.
HeapOK == TypeOK /\ CountIsReferences /\ StackIsPath

\* The result and what it contains, directly or not.
Whole ==
    IF result = NULL THEN {}
    ELSE Reach([i \in Numbers |-> ToSet(Stored(i))], result, Numbers)

\* When the call returns, the objects that exist are those of the result, all
\* of them and no others; its tables and arrays are freed.
NothingLeaks ==
    Ended => /\ {i \in Numbers : rc[i] > 0} = Whole
             /\ ~tables /\ arrays = {}

\* The caller can tell: after a failure *error is a fresh error, unless there
\* was no memory for it, and *format is 0; after a success there is no error
\* and the format is set.  At most one error is created, so none is lost.
CallerCanTell ==
    /\ made <= 1
    /\ Ended => format = (IF result = NULL THEN "none" ELSE "binary")
    /\ Ended /\ wants =>
        IF result # NULL THEN error = "none"
        ELSE error = "read" \/ (refused /\ error = "none")

\* A call ends as it should, whichever of its steps fails.
EndsCleanly == NothingLeaks /\ CallerCanTell

\* A call returns, also for a document with cycles.
Returns == <>Ended
=============================================================================
