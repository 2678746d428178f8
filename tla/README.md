# CORT-FX in TLA+

CORT-FX (`cort-fx/src`) is a small C reimplementation of a part of
CoreFoundation: reference-counted objects with a run-time class table, scalars,
strings, containers, binary property lists, and on top of them the client side
of a control-packet protocol for a notification service. This directory models
the parts of it that keep state and can go wrong in ways a unit test hardly
reaches, checks the models with TLC on small instances, and proves the most
important properties with TLAPS for every size.

Contents: [1 inventory](#1-inventory), [2 modules](#2-modules-and-how-they-correspond-to-the-code),
[3 runs](#3-runs), [4 proofs](#4-proofs), [5 what is not modelled](#5-what-is-not-modelled),
[6 observations](#6-observations), [7 plan](#7-plan).

## 1. Inventory

| component | source | state | operations |
|---|---|---|---|
| object lifetime | `CFRuntime.c`, `FXCFInternal.h` | one atomic 64-bit info word per object (32-bit count, immortal, default-allocator, deallocating, deallocated flags); the allocator in the prefix of a block | `_CFRuntimeCreateInstance`, `CFRetain`, `CFRelease`, `CFEqual`, `CFHash`, `CFGetTypeID`, `CFGetRetainCount` |
| class table | `CFRuntime.c` | table of 1024 classes, next ID, once control, mutex | `__FXCFInitialize`, `_CFRuntimeRegisterClass`, lock-free lookups |
| allocators | `CFBase.c` | contexts with an info and its callbacks; the atomic default allocator | create, allocate, reallocate, deallocate, preferred size, get context, get/set default |
| scalars | `CFNumber.c`, `CFDate.c`, `CFData.c`, `CFError.c` | immutable values | create, get, equal, hash, convert |
| strings | `CFString.c` | UTF-16 units, an ASCII flag | create from bytes or units, `CFStringGetCString`, `CFStringGetBytes`, equal, hash |
| containers | `CFArray.c`, `CFDictionary.c` | buffer, count, capacity, mutable flag | create, copy, mutate, finalize |
| property lists | `CFPropertyList.c`, `CFBinaryPList.c` | a collector of unique objects (writer); an object cache and a visiting stack (parser) | create data, create with data |
| control packets | `FXCFControlPacket.c` | decoded packet and views into it; a growing text buffer | decode, validate, route, classify, outcome, transition; canonical JSON and one-line summaries of each |

Interactions. Everything allocates through `_CFRuntimeCreateInstance`, and so
retains the allocator it uses; containers retain their elements and release
them in finalizers that the last `CFRelease` calls; property lists build
containers; the control packets own one decoded property list and keep borrowed
pointers into it, and transitions own retained strings of their own.

What is hard, and what correctness means:

* **Lifetime.** Retain and release are compare-and-swap loops run by any
  thread, with a limit on the count and marks that stop resurrection. The count
  must be the number of references; an object must be finalized once, after its
  last reference, before its memory goes back to an allocator that is still
  there; a client that keeps the rules must never meet an abort, one that breaks
  them must meet it and never a second finalization.
* **Class table.** Initialisation races with use, registration with lock-free
  readers, IDs run out. IDs must be unique and permanent.
* **Containers.** A call is a sequence of retains, releases and writes, any
  release may start a cascade of finalizers, creations fail half way. At every
  step counts must match references, and each call must amount to one operation
  on a sequence or a map.
* **Notify client.** Answers are late, lost and reordered, errors mean different
  things for different operations. The cache must not go back, a change not be
  reported twice, a registration be discarded only if it is lost, and its binding be
  handed back then, once; of a binding that an answer displaces the caller is not told.
* **Property lists.** Cycles, sharing, truncated and contradictory input, and
  failures deep inside have to leave no object behind.
* **Control packets.** A response says by its shape what it is: eleven kinds are
  tried, and each leaves fields behind. A profile must not mix two kinds, the packet
  it points into must live as long as it does, and a failure must leave nothing.
* **Texts.** A text is put together in a buffer that grows, of values that are looked up
  once more, with sorted arrays of texts on every level. It says all of its value or is
  not given, and every array and text is freed, whichever allocation fails. What was
  accepted has a text.
* **Allocators.** Any callback of a context may be missing, and an allocator lives in a
  block of another. Infos, instances and blocks are given back once, in an order in which
  nothing that is still needed has gone.
* **Scalars and strings.** Boundaries of integers, doubles and UTF-8; two passes over a
  string that have to agree; sizes that wrap around.

`PROJECT.json` lists every hazard with its line and the properties that cover it.

## 2. Modules and how they correspond to the code

### Object lifetime: `CFRuntime`, `CFRuntimeMisuse`, `Ownership`

`CFRuntime` models both loops instruction by instruction: a thread loads the
word (`RetainLoad`), then at `retain_cas` either returns (immortal object),
swaps, reloads because the word has changed, or aborts. The last release swaps
the deallocating mark in (`ReleaseLastCAS`), then runs `Finalize`,
`MarkDeallocated` and `Free`, and releases the allocator that the prefix of the
block held. Creation takes a block, retains the allocator, and publishes.
`Exchange` and `GetDefault` are the default allocator.

The code does not know who holds references, so it cannot say whether a count is
right. The model does: `ref` maps every place that can hold a strong pointer to
the object it points to. The places are variables of clients, the prefix of
each heap block, the default allocator, and one local per thread for calls that
own a reference on the way. A heap block is not reused after `Free`, so that a
dangling pointer stays recognisable.

Clients own variables and pass references on (`Pass`), which happens outside the
runtime. In `CFRuntime` they release only what they hold and create with a NULL
allocator only while they own a reference to the default one. `CFRuntimeMisuse`
drops either rule. `Ownership` is what the runtime promises without counts, flags
or threads: an object lives exactly as long as somebody refers to it; `CFRuntime`
implements it (`ImplementsOwnership`).

### Allocators: `CFAllocator`

`CFRuntime` has the default allocator as threads exchange and borrow it.
`CFAllocator` has the rest of `CFBase.c`, as one thread uses it: `Create` retains the info
and the parent and keeps what the retain callback returned, `Allocate`, `Reallocate` and
`Deallocate` go through callbacks that may be missing, and the last `Release` is followed by
`Finalize` (the info) and `FreeInstance` (the block, and the reference to the parent).
The callbacks are the client's and are marked external; they draw on one heap that may
refuse. The client keeps the rules: it frees what it allocated with the same allocator,
which it still holds.

### Class table: `CFClassTable`

One step per load or store of the table, the next ID, the once control and the
mutex. `__FXCFNextDynamicTypeID++` is a load and a store. Readers take no lock.
Instances remember the class they were created with, as `CFGetTypeID` compares it.

### Containers: `CFContainers`, `Collections`

`todo` is the continuation of the running call, its next piece first: a release
of a last reference pushes the finalizer and the free of the object, a finalizer
pushes the releases of one slot and the rest of itself, and so on. Mutation is
single-threaded by the contract of the containers, so calls do not interleave,
but the state between any two pieces is a state in which finalizers run, and the
invariants hold there too. The client may use what it holds and what it finds in a
collection that it may use (`Usable`, the least such set). `Collections` is the promise: arrays are sequences,
dictionaries are maps up to `CFEqual` of the keys, a call is one operation, and
an object that nothing refers to may vanish.

### Notify: `NotifyTransition`, `NotifyClient`

`NotifyTransition` holds the pure rules: the status family of an error, the
outcome of a classified response (`NotifyOutcomes`), and the transition from the
cached registration to the next (`Transition`). A registration is reduced to what
the rules read: binding, last generation, first check pending. `NotifyClient`
drives the rules with what is outside of this repository: a daemon that registers,
checks, cancels, restarts and refuses, and client threads that share one table and
apply answers some time after the daemon gave them. `bound`, `last` and `first` are the
registration as the daemon has it. An update (the client suspends or resumes a registration)
may leave it as it is or start it over, with its binding, another one or none (`Renews`), as in
the fixtures' case `notify.transition.registration.update.resume_replaces_cached`. The answer
to an update has the daemon's binding, that to a check has it or omits it. With `Lossy` a call
may time out, and its request may reach the daemon later, except for the questions that change
nothing there. A thread that has timed out ignores the answer. The daemon and the threads are
marked external in `PROJECT.json`; they follow the packets in `fixtures/control`.

Three history variables say what the caller was told: `reported` the generations, `taken` how
often a binding came into the cache less how often it was handed back, `displaced` how often an
answer took it out of the cache by bringing a registration with another binding or none
(`Displaces`).

`NotifyOwnership` is the same client with the structures of the code and the retain counts
of the strings they point to. An outcome borrows its strings from a packet that it holds,
a cached registration and a transition retain theirs, and the binding that is handed back
is a reference of its own. What is one step `Apply` in `NotifyClient` is here a series of
calls: `OutcomeInit`, `TransitionInit`, `Adopt` (the client stores or drops the
registration), `OutcomeClear` and `TransitionClear`, the outcome being cleared as soon as
the transition is there, or last. `Source` says whether the strings of the new
registration are those of the packet or of the cached one. The module instantiates
`NotifyClient` with `cache` as the contents behind the pointers of `table`, and implements
it.

### Control packets: `ControlPacket`

A call of `_FXCFControlRequestInit`, `..RequestRouteInit`, `..ResponseInit`,
`..ResponseProfileInit` or `..NotifyOutcomeInit` runs through stages: `DecodeEnvelope`,
`ReadEnvelope`, then `Route`, or `Profile`, `Try` once for each kind of response, and
`Outcome`. A stage is a chain of lookups (`Require`, `Optional`, `Valid`, `Test`, in the
order of the code's `&&`), and it is the data of the chains that differs, so the rules for
what a chain leaves behind when it stops are written once: `Stored`, `FlagsAfter`,
`ErrorOf`. `view` is the union of the result structures. Any lookup may find no memory for
its key (`cut`); in a kind that is being tried this counts as a value that is not there.
`refs` counts the references to the packet. The profile that comes out is what
`NotifyTransition` takes up, reduced to what the transitions read.

`ControlTexts` adds what a caller does with a result: it copies the canonical JSON, the
summary, or the summary of an accepted packet. A text is characterised by what it looks up
once more in the packet (`found`) and by the strings it copies, which need UTF-8. Some summaries
are printed into buffers of a fixed size (`FXCFControlPacket.c:2747-2785`, `4172-4175`), in which
a long number is cut; this is left out.

### Canonical JSON: `CanonicalText`

`__FXCFControlPacketAppendValueJSON` and what it calls. The C stack is `todo`, a list of
calls still to be made: `Value` replaces a value by the calls for its pieces, `Entries`, `Texts`
and `Sort` build the sorted array of key texts that every dictionary holds while its values
are written, `AppendBytes` grows the buffer by doubling, and `FreeBlocks` frees a level. A failure drops all
but the frees. Strings are escaped, data is put as text if it is UTF-8 or else in base64,
dates get a fraction when they have one. A number is its class (finite, NaN or infinite), its
sign, and the digits that are printed if it is finite; `NumberText` is what `%lld` and `%.17g` make
of it. The text is read back by a parser of the module (`ReadJSON`), with the words `nan` and
`inf` or without: with them, `TextWhole` knows that the text says all of the value; without them,
whether it is JSON.

### Property lists: `BPlistObjects`, `BPlistWriter`, `BPlistParser`, `BPlistRoundTrip`, `BPlistBytes`, `BPlistSizes`

`BPlistObjects` has what the two calls share: the kinds of objects, and what can be said
of objects that contain others (`Closed`, `Acyclic`, `Reach`). It says it with closed sets
and not by following references: to be reachable is to be in every closed set that has the
start, and a set is acyclic when each of its parts has a member that contains no other of
that part.

`BPlistWriter` is `CFPropertyListCreateData`: the walk that numbers every object once
(`stack` has the activations of `__FXBplistCollectObject` on containers, whose objects
are the code's `collector.stack`), the unwinding of a failed walk, the encoding of one
object after the other, and the wrapping. The caller's objects are a graph that never
changes, chosen at the beginning, with any sharing and any cycle. What the writer must
write is `IsPropertyList` and `Shallow`, what the parser must read is `WellFormed`; both speak
of the objects or entries alone, and not of how they are walked.

`BPlistParser` is `CFPropertyListCreateWithData`: the checks of the trailer and the
offsets, the mutual recursion of `__FXBplistParseObjectAtIndex` with the two container
parsers (`frames` and `control`), the cache, the `inProgress` flags, and the cleanup. A
document is a table of entries with numbers as references, and need not come from the
writer. The counts of the created objects are kept step by step (`rc`), as the cache,
the containers and the result hold them.

Both keep track of the caller's `*error`, of the working memory and of allocations that
fail. `BPlistRoundTrip` runs one after the other: `ReadBack` hands the data that the writer returned to
a call of the parser, `Data` being what the parser sees of it. Its run checks the writer on every graph
and the parser on what was written, that of `BPlistParser` the parser on everything else.
`StackIsPath` says that the activations on the C stack are a path through the document
without a repetition, which bounds the recursion.

`BPlistBytes` has the encodings below the references: length markers and every kind of leaf
(booleans, integers and reals of all widths, dates, data, strings), and data that has
lost its end. An object is cut where the data ends, so `CutIsRefused` is about the bounds checks
of one object; in a whole list the offset table and the trailer follow the objects; their checks are
in `BPlistSizes`. `BPlistSizes` has the checks of the sizes that the trailer and the lists
state, in words that wrap around as the code's do, and the allocations between them: the
checks alone can be passed by a product that has wrapped, and it is the allocation of the
unwrapped size, on the same path, that cannot succeed.

### Scalars and strings: `CFScalars`, `CFString`

Pure functions, one action per call or per round of a loop, checked against a
definition of what they mean: the number that an object stands for, and the encoding
of a code point. `CFScalars` scales the code's widths down (integers of 4 bits, a
significand of 2) so that the same things happen as in the code: not every integer has
a double of its own, and the double next to the greatest integer is beyond it. The cast
of that double is undefined in C; `Casts` names what the builds do. Strings, data and errors
are there with their equality and hash. `CFString` uses the
code's own numbers, at the ends of all ranges that the code tells apart: both passes of the
decoder, both of the encoder, buffers of any size, and `CFStringGetBytes`, whose answer for a
part of a string must be the part of the answer for the whole (`PiecesJoin`).

### Instances and proof modules

`MC*` modules give constants values for TLC. `MCValues` puts six parts that do not
interact side by side in one run: a behaviour is one of `CFScalars`, `CFString`, `BPlistBytes`,
`BPlistSizes`, `CanonicalText` or `CFAllocator`, and the variables of the others keep their
first values. `CFRuntimeInv` holds the inductive invariants of the runtime; `CFRuntimeProofs`,
`CFClassTableProofs`, `CFContainersProofs`, `NotifyClientProofs`, `NotifyOwnershipProofs`,
`ControlPacketProofs`, `CFAllocatorProofs` and `BPlistProofs` (the parser, the writer, both, and
the sizes) hold the proofs.
An operator `Mut...` in front of a definition is a plausible mistake in the code
it models; putting it in the definition's place breaks the property that
`PROJECT.json` pairs it with, so each property is known to depend on the code.

## 3. Runs

| run | instance | shows |
|---|---|---|
| `lifetime` | 2 threads with 2 variables and 1, a heap of two custom allocators and an object, counts up to 3, fairness | every safety property of `CFRuntime`, the refinement, and that objects without references are freed |
| `misuse` | 2 threads with 2 variables each, clients without rules over readable memory | no resurrection, one finalization, misuse never returns |
| `borrowed_default` | creation with NULL while the default is replaced | **violated** (see 6) |
| `class_table` | 2 threads, 3 classes of which one is refused, 2 free entries, fairness | the properties of `CFClassTable`, with the table full; the lock is given back |
| `containers` | one array, one dictionary, two equal strings, which may contain each other and themselves; two creations, growth from one slot, fairness | counts, buffers and keys (`HeapOK`); the refinement of sequences and maps; everything unreferenced is freed |
| `notify_client` | 2 threads, 1 token, 2 bindings, 2 posts, one registration started over, losses, restarts | the concurrent properties of `NotifyClient`; every binding that was cached is cached still, handed back or displaced |
| `notify_sequential` | `NotifyOwnership` with 1 thread, 2 tokens (one without a binding), 2 bindings, 5 string objects, 2 posts, one registration started over, no loss | every change is reported, cache and daemon agree; each string is held by exactly what points to it; the refinement of `NotifyClient` |
| `control_packet` | packets of every kind, whole and with any one key missing or of another type or with a string that has no UTF-8, and 256 mixtures of the keys of the notify kinds; all five calls, after calls that ended in any way, and the texts of what they give | who holds the packet; the first kind that fits, its fields and flags; errors; what is accepted has its texts |
| `plist_round_trip` | every graph of three objects of any kind with up to two elements; dictionaries of two pairs over two, with equal strings; a stack of 2 containers, fairness | exactly the property lists are written, references agree, errors and memory; the walk ends; what is read is what was written |
| `plist_parser` | every document of three entries with up to two references, in range or one beyond; dictionaries of two pairs over equal and different strings; fairness | exactly the well-formed documents are parsed; counts, the stack, errors and memory; parsing ends |
| `values` | six parts. *Strings*: up to four bytes or three units, at all boundaries, and buffers of 0, 1, 3, 4, 5 and 12 bytes. *Scalars*: all pairs of numbers, dates, strings, data and errors. *Bytes*: counts, integers, reals and strings around every limit, in bytes of 4 values, cut anywhere. *Sizes*: a word of 128 values, widths 1, 2 and 4, memory of 53. *Texts*: every kind of value, two levels, escapes, numbers that are finite and that are not, base64, dates, any allocation refused, 43 bytes at most. *Allocators*: two custom ones over one heap of three blocks, contexts that lack each callback once | exactly the texts are decoded and encoded, in the room there is; equality, hash and exact conversion agree; bytes are read as written, cut data is refused; nothing is read outside; a text is whole or refused, and is JSON unless a number is not finite; infos, instances and blocks are given back once |
| `dates` | all pairs of dates | **violated** (see 6) |

Why the bounds are enough to be interesting. Two threads interleave at every
load and swap, and a third would repeat what two can do to one object (the proofs
cover any number). A chain of two custom allocators is the shortest that makes a
release free an allocator whose own release frees another. Counts up to 3 reach
the overflow limit with references that exist. Two entries in the class table are
filled by two registrations, and the third finds it full. Two collections and
lists of two elements reach nesting, cycles, equal keys, replacement of a value by
itself, a failing second element, and growth. Two posts make a first change, a
newer change and a stale answer, or in the sequential run two changes after the first check.
One registration that starts over, with two bindings there are, replaces a cached binding, drops
it, or gives one to a registration without; a check may then bring the new one before the answer
to the update comes. Five strings are as many as a packet
and two cached registrations have, and a transition shares theirs, so that no answer is kept
back for want of a string. In the run of sizes, a word of 128 with a memory of 53 has
products that wrap around to values that pass the checks, which is what 2^64 and the
memory of a machine have. Texts of 43 bytes make the buffer grow several times from the first
capacity of 4, and the longest ones refused.

Bounds by name: `RetainMax` (the code's `UINT32_MAX`), `Heap`, `MaxCount`,
`MaxNew`, `MaxHeld` (what the client does with collections), `FirstCapacity`
(4 in the code), `TableSize` (1024), `MaxGeneration` (posts), `MaxRenewals`
(registrations started over). They bound the
clients, not the code, except `RetainMax`, `FirstCapacity` and `TableSize`, which
are parameters of it. `MaxDepth` (64), `FirstRoom` (16), `ByteBase` (256) and
`InlineLimit` (15) are parameters of the property list code, `IntBits`, `SmallBits`,
`Precision` of the numbers (64, 32, 53). `FirstSize` (256) and `SizeMax` (`SIZE_MAX`) are
those of the text buffer, `Word` (2^64), `Widths`, `PointerSize`, `UnitSize`, `HeaderSize`
and `TrailerSize` those of the size checks; `MemoryMax`, `Lengths` and `ListHeaders` bound
what is tried with them. `Str` bounds the string objects there are at a time; `Slot`,
`Block`, `Info`, `MaxRefs` the allocators, blocks, infos and references of the client of
`CFAllocator`.

The type invariants of `CFRuntime`, `NotifyClient` and `CFClassTable` are proved and no
run repeats them (that of the class table is a part of `TableOK`).

Deadlock is checked in `class_table` and `control_packet`, where a client can always make
another call. It is switched off
where a finite instance really stops: `lifetime`, `misuse` and `borrowed_default` end in
an abort of the process (a count is exhausted, a client misbehaves); the containers run
out of objects, or abort; tokens and posts of the notify client run out; a call of the
property list, number and string models returns. That a runtime call cannot get stuck
short of an abort is part of `FreedEventually` and `UnreferencedFreed`.

Fairness. `FairSpec` of the runtime and of the class table assume weak fairness of
each thread's steps *inside* the runtime: the scheduler runs every thread, and no
code of the runtime blocks but on the mutex and the once control. Clients need
never make another call. A compare-and-swap loop is only lock-free: with weak
fairness a thread may be overtaken, but each failed swap means that another thread
succeeded, and clients do not retain and release for ever in the instance.
The containers and the two property list calls assume weak fairness of the pieces of a
running call, which has nothing to wait for.

## 4. Proofs

Everything below is proved for all values of the constants that satisfy the named
assumptions, with no limit on threads, objects, tokens or counts.

**Runtime.** Assumptions: `ConstantsDistinct`, `ConstantsTyped` and `HolderFinite`
(a count can only be compared with a finite set of places). The argument has three
layers. `ShapeInv` says which thread may be where: one thread at most destroys an
object, a block under construction belongs to one thread, a marked object stays
marked. It is inductive under *every* client, also one that breaks the rules, and
gives `AtMostOneFinalize`, `Resurrection`, both together as `Final`, and `DeadCalls`. `LifetimeInv` adds, for
clients that keep the rules, that the count is the number of references
(`CountIsReferences`), and that every call works on an object it is entitled to.
`CountIsReferences` is not inductive alone: that a swap preserves it needs to know
that the local copy of the word is compared with the word itself, that the place
given up holds the object and the place taken was empty, and that the last
reference was the only one when the mark is set. `CountCorrect`, `NoDangling`,
`NoFreedUse`, `NoAlarm` and `OneFinalize` follow. `Refinement` maps each step to a
step of `Ownership` or a stutter.

**Class table.** Assumptions: `TableAssumption`, `ClassAssumption`. The invariant
has a part for the once control (nobody passes before it is done), the mutex, the
arguments of calls, the table below and above the next ID, and the IDs issued. `Unique`,
`Resolve` and `Accept` are the parts of `TableCorrect`; `Permanent` is the action property.

**Containers.** Assumptions: `ObjectsDistinct`, `BoundsPositive`. `HeapSound` (`HeapOK`): between
any two pieces of a call, at any depth of nested finalizers, the count of every live object is the
number of references to it, nothing that is referred to is dead, every slot that a collection owns
is in its buffer, and the keys of a dictionary differ. `HeapOK` is not inductive, and what
`IInv` adds is what the running call still has to do:
  * `StackOK` and `FramesOK` describe `todo`. A mutator is alone, a creator comes last, behind
    the finalizer of a collection its memory is freed and only once, at most one piece writes a
    slot after a release, and what a piece is about to touch is still there. Without them a
    `free` could be for a collection that is freed already.
  * `Owned` says which slots still count as references. During a finalizer, a
    shift or a replacement these are not all the slots that the buffer has, and the
    difference is exactly what the frames tell.
  * `Kept` is what the client reaches through owned slots. The pieces that write after a
    release write into a collection of `Kept`, so the release has not freed it; that a cascade of
    frees stays out of `Kept` follows from the counts, since everything in it has a reference
    from outside of the cascade.

The counting itself (`Occ` and its lemmas: in how many places of a sequence something is, and what
an append, a removal or a replacement makes of that number) is the first part of the module. `CollectionsImplemented` (`ImplementsCollections`): what
is seen of a collection are the slots it owns, and each piece changes those of at most one
collection, by one append, replacement or removal, which is a step of `Collections`, or by nothing,
which is a stutter. It needs the invariant, for the same reasons, and `MutableBorn`: a collection
that is mutable was created so.

**Notify client.** Assumptions: `NullAssumption`, `NullIsNoRegistration`,
`ClientAssumption` (tokens are finite). `TransitionEffect` reduces the rules to four
things a transition does: store, merge, keep, discard. The inductive invariant then
says what is still true of an answer when it is applied, however late: its first check is over
if it answers a check, and a token it calls lost is lost for good (`ReplyOK`); and that nothing
reported is newer than the cache (`ReportOK`). It says nothing of the binding in an answer, which
may be any. `Balanced` (`BindingsBalanced`) goes through the four things instead: by
`BindingMoves`, what one of them adds to `taken` for a binding is what it adds to the number of
cached registrations that have the binding and to `displaced`. Proved: `TypeCorrect`, `Balanced`,
`ReportsOnlyAdvance`, `NeverGoesBack`, `ValidityAgrees`, `OnlyLoss`. Under `Sequential` (one thread
whose calls are all answered), where the answer on its way is all in which the cache can differ
from the daemon's registration, also `StaysInStep` (between calls the cache is what the daemon
has) and `ChangesReported` (no change the daemon tells of is lost in the merge).

**Strings of the notify client.** Assumptions: `TokensAssumption` (tokens are finite, and
each has a binding or none), `NullIsNothing`. `Owned` says that the retain count of every
string is the number of its holders. Alone this is not inductive. `Adopt` may drop the
strings of the old registration only because the table held them, `OutcomeClear` those of the
packet because the outcome is still there (`StageOK`), and the strings that a transition
takes from an outcome are live because they are the packet's (`OutcomeOK`). A
transition never has one string twice (`TransitionOK`): it hands back a binding only when
it discards the registration. `Refinement` needs one fact more, `AppliedOK`: while
an answer is being applied, the outcome is one that the answer allows, and the transition means
what the rules of `NotifyTransition` give for it. Then `Adopt` is the step `Apply` of
`NotifyClient`, and clearing, in any order, is a stutter. `ClientAssumed` shows that the assumptions
of `NotifyClient` hold for the constants it is instantiated with. So
`NotifyClientProofs` is instantiated too (`Proved`), the two instances of the client are shown
to have the same steps (`SameClient`), and its theorems on one thread whose calls are all answered hold
of the structures: `StaysInStep` (`CacheInStep`) and `ChangesReported` (`ChangeReported`).

**Control packets.** `Owned` (`PacketOwned`), without any assumption: the result holds the packet from
`ReadEnvelope` until it is cleared, its fields point into the packet only meanwhile, and a
call that fails leaves nothing. The argument is that no chain of lookups stores into
`packet`, whatever the data of the chain is, and one lemma for each stage.

`Agree` (`FieldsAgree`) and `Tells` (`ErrorTellsFailure`) assume `PayloadsDecoded` (the result and
the parameters in a packet have one type each, and a dictionary finitely many keys, which are
strings, as `CFPropertyListCreateWithData` makes them) and `NullIsNoValue`. Here the data of the chains matters. Each is evaluated once, in a lemma
of its own: what all its lookups together ask, where they store, which flags they set, what errors
they have (`CancelChain`, `CheckChain`, ...). `Tidy` chains have no two lookups for one field, so a
chain that is passed has stored each value (`TidyStored`), and a flag that is up after any chain,
passed or not, stands for a value (`FlagsStored`). `ProbeFits` is the heart: with memory, a kind is
found in exactly the objects that fit it. `JInv` then carries from one stage to the next that
the packet is one the call should take (`EnvelopeKept`), that no kind tried so far fits unless
memory has run out (`Trying`), and where the profile has what the outcome starts from (`Found`).

`TextsGiven` (`TextsReadable`) has the same assumptions. The texts of a result look values up again
that the checks of the call have seen, partly under other names: the health of a profile is the
result itself, though a lookup has stored another value there before. `Shown` says, for each call
and kind, which value of the packet each field is that a text starts from, and is kept by every
stage (`ProfileMade` for the kinds). A text then is `Sound`: what it looks up has its type,
because `Fits` says so, and every string it copies is among the `Values` of the packet
(`Deeper`), so that the only excuses are a string without UTF-8 there, and memory.

**Parser.** Assumptions: `DocumentsOK` (a document has entries, and each has finitely many
references; where they lead is open), `NullIsNoNumber`. `HeapCorrect` (`HeapOK`) holds for documents
of any size and shape. That the counts are right when a collection is made rests on where its
elements come from, so `IInv` follows each reference from the call that
returns it to the collection that stores it:
  * `StackOK`: every activation has what it has parsed so far in the cache, has asked for what the
    activation above it is about, is not itself in the cache, and is alone with its entry. What is
    asked for is a fresh entry, since a call for one that is cached or in progress
    does not descend; so the stack stays a path without repetition.
  * `CountedOK`: the cache holds what exists, and what exists stores only what is in the
    cache; in the cleanup, what is left to release accounts for every count that the result and the
    existing collections leave over. Releasing the last reference to a
    collection moves its contents from the one side to the other (`CountedRelease`).

`Holders` counts the places that store an object in all collections that exist, one set of places
for each collection (`HeldAdd` and `HeldMore` are how it changes); a dictionary with equal keys
stores fewer of its references than it was given (`PickedIs`, `StoredIs`). `CallerTold`
(`CallerCanTell`) is not immediate because a failure does not
end the recursion at once: the value of a pair is parsed although its key has failed, and may well be
parsed with success. `TellInv` says that the call is `Doomed` from the first error on: a NULL is being
returned, or some activation holds a failed key. Doom passes from frame to frame and cannot be undone,
and only what is not doomed ends with a result.

`Parses` (`ParsesWellFormed`) has two directions. Nothing else is parsed: `BuiltInv` says that the
cache is `Layered`, closed under references and without a cycle, and holds only entries that
make sense. It stays so because an entry is added after all that it refers to (`LayeredAdd`);
the result is in it, so the cache itself is the set that `WellFormed` asks for. And all of
these are parsed: take any set that shows the document to be well-formed; as long as no
allocation fails, everything that is called, returned or on the stack is in that set
(`WellInv`). The stack is a path in it, so an entry in progress that were called again would close
a cycle there (`NoCycleHere`), and no activation fails (`NoFailureHere`).
`Ends` (`EndsCleanly`) adds that what exists at the end is the result and what it contains,
`Whole` (`BuiltEnds`). That nothing else is left needs the absence of cycles once more:
of what existed and were not in `Whole`, one would be stored in no other such object
(`Sourced`, the end of `Layered` that looks the other way), so nothing would account for its
count. And what the result contains exists, since a holder counts.

**Writer.** Assumptions: `GraphsOK`, `NodesOK` (the objects are finitely many, no more than 8
bytes can number), `RootOK`, `BoundsOK`, `NullIsNoData`. The depth limit, the collector's first size and
the base of a byte are open. `Writes` (`WritesPropertyLists`) rests on four invariants, together
`WriterInv`:
  * `WalkInv`: of what has a number, what is on no activation is done with. That part is closed,
    has no cycle and can be written; the activations are a path from the root that meets
    no object twice, and what each has passed is done with, up to the object that the
    next one is about. When the walk ends there are no activations, and all that has a number is
    done with (`WalkEnded`): it is `Reachable`, and is a property list.
  * `EncodeInv`: what is encoded names, by numbers below the count, what the object contains. A
    number survives being cut to `refSize` bytes because each object has one number only
    (`NodesCounted`), so that the width chosen for the greatest of them is wide
    enough (`ReferenceFits`).
  * `RefuseInv`: if the walk fails and memory has not, the objects are no property list, or
    too deep. A cycle through the stack, a bad key, a foreign object or a path
    of `MaxDepth` containers can each be read off the stack (`CycleIsNone`, `BadKeyIsNone`,
    `UnsupportedIsNone`).
  * `ErrorInv`: from a failure on, an error has been made, memory was short for it, or the
    innermost activation is a dictionary's and will report it. This gives `WriterEnding`
    (`WriterEndsCleanly`).

**Writing and reading.** Assumption besides those two: `KeysDiffer`, no dictionary has two
keys with the same characters, which `CFDictionary` sees to as it accepts no callbacks but those that
compare them. `RoundTripsAgain` (`RoundTrips`): while the parser runs, `doc` is the data of what was written
(`RoundInv`). That data is a document (`DataIs`) whose entries stand for the numbered objects; what one refers to
stands for what its object contains (`CopyRefers`), so that the writer's absence of cycles becomes the
parser's (`CopyWellFormed`), and `WellInv` gives a result unless memory runs out. The
result is entry 0, the root; each dictionary keeps all its pairs, since no two keys are the
same (`CopyStored`), and so has them in the order they were written in.

**Sizes of property lists.** Assumption: `SizesOK`, whose essential part is that twice the
memory and the length of the data are less than what a word counts. `Inside`
(`ReadsInside`): the offset table, and each list whose checks and allocations have passed, lies
inside the data. The key lemma is `SumExact`: where memory for the elements has been had, the product and
the sum of the check are exact, since a product that wraps around comes from a count that is too
large for the allocation on the same path.

**Allocators.** Assumption: `ContextsOK` (finitely many allocators, none of them a static one;
contexts have the fields they have in C, and what is retained is released). `Balanced`
(`AllocatorsBalanced`) and `CountsExact`. `IInv` has three parts besides the types. `CountsOK`: an
allocator's count is the client's references, the default and the allocators made in it, with one more
for the one that is being released, which has no others; so a parent cannot die before what is
allocated in it. `InfosOK`: an allocator that uses an info without a reference has it from a client
who keeps one. `BlocksOK`: whoever frees a block is the allocator it came from, which is alive since
the client has not let go of it, so that the block is gone afterwards or came from an
allocator that frees nothing; and no two allocators live in the same block. `ReleaseCounts` is the
lemma that every release rests on: either other references remain, or this one was the last
and the deallocation begins with no reference left.

A run names at most a few properties; each is a conjunction of named parts, and the
proofs follow the parts. `HeapOK` (containers, with `BuffersOwned`; parser, with
`StackIsPath`), `TableOK`, `DeathIsFinal`, `EndsCleanly` (with `NothingLeaks` and
`CallerCanTell`), `WritesPropertyLists`, `RoundTrips`, `FieldsAgree` (with `KindFits`),
`EqualityIsByValue` (with `ExactMeansSameValue`), `ConvertsTexts`, `AllocatorsBalanced` and
`PacketOwned` are such; of the runtime, `NoDanglingReference` and
`FinalizedOnce` are proved (`NoDangling`, `OneFinalize`) and follow from the refinement.

Only model-checked: liveness (`FreedEventually`, `LockReleased`,
`UnreferencedFreed`, `Returns`, `WriterReturns`), which is out of the prover's reach; what is about data
that recursive functions of the models compute, which takes an induction that the prover
does not have (`TextWhole`, `ConvertsTexts`); and what rests on powers, of which the prover
does not even know that 2^(n+1) is twice 2^n: the bytes of an integer (`ReadsWhole`) and the widths of
numbers and significands (`EqualityIsByValue`).

## 5. What is not modelled

* In the packets: NULL output arguments, which are refused at once; the wording of errors;
  in the texts, the words between the fields, the digits of numbers, that a summary printed
  into a buffer of fixed size may be cut, and the texts of transitions (`FXCFControlPacket.c:3702-3856`), which read
  fields that the transition holds itself.
* The probes of `cort-mx`, comparison tools, fixtures: programs and scripts that print or
  compare, without state of their own. A C program there only calls the system's
  CoreFoundation.
* Reuse of freed memory in the runtime: a block is used once. A reuse would need a client that uses
  a pointer after its reference is gone, which the models already show as dangling.
* Finalizers of *registered* classes and callbacks of custom allocators that call
  back into the runtime or into a collection that is being changed. `CFArrayRemoveValueAtIndex`
  (`CFArray.c:248`) releases the element before the gap is closed, so such a finalizer
  would meet it in the array; the built-in classes have none that looks.
* The size of the C stack. The parser's recursion is bounded by the number of entries of the
  document (`StackIsPath`), and by nothing else.
* `size_t` overflow checks elsewhere, which have the same effect as an allocation that fails.
* Arguments that make a call abort or return NULL at once (index out of range, NULL
  value, foreign callbacks): no state changes.
* Dictionary keys are strings, as the property lists and packets use them.

## 6. Observations

* `borrowed_default`: `_CFRuntimeCreateInstance(NULL, ...)` borrows the default
  allocator. If another thread replaces it at that moment, and the default held the
  last reference, the creation asks a freed allocator for memory. The contract says
  that retain is always thread-safe and that `CFAllocatorGetDefault` returns a valid
  allocator. A client that keeps a reference of its own to each default is safe; that
  is what the rule-keeping clients of `CFRuntime` do, and the proofs need it.
* With several threads, a later *unchanged* answer that is applied before an earlier
  *changed* one hides the change (its generation is cached first). `ChangeReported` is
  therefore stated for one thread.
* A `registration_update` that is applied late overwrites what a later check has
  cached, and revives a registration that was discarded meanwhile; `NeverBack` speaks
  of the other operations.
* A store or an update replaces what is cached by the registration in the answer
  (`FXCFControlPacket.c:3602-3615`), and a check that brings a binding replaces the one that is
  cached (line 3627). The binding that leaves the cache in this way is not handed back, unlike
  that of a registration that is discarded: the fixtures' case
  `notify.transition.registration.update.resume_replaces_cached` has a cached binding, an answer
  without one, and no released binding. A caller that has to give up what belongs to a binding
  must look for this itself. `BindingsBalanced` counts such bindings as displaced.
* `_FXCFControlNotifyTransitionInit` does not look at the value of `canceled`: an
  answer `canceled = false` discards too.
* `dates`: `__CFDateEqual` compares with `==` and `__CFDateHash` hashes the bits, so the
  equal dates 0.0 and -0.0 hash differently, against the contract's "equal dates compare
  equal and hash coherently". (`__CFNumberHash` hashes the integer 0 for both.)
* `__CFDoubleToSInt64Exact` and `CFNumberGetValue` cast doubles that may be 2^63, which C
  leaves undefined. On amd64, the platform of the contract, the cast gives the least
  integer and the comparison after it answers correctly. With a cast that saturates
  (`Casts = {"saturated"}`, AArch64) `ExactMeansSameValue`, a part of `EqualityIsByValue`, fails: the greatest integer is
  called exact as a double, and 2^63 equals it.
* When memory runs out while a kind of response is tried, the next kinds are tried all the
  same, so a check may come out as a mere registration, or as a generic object, without an
  error. `KindFits` (in `FieldsAgree`) therefore promises the first kind only when no lookup was refused;
  the weaker kind still fits.
* An answer whose registration has `local_transport_binding_id` of another type than a
  string has a profile, since the classification does not look at that key, and no outcome.
* The writer's limit of 64 containers counts along the path of the walk: a container
  nested too deep on one path is accepted if the walk has met it on a shorter path first.
  `AcceptsPropertyLists` promises acceptance for lists that are shallow on all paths. The
  parser has no limit but the number of entries (`StackIsPath`).
* The parser caches objects, not failures, and parses the value of a pair although its
  key has failed; an entry that fails may be parsed several times before the call fails.
* The size checks of the parser (`CFBinaryPList.c:932` and those of the lists) multiply
  without looking for a wrap-around. They are right because the allocation that goes with
  them needs more memory than there is whenever a product has wrapped (`Inside`).
* Texts go through C strings, so a string with a NUL in it gives its text up to the NUL,
  and two keys that differ only after one get the same text. `TextWhole` is stated up to that.
* The parser takes a real as it is (`CFBinaryPList.c:699-718`), so a packet may have a NaN or an
  infinite one, which `%.17g` prints as `nan`, `inf` or with a sign (`FXCFControlPacket.c:550`).
  A canonical text with such a word in it is not JSON. `TextWhole` says so: it is JSON exactly if
  every number in the value is finite, and says all of the value in any case.
* A date may be a NaN or infinite too. Its cast to `time_t` in
  `__FXCFControlPacketAppendISODate` is undefined in C; on amd64 it gives a year that
  `gmtime_r` refuses, so there is no text.
* A canonical JSON text does not always tell its value: `{"$data_utf8":...}` and
  `{"$date":...}` are also dictionaries with that key, a NULL value is the string `"nil"`,
  an integer and a double with the same digits have the same text. `Meaning` says what
  remains of a value.
* `__FXCFControlPacketAppendISODate` rounds the fraction to thousandths without a carry, so a
  fraction of 0.9995 or more is printed as `.1000Z`; `modf` rounds toward zero, so a time
  before 1970 with a fraction is printed with the second after it and the fraction's distance from it.
  `Datable` leaves both out of what `TextWhole` promises.
* A list of names is classified by making the summary texts it would print, so it is refused
  as an invalid packet when a name in it has no UTF-8. Other packets with such a
  string are accepted and have no text; `TextsReadable` makes that exception and no other.
* `CFStringCreateWithBytes` in ASCII takes bytes above 127 as they are, as Latin-1.

## 7. Plan

What is left, in this order.

1. `CFAllocator` with several threads on top of the counts of `CFRuntime`.
2. Finalizers of registered classes that call back, as an extension of `CFContainers`, with
   a property for `CFArray.c:248`.
3. The texts of transitions in `ControlTexts`.
