----------------------------- MODULE CFAllocator -----------------------------
(***************************************************************************)
(* CFBase.c: allocators as a client of one thread uses them.  A context    *)
(* holds an info, the callbacks that retain and release it, and the        *)
(* callbacks that allocate; any of them may be missing.  An allocator made *)
(* from a context lives in a block of another allocator.                   *)
(*                                                                         *)
(* The callbacks are the client's (external); like the static allocators'  *)
(* they draw on one heap, which may refuse.                                *)
(***************************************************************************)
EXTENDS Integers, FiniteSets

CONSTANTS
    Slot,      \* the allocators CFAllocatorCreate can make
    Block,     \* the blocks of the heap
    Info,      \* what a context's info can point to
    Contexts,  \* the contexts CFAllocatorCreate is tried with
    Sizes,     \* the sizes that are asked for
    MaxRefs,   \* bound: references the client takes to one allocator
    NULL

Static == {"system", "malloc", "null"}

\* What retain does with an info: it returns it, or nothing, or is missing.
ContextType ==
    [info : Info \cup {NULL}, retain : {"same", "nothing", "none"}, release : BOOLEAN,
     allocate : BOOLEAN, reallocate : BOOLEAN, deallocate : BOOLEAN,
     preferred : {"smaller", "greater", "none"}]

\* Retained infos are released, and nobody holds a reference to no info.
ContextsOK ==
    /\ Contexts \subseteq ContextType /\ Sizes \subseteq Int /\ MaxRefs \in Nat
    /\ \A c \in Contexts : c.info # NULL /\ c.retain # "none" => c.release
    /\ NULL \notin Slot \cup Block \cup Info \cup Static
    /\ Slot \cap Static = {} /\ IsFiniteSet(Slot)

VARIABLES
    made,     \* [Slot -> allocator]: parent, context and retain count
    heap,     \* [Block -> what the heap knows of it]
    infos,    \* [Info -> references there are]
    default,  \* __FXCFDefaultAllocator
    strong,   \* [Slot -> references the client holds]
    mine,     \* [Info -> references the client holds]
    held,     \* [Block -> what the client believes it has]
    dying     \* the allocator that is being deallocated, and how far

vars == <<made, heap, infos, default, strong, mine, held, dying>>

None == [parent |-> NULL]
Gone == [size |-> 0]
NotHeld == [want |-> 0]
Nobody == [slot |-> NULL, stage |-> "none"]

Live(s) == made[s] # None
Free == {b \in Block : heap[b] = Gone}

StaticContext(a) ==
    [info |-> NULL, retain |-> "none", release |-> FALSE, allocate |-> TRUE,
     reallocate |-> TRUE, deallocate |-> a # "null", preferred |-> "none"]
Context(a) == IF a \in Static THEN StaticContext(a) ELSE made[a].context

\* __FXCFAllocatorCast.
Cast(a) == IF a # NULL THEN a ELSE IF default = NULL THEN "system" ELSE default

Init ==
    /\ made = [s \in Slot |-> None]
    /\ heap = [b \in Block |-> Gone]
    /\ infos = [i \in Info |-> 1] /\ mine = [i \in Info |-> 1]
    /\ default = NULL
    /\ strong = [s \in Slot |-> 0]
    /\ held = [b \in Block |-> NotHeld]
    /\ dying = Nobody

-----------------------------------------------------------------------------
(* Retain counts of allocators; the static ones are immortal.              *)

Retained(all, a) == IF a \in Slot THEN [all EXCEPT ![a].count = @ + 1] ELSE all

\* The last release starts the deallocation, which Finalize and FreeInstance do.
ReleaseFrom(all, a) ==
    IF a \notin Slot THEN made' = all /\ dying' = Nobody
    ELSE IF all[a].count > 1
    THEN made' = [all EXCEPT ![a].count = @ - 1] /\ dying' = Nobody
    ELSE made' = all /\ dying' = [slot |-> a, stage |-> "finalize"]

-----------------------------------------------------------------------------
(* Blocks.                                                                 *)

Idle == dying = Nobody
Usable == {"system", "malloc", "null"} \cup {s \in Slot : strong[s] > 0 \/ default = s}

\* CFAllocatorAllocate finds a callback that has memory to give.
CanAllocate(a, n) == Context(a).allocate /\ n > 0 /\ a # "null"
NewBlock(a, n) == [size |-> n, of |-> a, stays |-> ~Context(a).deallocate]

\* CFAllocatorGetPreferredSizeForSize: the callback's answer is never too small.
PreferredSize(a, n) ==
    LET answer == IF Context(a).preferred = "smaller" THEN n - 1 ELSE n + 1 IN
    IF n <= 0 THEN 0
    ELSE IF Context(a).preferred = "none" \/ answer < n THEN n ELSE answer

\* CFAllocatorAllocate of the size itself or of the size that is preferred; also
\* what CFAllocatorReallocate does without a block.
Allocate(a, n) ==
    /\ Idle
    /\ LET self == Cast(a) IN
        \E size \in {n, PreferredSize(self, n)}, b \in Free :
            /\ CanAllocate(self, size)
            /\ heap' = [heap EXCEPT ![b] = NewBlock(self, size)]
            /\ held' = [held EXCEPT ![b] = [want |-> n, of |-> self]]
    /\ UNCHANGED <<made, infos, default, strong, mine, dying>>

Dropped(all, b) == [all EXCEPT ![b] = Gone]

\* CFAllocatorDeallocate: without a callback the memory stays.
Deallocate(a, b) ==
    /\ Idle /\ held[b] # NotHeld /\ held[b].of = Cast(a)
    /\ heap' = IF Context(Cast(a)).deallocate THEN Dropped(heap, b) ELSE heap
    /\ held' = [held EXCEPT ![b] = NotHeld]
    /\ UNCHANGED <<made, infos, default, strong, mine, dying>>

\* CFAllocatorReallocate of a block.  A size of none frees it; then the result
\* is NULL as it is after a failure, where the block stays.
Reallocate(a, b, n) ==
    \/ n <= 0 /\ Deallocate(a, b)
    \/ /\ Idle /\ held[b] # NotHeld /\ held[b].of = Cast(a) /\ n > 0
       /\ Context(Cast(a)).reallocate /\ Cast(a) # "null"
       /\ \E c \in Free \cup {b} :
            /\ heap' = [Dropped(heap, b) EXCEPT ![c] = NewBlock(Cast(a), n)]
            /\ held' = [held EXCEPT ![b] = NotHeld, ![c] = [want |-> n, of |-> Cast(a)]]
       /\ UNCHANGED <<made, infos, default, strong, mine, dying>>

-----------------------------------------------------------------------------
(* Allocators.                                                             *)

\* The client has the info, or has the context from CFAllocatorGetContext; for a
\* context that only releases it gives a reference away.
MayUse(c) ==
    IF c.info # NULL /\ mine[c.info] = 0
    THEN c.retain # "none" /\ \E s \in Usable \cap Slot : Context(s) = c
    ELSE TRUE
Given(c) == c.info # NULL /\ c.retain = "none" /\ c.release

\* An allocator uses the info without a reference; the client keeps its own.
Lent(i) == \E s \in Slot : /\ Live(s) /\ Context(s).info = i
                           /\ Context(s).retain = "none" /\ ~Context(s).release

\* The info an allocator keeps is the one retain returns.
\* Mutant: it keeps the one it was given.
MutKept(c) == c
Kept(c) == IF c.retain = "nothing" THEN [c EXCEPT !.info = NULL] ELSE c

\* CFAllocatorCreate.  The instance comes first (its prefix retains the
\* parent), then the info is retained.
Create(a, c, s) ==
    /\ Idle /\ ~Live(s) /\ MayUse(c) /\ (Given(c) => ~Lent(c.info))
    /\ Cast(a) # "null" /\ CanAllocate(Cast(a), 1)
    /\ \E b \in Free :
        /\ heap' = [heap EXCEPT ![b] = NewBlock(Cast(a), 1)]
        /\ made' = [Retained(made, Cast(a)) EXCEPT ![s] =
                [parent |-> Cast(a), context |-> Kept(c), block |-> b, count |-> 1]]
    /\ infos' = IF c.info # NULL /\ c.retain = "same"
                THEN [infos EXCEPT ![c.info] = @ + 1] ELSE infos
    /\ mine' = IF Given(c) THEN [mine EXCEPT ![c.info] = @ - 1] ELSE mine
    /\ strong' = [strong EXCEPT ![s] = 1]
    /\ UNCHANGED <<default, held, dying>>

\* The client keeps an allocator for as long as it has blocks from it.
Needed(s) == \E b \in Block : held[b] # NotHeld /\ held[b].of = s

Retain(s) ==
    /\ Idle /\ strong[s] \in 1..(MaxRefs - 1)
    /\ made' = Retained(made, s) /\ strong' = [strong EXCEPT ![s] = @ + 1]
    /\ UNCHANGED <<heap, infos, default, mine, held, dying>>

Release(s) ==
    /\ Idle /\ strong[s] > 0 /\ (strong[s] = 1 => ~Needed(s))
    /\ strong' = [strong EXCEPT ![s] = @ - 1]
    /\ ReleaseFrom(made, s)
    /\ UNCHANGED <<heap, infos, default, mine, held>>

\* CFAllocatorSetDefault: the new default is retained before the former one is
\* released.  NULL sets the system's.
SetDefault(a) ==
    /\ Idle /\ (default \in Slot => strong[default] > 0 \/ ~Needed(default))
    /\ LET new == IF a = NULL THEN "system" ELSE a IN
        /\ default' = new
        /\ ReleaseFrom(Retained(made, new), default)
    /\ UNCHANGED <<heap, infos, strong, mine, held>>

\* __CFAllocatorFinalize.
Finalize ==
    /\ dying.stage = "finalize"
    /\ LET c == Context(dying.slot) IN
        infos' = IF c.release /\ c.info # NULL THEN [infos EXCEPT ![c.info] = @ - 1] ELSE infos
    /\ dying' = [dying EXCEPT !.stage = "free"]
    /\ UNCHANGED <<made, heap, default, strong, mine, held>>

\* CFRelease goes on: the instance is freed by the parent, which is then released.
FreeInstance ==
    /\ dying.stage = "free"
    /\ LET s == dying.slot  parent == made[s].parent IN
        /\ heap' = IF Context(parent).deallocate THEN Dropped(heap, made[s].block) ELSE heap
        /\ ReleaseFrom([made EXCEPT ![s] = None], parent)
    /\ UNCHANGED <<infos, default, strong, mine, held>>

\* The client gives its reference up.
DropInfo(i) ==
    /\ Idle /\ mine[i] > 0 /\ ~Lent(i)
    /\ mine' = [mine EXCEPT ![i] = @ - 1] /\ infos' = [infos EXCEPT ![i] = @ - 1]
    /\ UNCHANGED <<made, heap, default, strong, held, dying>>

Next ==
    \/ \E a \in Usable \cup {NULL} :
        \/ \E n \in Sizes : Allocate(a, n) \/ \E b \in Block : Reallocate(a, b, n)
        \/ \E b \in Block : Deallocate(a, b)
        \/ \E c \in Contexts, s \in Slot : Create(a, c, s)
        \/ SetDefault(a)
    \/ \E s \in Slot : Retain(s) \/ Release(s)
    \/ Finalize \/ FreeInstance
    \/ \E i \in Info : DropInfo(i)

Spec == Init /\ [][Next]_vars

-----------------------------------------------------------------------------
(* Safety.                                                                 *)

\* Callbacks of an allocator may still be called until its finalizer has run.
Callable(s) == Live(s) /\ dying # [slot |-> s, stage |-> "free"]

\* The info that a callback is given is still there, and has no more references
\* than the client and the allocators that will release theirs.
InfosBalanced ==
    /\ \A s \in Slot : Callable(s) /\ Context(s).info # NULL => infos[Context(s).info] > 0
    /\ \A i \in Info :
        infos[i] = mine[i] + Cardinality({s \in Slot :
                        Callable(s) /\ Context(s).info = i /\ Context(s).release})

\* A parent outlives what is allocated in it.
ParentsLive ==
    \A s \in Slot : Live(s) /\ made[s].parent \in Slot =>
        Live(made[s].parent) /\ Callable(made[s].parent)

\* What is allocated is what the client has, in the size it needs and from the
\* allocator it will free it with, and the instances of live allocators; only what
\* came from an allocator without a callback to free stays.
BlocksBalanced ==
    LET Instances == {made[s].block : s \in {s \in Slot : Live(s)}} IN
    /\ \A b \in Block : held[b] # NotHeld =>
        /\ b \notin Instances /\ b \notin Free
        /\ heap[b].of = held[b].of /\ heap[b].size >= held[b].want
    /\ \A b \in Instances : b \notin Free
    /\ \A b \in Block : b \notin Free /\ held[b] = NotHeld /\ b \notin Instances => heap[b].stays

\* CFAllocator: infos, instances and blocks are given back exactly once, in an
\* order in which nothing that is still needed has gone.
AllocatorsBalanced == InfosBalanced /\ ParentsLive /\ BlocksBalanced
=============================================================================
