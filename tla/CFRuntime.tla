------------------------------ MODULE CFRuntime ------------------------------
(***************************************************************************)
(* Object lifetime in cort-fx/src/CFRuntime.c: CFRetain and CFRelease as   *)
(* the compare-and-swap loops they are, the deallocation that follows the  *)
(* last release, _CFRuntimeCreateInstance, and the process-global default  *)
(* allocator of CFBase.c, run by several threads at once.                  *)
(*                                                                         *)
(* The code counts references; it does not know who holds them.  The model *)
(* does: ref maps every place that can hold a strong pointer (a variable   *)
(* of a client thread, the allocator prefix of a heap object, the default  *)
(* allocator, a local variable of a running call) to the object it points  *)
(* to.  The count in the info word is changed only as the code changes it, *)
(* so that the two can be compared.                                        *)
(***************************************************************************)
EXTENDS Integers, FiniteSets

CONSTANTS
    Thread,          \* client threads
    Var,             \* strong-pointer variables of the client threads
    Owner,           \* [Var -> Thread]: the thread a variable belongs to
    Heap,            \* blocks an allocator can hand out; none is reused
    CustomAllocator, \* the blocks that hold CFAllocator instances
    Static,          \* the static, immortal allocators
    SystemDefault,   \* kCFAllocatorSystemDefault
    Default,         \* __FXCFDefaultAllocator, as a place that holds a pointer
    RetainMax,       \* largest retain count; UINT32_MAX in the code
    NULL

Holder == Var \cup Heap \cup Thread \cup {Default}
Object == Heap \cup Static

ASSUME ConstantsDistinct ==
    /\ Var \cap Heap = {} /\ Var \cap Thread = {} /\ Heap \cap Thread = {}
    /\ Default \notin Var \cup Heap \cup Thread
    /\ Heap \cap Static = {}
    /\ NULL \notin Object \cup Holder
ASSUME ConstantsTyped ==
    /\ Owner \in [Var -> Thread]
    /\ CustomAllocator \subseteq Heap
    /\ SystemDefault \in Static
    /\ RetainMax \in Nat \ {0}
ASSUME HolderFinite == IsFiniteSet(Holder)

VARIABLES
    mem,        \* [Heap -> {"unused", "raw", "object", "freed"}]
    info,       \* [Object -> Info]: _cfinfoa
    finalized,  \* [Heap -> Nat]: calls of the class's finalize
    ref,        \* [Holder -> Object \cup {NULL}]
    pc,         \* where each thread stands in the runtime
    obj,        \* the object its running call is about
    old,        \* the call's local copy of the info word
    hold,       \* where the pointer comes from (release) or goes to
    new,        \* the block under construction by _CFRuntimeCreateInstance
    aborted     \* the reason of _FXCFAbort, "no" while the process runs

shared == <<mem, info, finalized, ref>>
local  == <<pc, obj, old, hold, new>>
vars   == <<mem, info, finalized, ref, pc, obj, old, hold, new, aborted>>

-----------------------------------------------------------------------------
(* The info word.                                                          *)

Info == [count : 0..RetainMax, immortal : BOOLEAN, usesDefault : BOOLEAN,
         deallocating : BOOLEAN, deallocated : BOOLEAN]

InfoMake(count, usesDefault, immortal) ==
    [count |-> IF immortal THEN 0 ELSE count, immortal |-> immortal,
     usesDefault |-> usesDefault, deallocating |-> FALSE, deallocated |-> FALSE]

Dead(i) == i.deallocating \/ i.deallocated

\* info + FX_CF_INFO_RETAIN_INCREMENT on a field of fixed width.
Incremented(i) == [i EXCEPT !.count = (i.count + 1) % (RetainMax + 1)]
Decremented(i) == [i EXCEPT !.count = i.count - 1]
Deallocating(i) == [i EXCEPT !.deallocating = TRUE]
Deallocated(i) == [i EXCEPT !.deallocated = TRUE]

AllocatorOf(o) == IF info[o].usesDefault THEN SystemDefault ELSE ref[o]

Refs(o)   == {h \in Holder : ref[h] = o}
Owned(t)  == {v \in Var : Owner[v] = t}
Owns(t,o) == o \in Static \/ \E v \in Owned(t) : ref[v] = o
Vacant(t) == {v \in Owned(t) : ref[v] = NULL}

PC == {"idle", "allocate", "retain_load", "retain_cas", "publish", "exchange",
       "release_load", "release_cas", "finalize", "mark", "free"}

NoInfo == InfoMake(0, TRUE, FALSE)

Init ==
    /\ mem = [o \in Heap |-> "unused"]
    /\ info = [o \in Object |-> InfoMake(0, TRUE, o \in Static)]
    /\ finalized = [o \in Heap |-> 0]
    /\ ref = [h \in Holder |-> NULL]
    /\ pc = [t \in Thread |-> "idle"]
    /\ obj = [t \in Thread |-> NULL]
    /\ old = [t \in Thread |-> NoInfo]
    /\ hold = [t \in Thread |-> NULL]
    /\ new = [t \in Thread |-> NULL]
    /\ aborted = "no"

\* Thread t goes on with the running call at next, with o and h as its
\* arguments; the locals of a call that returns are cleared.
Continue(t, next, o, h) ==
    /\ pc' = [pc EXCEPT ![t] = next]
    /\ obj' = [obj EXCEPT ![t] = IF next = "idle" THEN NULL ELSE o]
    /\ hold' = [hold EXCEPT ![t] = IF next = "idle" THEN NULL ELSE h]

Goto(t, next) == Continue(t, next, obj[t], hold[t])

\* _FXCFAbort.
Abort(reason) == aborted' = reason /\ UNCHANGED <<shared, local>>

-----------------------------------------------------------------------------
(* CFRetain.  The pointer it returns is stored in the prefix of the block  *)
(* under construction, or else in hold.                                    *)

Target(t) == IF new[t] # NULL THEN new[t] ELSE hold[t]

AfterRetain(t) == IF new[t] # NULL THEN "publish"
                  ELSE IF hold[t] = t THEN "exchange" ELSE "idle"

RetainReturn(t) ==
    /\ ref' = [ref EXCEPT ![Target(t)] = obj[t]]
    /\ old' = [old EXCEPT ![t] = NoInfo]
    /\ Goto(t, AfterRetain(t))
    /\ UNCHANGED <<mem, finalized, new, aborted>>

Load(t, here, next) ==
    /\ pc[t] = here
    /\ old' = [old EXCEPT ![t] = info[obj[t]]]
    /\ Goto(t, next)
    /\ UNCHANGED <<shared, new, aborted>>

RetainLoad(t) == Load(t, "retain_load", "retain_cas")

RetainImmortal(t) ==
    /\ pc[t] = "retain_cas" /\ old[t].immortal
    /\ RetainReturn(t)
    /\ UNCHANGED info

\* Mutants: the overflow check, or the check of the marks, is missing.
MutMayRetainNoLimit(i) == ~i.immortal /\ ~Dead(i)
MutMayRetainDead(i) == ~i.immortal /\ i.count # RetainMax
MayRetain(i) == ~i.immortal /\ ~Dead(i) /\ i.count # RetainMax

RetainCAS(t) ==
    /\ pc[t] = "retain_cas" /\ MayRetain(old[t])
    /\ info[obj[t]] = old[t]
    /\ info' = [info EXCEPT ![obj[t]] = Incremented(old[t])]
    /\ RetainReturn(t)

\* Mutant: a failed exchange is taken for a successful one.
MutRetainFailReturns(t) ==
    /\ pc[t] = "retain_cas" /\ MayRetain(old[t])
    /\ info[obj[t]] # old[t]
    /\ RetainReturn(t)
    /\ UNCHANGED info
\* A weak exchange may also fail although the words are equal: the local copy
\* then keeps its value, which is a stuttering step.
RetainReload(t) ==
    /\ pc[t] = "retain_cas" /\ MayRetain(old[t])
    /\ info[obj[t]] # old[t]
    /\ Load(t, "retain_cas", "retain_cas")

RetainAbort(t) ==
    /\ pc[t] = "retain_cas" /\ ~old[t].immortal /\ ~MayRetain(old[t])
    /\ Abort(IF Dead(old[t]) THEN "retain of a deallocating object"
                             ELSE "retain-count overflow")

-----------------------------------------------------------------------------
(* CFRelease.  The reference that is given up is ref[hold[t]].             *)

ReleaseLoad(t) == Load(t, "release_load", "release_cas")

\* Mutant: the check of the marks is missing.
MutMayReleaseDead(i) == ~i.immortal /\ i.count # 0
MayRelease(i) == ~i.immortal /\ ~Dead(i) /\ i.count # 0

ReleaseReturn(t, next) ==
    /\ ref' = [ref EXCEPT ![hold[t]] = NULL]
    /\ old' = [old EXCEPT ![t] = NoInfo]
    /\ Goto(t, next)
    /\ UNCHANGED <<mem, finalized, new, aborted>>

ReleaseImmortal(t) ==
    /\ pc[t] = "release_cas" /\ old[t].immortal
    /\ ReleaseReturn(t, "idle")
    /\ UNCHANGED info

\* Mutant: the count is stored without comparing the word with the local copy.
MutReleaseStore(t) ==
    /\ pc[t] = "release_cas" /\ MayRelease(old[t])
    /\ old[t].count > 1
    /\ info' = [info EXCEPT ![obj[t]] = Decremented(old[t])]
    /\ ReleaseReturn(t, "idle")
ReleaseCAS(t) ==
    /\ pc[t] = "release_cas" /\ MayRelease(old[t])
    /\ old[t].count > 1
    /\ info[obj[t]] = old[t]
    /\ info' = [info EXCEPT ![obj[t]] = Decremented(old[t])]
    /\ ReleaseReturn(t, "idle")

\* The last reference: the count stays 1 and the object is marked instead.
ReleaseLastCAS(t) ==
    /\ pc[t] = "release_cas" /\ MayRelease(old[t])
    /\ old[t].count = 1
    /\ info[obj[t]] = old[t]
    /\ info' = [info EXCEPT ![obj[t]] = Deallocating(old[t])]
    /\ ReleaseReturn(t, "finalize")

ReleaseReload(t) ==
    /\ pc[t] = "release_cas" /\ MayRelease(old[t])
    /\ info[obj[t]] # old[t]
    /\ Load(t, "release_cas", "release_cas")

ReleaseAbort(t) ==
    /\ pc[t] = "release_cas" /\ ~old[t].immortal /\ ~MayRelease(old[t])
    /\ Abort(IF Dead(old[t]) THEN "release of a deallocating object"
                             ELSE "over-release")

\* reclaim and finalize: callbacks of the class.
Finalize(t) ==
    /\ pc[t] = "finalize"
    /\ finalized' = [finalized EXCEPT ![obj[t]] = @ + 1]
    /\ Goto(t, "mark")
    /\ UNCHANGED <<mem, info, ref, old, new, aborted>>

MarkDeallocated(t) ==
    /\ pc[t] = "mark"
    /\ info' = [info EXCEPT ![obj[t]] = Deallocated(@)]
    /\ Goto(t, "free")
    /\ UNCHANGED <<mem, finalized, ref, old, new, aborted>>

\* CFAllocatorDeallocate.  The reference the prefix held to the allocator
\* survives the block in a local variable of the call, which releases it next.
Free(t) ==
    LET o == obj[t] IN
    /\ pc[t] = "free"
    /\ mem' = [mem EXCEPT ![o] = "freed"]
    /\ IF info[o].usesDefault
       THEN Goto(t, "idle") /\ UNCHANGED ref
       ELSE /\ ref' = [ref EXCEPT ![t] = ref[o], ![o] = NULL]
            /\ Continue(t, "release_load", ref[o], t)
    /\ UNCHANGED <<info, finalized, old, new, aborted>>

-----------------------------------------------------------------------------
(* _CFRuntimeCreateInstance, once its arguments are accepted.              *)

\* The allocator's allocate callback returns NULL.
AllocateFails(t) ==
    /\ pc[t] = "allocate"
    /\ Goto(t, "idle")
    /\ UNCHANGED <<shared, old, new, aborted>>

\* Mutant: the allocator is stored in the prefix but not retained.
MutAllocateNoRetain(t) ==
    /\ pc[t] = "allocate"
    /\ \E o \in Heap :
         /\ mem[o] = "unused"
         /\ mem' = [mem EXCEPT ![o] = "raw"]
         /\ new' = [new EXCEPT ![t] = o]
         /\ ref' = [ref EXCEPT ![o] = IF obj[t] = SystemDefault THEN NULL ELSE obj[t]]
    /\ Goto(t, "publish")
    /\ UNCHANGED <<info, finalized, old, aborted>>
Allocate(t) ==
    /\ pc[t] = "allocate"
    /\ \E o \in Heap :
         /\ mem[o] = "unused"
         /\ mem' = [mem EXCEPT ![o] = "raw"]
         /\ new' = [new EXCEPT ![t] = o]
    /\ Goto(t, IF obj[t] = SystemDefault THEN "publish" ELSE "retain_load")
    /\ UNCHANGED <<info, finalized, ref, old, aborted>>

\* The header is stored, the class's init runs, and the caller has the object.
Publish(t) ==
    LET o == new[t] IN
    /\ pc[t] = "publish"
    /\ info' = [info EXCEPT ![o] = InfoMake(1, obj[t] = SystemDefault, FALSE)]
    /\ mem' = [mem EXCEPT ![o] = "object"]
    /\ ref' = [ref EXCEPT ![hold[t]] = o]
    /\ new' = [new EXCEPT ![t] = NULL]
    /\ Goto(t, "idle")
    /\ UNCHANGED <<finalized, old, aborted>>

\* Mutant: the former default is not released.
MutExchangeForgets(t) ==
    /\ pc[t] = "exchange"
    /\ ref' = [ref EXCEPT ![Default] = ref[t], ![t] = NULL]
    /\ Goto(t, "idle")
    /\ UNCHANGED <<mem, info, finalized, old, new, aborted>>
\* CFAllocatorSetDefault, after the retain of the new default.
Exchange(t) ==
    /\ pc[t] = "exchange"
    /\ ref' = [ref EXCEPT ![Default] = ref[t], ![t] = ref[Default]]
    /\ Continue(t, IF ref[Default] = NULL THEN "idle" ELSE "release_load",
                   ref[Default], t)
    /\ UNCHANGED <<mem, info, finalized, old, new, aborted>>

-----------------------------------------------------------------------------
(* The calls an idle client thread can make.                               *)

Call(t, entry, o, h) ==
    /\ pc[t] = "idle"
    /\ Continue(t, entry, o, h)
    /\ UNCHANGED <<shared, old, new, aborted>>

CallRetain(t) ==
    \E v \in Owned(t) : \E w \in Vacant(t) :
        ref[v] # NULL /\ Call(t, "retain_load", ref[v], w)

CallRelease(t) ==
    \E v \in Owned(t) : ref[v] # NULL /\ Call(t, "release_load", ref[v], v)

Usable(t) == {a \in Static \cup CustomAllocator : Owns(t, a)}

CallCreate(t) ==
    \E a \in Usable(t) : \E w \in Vacant(t) : Call(t, "allocate", a, w)

CallSetDefault(t) ==
    \E a \in Usable(t) : Call(t, "retain_load", a, t)

GetDefault == IF ref[Default] = NULL THEN SystemDefault ELSE ref[Default]

\* _CFRuntimeCreateInstance(NULL, ...): the default allocator is borrowed.
CallCreateDefault(t) ==
    \E w \in Vacant(t) : Call(t, "allocate", GetDefault, w)

\* One thread gives a reference to another, outside the runtime.
Pass(t, u) ==
    /\ pc[t] = "idle" /\ pc[u] = "idle" /\ t # u
    /\ \E v \in Owned(t) : \E w \in Vacant(u) :
         /\ ref[v] # NULL
         /\ ref' = [ref EXCEPT ![w] = ref[v], ![v] = NULL]
    /\ UNCHANGED <<mem, info, finalized, local, aborted>>

-----------------------------------------------------------------------------
Retain(t) == \/ RetainLoad(t) \/ RetainImmortal(t) \/ RetainCAS(t)
             \/ RetainReload(t) \/ RetainAbort(t)

Release(t) == \/ ReleaseLoad(t) \/ ReleaseImmortal(t) \/ ReleaseCAS(t)
              \/ ReleaseLastCAS(t) \/ ReleaseReload(t) \/ ReleaseAbort(t)
              \/ Finalize(t) \/ MarkDeallocated(t) \/ Free(t)

Create(t) == AllocateFails(t) \/ Allocate(t) \/ Publish(t)

\* What a thread inside the runtime does next.
Runtime(t) == aborted = "no" /\ (Retain(t) \/ Release(t) \/ Create(t) \/ Exchange(t))

\* A client that keeps a reference of its own to the default allocator, or
\* leaves the default static, for as long as it may create with NULL.
Client(t) ==
    /\ aborted = "no"
    /\ \/ CallRetain(t) \/ CallRelease(t) \/ CallCreate(t) \/ CallSetDefault(t)
       \/ Owns(t, GetDefault) /\ CallCreateDefault(t)
       \/ \E u \in Thread : Pass(t, u)

Next == \E t \in Thread : Runtime(t) \/ Client(t)

Spec == Init /\ [][Next]_vars
FairSpec == Spec /\ \A t \in Thread : WF_vars(Runtime(t))

-----------------------------------------------------------------------------
(* Safety.                                                                 *)

\* Every variable has its type, and a running call has an object to work on.
TypeOK ==
    /\ mem \in [Heap -> {"unused", "raw", "object", "freed"}]
    /\ info \in [Object -> Info]
    /\ finalized \in [Heap -> Nat]
    /\ ref \in [Holder -> Object \cup {NULL}]
    /\ pc \in [Thread -> PC]
    /\ \A t \in Thread : pc[t] = "idle" <=> obj[t] = NULL
    /\ obj \in [Thread -> Object \cup {NULL}]
    /\ old \in [Thread -> Info]
    /\ hold \in [Thread -> Holder \cup {NULL}]
    /\ new \in [Thread -> Heap \cup {NULL}]
    /\ aborted \in {"no", "retain of a deallocating object",
                    "retain-count overflow", "release of a deallocating object",
                    "over-release"}

Live(o) == mem[o] = "object" /\ ~Dead(info[o])

\* The count the compare-and-swap loops of CFRetain and CFRelease keep is the
\* number of strong references there are: clients', the prefixes of the objects
\* an allocator serves, the default allocator and those of running calls.
CountIsReferences ==
    \A o \in Heap : Live(o) => info[o].count = Cardinality(Refs(o))

\* Nobody holds a reference to an object whose deallocation has begun.  For the
\* prefix of a block: its allocator outlives it, the release of the allocator
\* at the end of CFRelease being the last thing done for the object.
NoDanglingReference ==
    \A h \in Holder : ref[h] \in Heap => Live(ref[h])

\* No call of the runtime reads or writes the header of a block that is not an
\* object, and a block is given back to an allocator that is still there.
NoUseAfterFree ==
    \A t \in Thread :
        /\ obj[t] \in Heap => mem[obj[t]] = "object"
        /\ pc[t] = "free" /\ AllocatorOf(obj[t]) \in Heap =>
              mem[AllocatorOf(obj[t])] = "object"

\* finalize runs once, before the memory goes, and never for a live object.
FinalizedOnce ==
    \A o \in Heap : /\ finalized[o] <= 1
                    /\ finalized[o] = 1 => ~Live(o)
                    /\ mem[o] = "freed" => finalized[o] = 1

\* A client that releases only what it holds is never told that it does not:
\* the only abort it can meet is the one on an exhausted retain count.
NoFalseAlarm == aborted \in {"no", "retain-count overflow"}

-----------------------------------------------------------------------------
(* CFRuntime implements Ownership.                                         *)

LifeOf(o) == CASE mem[o] \in {"unused", "raw"} -> "unborn"
               [] mem[o] = "object" /\ ~info[o].deallocating -> "live"
               [] mem[o] = "object" /\ info[o].deallocating -> "dying"
               [] OTHER -> "dead"

Life == [o \in Heap |-> LifeOf(o)]

Abstract == INSTANCE Ownership WITH life <- Life

\* Every step of the runtime is a step of the reference-counting-free
\* specification of object lifetime, or changes nothing it speaks of.
ImplementsOwnership == Abstract!Spec

-----------------------------------------------------------------------------
(* Liveness.                                                               *)

\* An object nobody references any more is given back to its allocator, unless
\* the process aborts.
FreedEventually ==
    \A o \in Heap :
        (mem[o] = "object" /\ Refs(o) = {}) ~>
        (mem[o] = "freed" \/ aborted # "no")
=============================================================================
