---------------------------- MODULE CFClassTable ----------------------------
(***************************************************************************)
(* The class table of CFRuntime.c: filled with the builtin classes by      *)
(* pthread_once, extended by _CFRuntimeRegisterClass under a mutex, and    *)
(* read without it by _CFRuntimeCreateInstance and CFGetTypeID, by several *)
(* threads at once.  A load and a store of an entry are one step each.     *)
(***************************************************************************)
EXTENDS Integers

CONSTANTS
    Thread,
    Class,         \* classes a client may register
    Refused,       \* those with no name or with a custom reference count
    Builtin,       \* the type IDs of the builtin classes
    BuiltinClass,  \* [Builtin -> their classes]
    FirstDynamic,  \* _kCFRuntimeStartingClassID
    TableSize,     \* FX_CF_MAX_RUNTIME_TYPES
    NotAType,      \* _kCFRuntimeNotATypeID, which is also _kCFRuntimeIDNotAType
    Abstract,      \* builtin type IDs without instances, NotAType among them
    NULL

ID == 0..(TableSize - 1)

ASSUME TableAssumption ==
    /\ {FirstDynamic, TableSize} \subseteq Nat
    /\ Builtin \subseteq 0..(FirstDynamic - 1) /\ FirstDynamic <= TableSize
    /\ NotAType \in Abstract /\ Abstract \subseteq Builtin
ASSUME ClassAssumption ==
    /\ Refused \subseteq Class /\ NULL \notin Class \cup Thread
    /\ DOMAIN BuiltinClass = Builtin
    /\ \A id \in Builtin : BuiltinClass[id] # NULL /\ BuiltinClass[id] \notin Refused

VARIABLES
    once,       \* state of __FXCFInitializeOnce: "no", "running" or "done"
    unpublished,\* the builtin IDs __FXCFInitializeRuntime has yet to publish
    table,      \* [ID -> class or NULL]
    nextID,     \* __FXCFNextDynamicTypeID
    lock,       \* __FXCFClassTableLock: the thread that holds it, or NULL
    pc,         \* where each thread stands
    op,         \* its call: "register", "create" or "none"
    arg,        \* the class it registers, or the type ID it wants an instance of
    typeID,     \* the ID a registration has taken, NULL before
    issued,     \* [ID -> how often a registration returned it]
    classOf,    \* [ID -> the class the client registered under it, or NULL]
    instances   \* [id, isa] of the instances there are

shared == <<once, unpublished, table, nextID, lock>>
local  == <<pc, op, arg, typeID>>
client == <<issued, classOf, instances>>
vars   == <<once, unpublished, table, nextID, lock, pc, op, arg, typeID,
            issued, classOf, instances>>

Classes == Class \cup {BuiltinClass[id] : id \in Builtin}

Init ==
    /\ once = "no" /\ unpublished = Builtin
    /\ table = [id \in ID |-> NULL]
    /\ nextID = FirstDynamic
    /\ lock = NULL
    /\ pc = [t \in Thread |-> "idle"]
    /\ op = [t \in Thread |-> "none"]
    /\ arg = [t \in Thread |-> NULL]
    /\ typeID = [t \in Thread |-> NULL]
    /\ issued = [id \in ID |-> 0]
    /\ classOf = [id \in ID |-> NULL]
    /\ instances = {}

Goto(t, next) == pc' = [pc EXCEPT ![t] = next]

\* The call of t is over.
Finish(t) ==
    /\ Goto(t, "idle")
    /\ op' = [op EXCEPT ![t] = "none"]
    /\ arg' = [arg EXCEPT ![t] = NULL]
    /\ typeID' = [typeID EXCEPT ![t] = NULL]

-----------------------------------------------------------------------------
(* pthread_once(&__FXCFInitializeOnce, __FXCFInitializeRuntime).           *)

EnterOnce(t) ==
    /\ pc[t] = "once" /\ once = "no"
    /\ once' = "running"
    /\ Goto(t, "publish")
    /\ UNCHANGED <<unpublished, table, nextID, lock, op, arg, typeID, client>>

\* The builtin classes are published in the order of their IDs.
PublishClass(t) ==
    /\ pc[t] = "publish"
    /\ \E id \in unpublished :
         /\ \A other \in unpublished : id <= other
         /\ table' = [table EXCEPT ![id] = BuiltinClass[id]]
         /\ unpublished' = unpublished \ {id}
    /\ UNCHANGED <<once, nextID, lock, local, client>>

Body(t) == IF op[t] = "register" THEN "check" ELSE "lookup"

LeaveOnce(t) ==
    /\ pc[t] = "publish" /\ unpublished = {}
    /\ once' = "done"
    /\ Goto(t, Body(t))
    /\ UNCHANGED <<unpublished, table, nextID, lock, op, arg, typeID, client>>

PassOnce(t) ==
    /\ pc[t] = "once" /\ once = "done"
    /\ Goto(t, Body(t))
    /\ UNCHANGED <<shared, op, arg, typeID, client>>

-----------------------------------------------------------------------------
(* _CFRuntimeRegisterClass.                                                *)

Acceptable(c) == c # NULL /\ c \notin Refused

CheckFails(t) ==
    /\ pc[t] = "check" /\ ~Acceptable(arg[t])
    /\ Finish(t)
    /\ UNCHANGED <<shared, client>>

\* Mutant: the mutex is not taken.
MutLockNot(t) ==
    /\ pc[t] = "check" /\ Acceptable(arg[t])
    /\ Goto(t, "take")
    /\ UNCHANGED <<shared, op, arg, typeID, client>>
Lock(t) ==
    /\ pc[t] = "check" /\ Acceptable(arg[t])
    /\ lock = NULL
    /\ lock' = t
    /\ Goto(t, "take")
    /\ UNCHANGED <<once, unpublished, table, nextID, op, arg, typeID, client>>

Full == nextID >= TableSize

\* Mutant: a registration waits, with the mutex, for room in the table.
MutTableFullWaits(t) ==
    /\ pc[t] = "take" /\ Full
    /\ UNCHANGED vars
TableFull(t) ==
    /\ pc[t] = "take" /\ Full
    /\ lock' = NULL
    /\ Finish(t)
    /\ UNCHANGED <<once, unpublished, table, nextID, client>>

\* __FXCFNextDynamicTypeID++ is a plain load and a plain store.
LoadNext(t) ==
    /\ pc[t] = "take" /\ ~Full
    /\ typeID' = [typeID EXCEPT ![t] = nextID]
    /\ Goto(t, "bump")
    /\ UNCHANGED <<shared, op, arg, client>>

\* Mutant: after the last entry the next ID starts over.
MutBumpNextWraps(t) ==
    /\ pc[t] = "bump"
    /\ nextID' = IF typeID[t] + 1 = TableSize THEN FirstDynamic ELSE typeID[t] + 1
    /\ Goto(t, "store")
    /\ UNCHANGED <<once, unpublished, table, lock, op, arg, typeID, client>>
BumpNext(t) ==
    /\ pc[t] = "bump"
    /\ nextID' = typeID[t] + 1
    /\ Goto(t, "store")
    /\ UNCHANGED <<once, unpublished, table, lock, op, arg, typeID, client>>

StoreClass(t) ==
    /\ pc[t] = "store"
    /\ table' = [table EXCEPT ![typeID[t]] = arg[t]]
    /\ Goto(t, "unlock")
    /\ UNCHANGED <<once, unpublished, nextID, lock, op, arg, typeID, client>>

\* The mutex is released and the ID returned.
Unlock(t) ==
    /\ pc[t] = "unlock"
    /\ lock' = NULL
    /\ issued' = [issued EXCEPT ![typeID[t]] = @ + 1]
    /\ classOf' = [classOf EXCEPT ![typeID[t]] = arg[t]]
    /\ Finish(t)
    /\ UNCHANGED <<once, unpublished, table, nextID, instances>>

-----------------------------------------------------------------------------
(* The readers.                                                            *)

Instantiable(id) == table[id] # NULL /\ id \notin Abstract

\* _CFRuntimeCreateInstance looks the class up and stores it in the instance.
CreateInstance(t) ==
    /\ pc[t] = "lookup"
    /\ instances' = IF Instantiable(arg[t])
                    THEN instances \cup {[id |-> arg[t], isa |-> table[arg[t]]]}
                    ELSE instances
    /\ Finish(t)
    /\ UNCHANGED <<shared, issued, classOf>>

\* CFGetTypeID aborts unless the table still has the class of the instance.
Accepted(i) == table[i.id] # NULL /\ table[i.id] = i.isa

-----------------------------------------------------------------------------
(* The calls of the client threads.                                        *)

Begin(t, what, a) ==
    /\ pc[t] = "idle"
    /\ Goto(t, "once")
    /\ op' = [op EXCEPT ![t] = what]
    /\ arg' = [arg EXCEPT ![t] = a]
    /\ UNCHANGED <<shared, typeID, client>>

\* The IDs a client can know: the builtin ones and those it was given.
Known == Builtin \cup {id \in ID : issued[id] > 0}

CallRegister(t) == \E c \in Class \cup {NULL} : Begin(t, "register", c)

CallCreate(t) == \E id \in Known : Begin(t, "create", id)

Register(t) == CheckFails(t) \/ Lock(t) \/ TableFull(t) \/ LoadNext(t)
               \/ BumpNext(t) \/ StoreClass(t) \/ Unlock(t)

Runtime(t) == EnterOnce(t) \/ PublishClass(t) \/ LeaveOnce(t) \/ PassOnce(t)
              \/ Register(t) \/ CreateInstance(t)

Next == \E t \in Thread : Runtime(t) \/ CallRegister(t) \/ CallCreate(t)

Spec == Init /\ [][Next]_vars
FairSpec == Spec /\ \A t \in Thread : WF_vars(Runtime(t))

-----------------------------------------------------------------------------
PC == {"idle", "once", "publish", "check", "take", "bump", "store", "unlock", "lookup"}

\* Every variable has its type, and a call has the argument its kind needs.
TypeOK ==
    /\ once \in {"no", "running", "done"}
    /\ unpublished \subseteq Builtin
    /\ table \in [ID -> Classes \cup {NULL}]
    /\ nextID \in FirstDynamic..TableSize
    /\ lock \in Thread \cup {NULL}
    /\ pc \in [Thread -> PC]
    /\ op \in [Thread -> {"none", "register", "create"}]
    /\ arg \in [Thread -> Class \cup ID \cup {NULL}]
    /\ \A t \in Thread : /\ op[t] = "register" => arg[t] \in Class \cup {NULL}
                         /\ op[t] = "create" => arg[t] \in ID
                         /\ op[t] = "none" => arg[t] = NULL
    /\ typeID \in [Thread -> ID \cup {NULL}]
    /\ issued \in [ID -> Nat]
    /\ classOf \in [ID -> Class \cup {NULL}]
    /\ instances \subseteq [id : ID, isa : Classes]

\* Two registrations never get the same ID, not even when the table is full,
\* and the class found under an ID is the one registered under it.
IDsUnique ==
    \A id \in ID : /\ issued[id] <= 1
                   /\ issued[id] = 1 => table[id] = classOf[id] /\ id >= FirstDynamic

\* A reader without the mutex never misses a class it can know of: not a builtin
\* one while another thread publishes, nor one an ID was returned for.
KnownIDsResolve ==
    \A t \in Thread : pc[t] = "lookup" => table[arg[t]] # NULL

\* CFGetTypeID accepts every instance at any later time.
InstancesAccepted == \A i \in instances : Accepted(i)

\* What registrations and readers without the mutex rely on, at every step of
\* any of them.
TableOK == TypeOK /\ IDsUnique /\ KnownIDsResolve /\ InstancesAccepted

\* An entry, once visible, never changes.
EntryPermanent ==
    [][\A id \in ID : table[id] # NULL => table'[id] = table[id]]_vars

\* The mutex and the once control are always given back: nobody waits for ever
\* on a thread that has left.
LockReleased ==
    /\ lock # NULL ~> lock = NULL
    /\ once = "running" ~> once = "done"
=============================================================================
