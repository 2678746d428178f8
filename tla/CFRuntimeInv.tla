----------------------------- MODULE CFRuntimeInv -----------------------------
(***************************************************************************)
(* The inductive invariants of CFRuntime and CFRuntimeMisuse.              *)
(***************************************************************************)
EXTENDS CFRuntimeMisuse

Retaining(t)  == pc[t] \in {"retain_load", "retain_cas"}
Releasing(t)  == pc[t] \in {"release_load", "release_cas"}
Destroying(t) == pc[t] \in {"finalize", "mark", "free"}

-----------------------------------------------------------------------------
(* What holds whatever the clients do.                                     *)

\* A pointer is to a static object or to a block that has been an object.
Born(o) == o \in Heap => mem[o] \in {"object", "freed"}

RefOK == \A h \in Holder : Born(ref[h])

\* A running call has an object, and a place of its own thread to take the
\* reference from or put it into.
CallOK(t) ==
    /\ pc[t] # "idle" => obj[t] \in Object /\ hold[t] \in Owned(t) \cup {t}
    /\ Born(obj[t])
    /\ pc[t] \in {"retain_cas", "release_cas"} =>
          (old[t].immortal <=> obj[t] \in Static)

\* A block under construction belongs to one thread.
ConstructionOK(t) ==
    /\ new[t] # NULL => /\ Retaining(t) \/ pc[t] = "publish"
                        /\ mem[new[t]] = "raw"
                        /\ Retaining(t) => obj[t] # SystemDefault
                        /\ \A u \in Thread \ {t} : new[u] # new[t]
    /\ pc[t] = "publish" => /\ new[t] # NULL
                            /\ obj[t] = SystemDefault <=> ref[new[t]] = NULL

\* An object under destruction belongs to one thread.
DestructionOK(t) ==
    Destroying(t) =>
        /\ obj[t] \in Heap
        /\ mem[obj[t]] = "object"
        /\ info[obj[t]].deallocating
        /\ finalized[obj[t]] = IF pc[t] = "finalize" THEN 0 ELSE 1
        /\ \A u \in Thread \ {t} : Destroying(u) => obj[u] # obj[t]

\* The marks and the number of finalizations follow the life of the block.
BlockOK(o) ==
    /\ ~info[o].immortal
    /\ finalized[o] <= 1
    /\ ~info[o].deallocating => finalized[o] = 0 /\ ~info[o].deallocated
    /\ mem[o] \in {"unused", "raw"} => ~info[o].deallocating
    /\ mem[o] = "unused" => ref[o] = NULL
    /\ mem[o] = "object" => (info[o].usesDefault <=> ref[o] = NULL)
    /\ mem[o] = "freed" => info[o].deallocating /\ finalized[o] = 1

ThreadOK == \A t \in Thread : CallOK(t) /\ ConstructionOK(t) /\ DestructionOK(t)
HeapOK == \A o \in Heap : BlockOK(o)
StaticOK == \A s \in Static : info[s].immortal

ShapeInv == TypeOK /\ RefOK /\ ThreadOK /\ HeapOK /\ StaticOK

-----------------------------------------------------------------------------
(* What holds as long as clients keep the ownership rule.                  *)

\* A retain or a creation works on an object its thread holds otherwise, and a
\* release on the reference it gives up; the place a result goes to is free.
HoldingOK(t) ==
    /\ Retaining(t) \/ pc[t] = "allocate" => Owns(t, obj[t])
    /\ Retaining(t) \/ pc[t] \in {"allocate", "publish"} => ref[hold[t]] = NULL
    /\ Retaining(t) => ref[Target(t)] = NULL
    /\ new[t] # NULL \/ pc[t] \in {"allocate", "publish"} => hold[t] # t
    /\ Releasing(t) => ref[hold[t]] = obj[t]
    /\ pc[t] = "publish" /\ obj[t] # SystemDefault => ref[new[t]] = obj[t]
    /\ pc[t] = "exchange" => hold[t] = t /\ ref[t] = obj[t]
    /\ ref[t] # NULL => hold[t] = t /\ (Releasing(t) \/ pc[t] = "exchange")

\* The local copy of the info word of an object its thread holds is never one
\* that makes the call abort.
CopyOK(t) ==
    pc[t] \in {"retain_cas", "release_cas"} /\ obj[t] \in Heap =>
        ~Dead(old[t]) /\ old[t].count # 0

ClientOK == \A t \in Thread : HoldingOK(t) /\ CopyOK(t)

LifetimeInv == /\ ShapeInv /\ ClientOK
               /\ CountIsReferences /\ NoDanglingReference /\ NoFalseAlarm
=============================================================================
