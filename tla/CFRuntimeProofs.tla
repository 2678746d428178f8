---------------------------- MODULE CFRuntimeProofs ----------------------------
(***************************************************************************)
(* Proofs about the object lifetime of CFRuntime.c for any number of       *)
(* threads, variables and blocks.                                          *)
(*                                                                         *)
(* ShapeInv is shown first to be an invariant of the runtime under every   *)
(* client, MisuseSpec included; what it says of marks and finalizations    *)
(* does not rest on the count.  LifetimeInv adds, for clients that keep    *)
(* the ownership rule, that the count is the number of references, and     *)
(* from it follow the safety properties of CFRuntime.  Last, CFRuntime is  *)
(* shown to implement Ownership.                                           *)
(***************************************************************************)
EXTENDS CFRuntimeInv, FiniteSetTheorems, TLAPS

\* What the assumptions on the constants say, spelled out.
LEMMA Apart ==
    /\ NULL \notin Heap /\ NULL \notin Static /\ NULL \notin Thread
    /\ NULL \notin Var /\ NULL # Default /\ NULL \notin Object
    /\ NULL \notin Holder
    /\ \A o \in Heap : o \in Object /\ o \in Holder /\ o \notin Static
                      /\ o \notin Thread /\ o \notin Var /\ o # Default
    /\ \A t \in Thread : t \in Holder /\ t \notin Var /\ t # Default
    /\ \A v \in Var : v \in Holder /\ v # Default /\ Owner[v] \in Thread
    /\ Default \in Holder
    /\ \A s \in Static : s \in Object
    /\ SystemDefault \in Static /\ RetainMax \in Nat \ {0}
    /\ Object = Heap \cup Static
BY ConstantsDistinct, ConstantsTyped DEF Object, Holder

USE Apart

-----------------------------------------------------------------------------
(* The info word.                                                          *)

\* What the updates of the info word leave alone.
SameFlags(i, j) == /\ j.immortal = i.immortal
                   /\ j.usesDefault = i.usesDefault
                   /\ j.deallocating = i.deallocating
                   /\ j.deallocated = i.deallocated

\* The cleared local copy is an info word.
LEMMA NoInfoType == NoInfo \in Info
BY DEF NoInfo, InfoMake, Info

\* The header a new object gets.
LEMMA NewInfo ==
    ASSUME NEW u \in BOOLEAN
    PROVE  /\ InfoMake(1, u, FALSE) \in Info
           /\ ~InfoMake(1, u, FALSE).immortal
           /\ ~InfoMake(1, u, FALSE).deallocating
           /\ ~InfoMake(1, u, FALSE).deallocated
           /\ InfoMake(1, u, FALSE).usesDefault = u
           /\ InfoMake(1, u, FALSE).count = 1
<1>1. 1 \in 0..RetainMax OBVIOUS
<1> QED BY <1>1 DEF InfoMake, Info

\* The count of a retain does not wrap round, and the flags stay.
LEMMA IncrementedInfo ==
    ASSUME NEW i \in Info, i.count # RetainMax
    PROVE  /\ Incremented(i) \in Info
           /\ Incremented(i).count = i.count + 1
           /\ SameFlags(i, Incremented(i))
<1>1. i.count \in 0..RetainMax BY DEF Info
<1>2. (i.count + 1) % (RetainMax + 1) = i.count + 1 BY <1>1
<1> QED BY <1>1, <1>2 DEF Info, Incremented, SameFlags

\* The count of a release does not fall below zero, and the flags stay.
LEMMA DecrementedInfo ==
    ASSUME NEW i \in Info, i.count # 0
    PROVE  /\ Decremented(i) \in Info
           /\ Decremented(i).count = i.count - 1
           /\ SameFlags(i, Decremented(i))
BY DEF Info, Decremented, SameFlags

\* A mark sets one flag; the count and the other flags stay.
LEMMA MarkedInfo ==
    ASSUME NEW i \in Info
    PROVE  /\ Deallocating(i) \in Info /\ Deallocated(i) \in Info
           /\ Deallocating(i).deallocating /\ Deallocated(i).deallocated
           /\ Deallocated(i).deallocating = i.deallocating
           /\ Deallocating(i).deallocated = i.deallocated
           /\ Deallocating(i).count = i.count /\ Deallocated(i).count = i.count
           /\ Deallocating(i).immortal = i.immortal
           /\ Deallocated(i).immortal = i.immortal
           /\ Deallocating(i).usesDefault = i.usesDefault
           /\ Deallocated(i).usesDefault = i.usesDefault
BY DEF Info, Deallocating, Deallocated

-----------------------------------------------------------------------------
(* Control flow.                                                           *)

\* A step of one thread leaves the locals of the others alone.
LEMMA ContinueFacts ==
    ASSUME TypeOK, NEW t \in Thread, NEW n \in PC,
           NEW o \in Object \cup {NULL}, NEW h \in Holder \cup {NULL},
           n # "idle" => o # NULL, Continue(t, n, o, h)
    PROVE  /\ pc' \in [Thread -> PC]
           /\ obj' \in [Thread -> Object \cup {NULL}]
           /\ hold' \in [Thread -> Holder \cup {NULL}]
           /\ \A u \in Thread : (pc[u] = "idle" <=> obj[u] = NULL)'
           /\ pc'[t] = n
           /\ n # "idle" => obj'[t] = o /\ hold'[t] = h
           /\ \A u \in Thread \ {t} :
                 pc'[u] = pc[u] /\ obj'[u] = obj[u] /\ hold'[u] = hold[u]
<1>1. /\ pc' = [pc EXCEPT ![t] = n]
      /\ obj' = [obj EXCEPT ![t] = IF n = "idle" THEN NULL ELSE o]
      /\ hold' = [hold EXCEPT ![t] = IF n = "idle" THEN NULL ELSE h]
  BY DEF Continue
<1>2. pc' \in [Thread -> PC] BY <1>1 DEF TypeOK
<1>3. obj' \in [Thread -> Object \cup {NULL}] BY <1>1 DEF TypeOK
<1>4. hold' \in [Thread -> Holder \cup {NULL}]
  <2>1. CASE n = "idle" BY <1>1, <2>1 DEF TypeOK
  <2>2. CASE n # "idle" BY <1>1, <2>2 DEF TypeOK
  <2> QED BY <2>1, <2>2
<1>5. \A u \in Thread \ {t} :
        pc'[u] = pc[u] /\ obj'[u] = obj[u] /\ hold'[u] = hold[u]
  BY <1>1 DEF TypeOK
<1>6. /\ pc'[t] = n
      /\ n # "idle" => obj'[t] = o /\ hold'[t] = h
      /\ n = "idle" => obj'[t] = NULL
  <2>1. pc'[t] = n BY <1>1 DEF TypeOK
  <2>2. CASE n = "idle" BY <1>1, <2>1, <2>2 DEF TypeOK
  <2>3. CASE n # "idle" BY <1>1, <2>1, <2>3 DEF TypeOK
  <2> QED BY <2>1, <2>2, <2>3
<1>7. \A u \in Thread : (pc[u] = "idle" <=> obj[u] = NULL)'
  BY <1>5, <1>6 DEF TypeOK
<1> QED BY <1>2, <1>3, <1>4, <1>5, <1>6, <1>7

Still(u) == /\ pc'[u] = pc[u] /\ obj'[u] = obj[u] /\ hold'[u] = hold[u]
            /\ old'[u] = old[u] /\ new'[u] = new[u]

\* A thread that does not move stays in shape if nobody touches the block it
\* constructs or the object it destroys.
LEMMA StillThread ==
    ASSUME ShapeInv, NEW u \in Thread, Still(u), Born(obj[u])',
           new[u] # NULL => /\ mem'[new[u]] = "raw"
                            /\ ref'[new[u]] = ref[new[u]]
                            /\ \A w \in Thread \ {u} : new'[w] # new[u],
           Destroying(u) =>
              /\ mem'[obj[u]] = "object"
              /\ info'[obj[u]].deallocating
              /\ finalized'[obj[u]] = finalized[obj[u]]
              /\ \A w \in Thread \ {u} : Destroying(w)' => obj'[w] # obj[u]
    PROVE  CallOK(u)' /\ ConstructionOK(u)' /\ DestructionOK(u)'
<1> USE DEF ShapeInv, ThreadOK, Still
<1>1. CallOK(u)' BY DEF CallOK, Owned
<1>2. ConstructionOK(u)' BY DEF ConstructionOK, Retaining
<1>3. DestructionOK(u)' BY DEF DestructionOK, Destroying
<1> QED BY <1>1, <1>2, <1>3

-----------------------------------------------------------------------------
(* ShapeInv: steps that build and destroy nothing.                         *)

\* A step of thread t that keeps memory, marks and finalizations, and writes to
\* no prefix but that of its own block under construction, preserves the shape.
LEMMA QuietShape ==
    ASSUME ShapeInv, NEW t \in Thread, TypeOK',
           mem' = mem, finalized' = finalized, new' = new,
           \A o \in Object : SameFlags(info[o], info'[o]),
           \A b \in Heap : \/ ref'[b] = ref[b]
                           \/ b = new[t] /\ ref'[b] # NULL,
           \A u \in Thread \ {t} : Still(u),
           RefOK', ~Destroying(t)', CallOK(t)', ConstructionOK(t)'
    PROVE  ShapeInv'
<1>1. ASSUME NEW u \in Thread
      PROVE  CallOK(u)' /\ ConstructionOK(u)' /\ DestructionOK(u)'
  <2>1. CASE u = t BY <2>1 DEF DestructionOK, Destroying
  <2>2. CASE u # t
    <3>1. ASSUME new[u] # NULL
          PROVE  /\ mem'[new[u]] = "raw" /\ ref'[new[u]] = ref[new[u]]
                 /\ \A w \in Thread \ {u} : new'[w] # new[u]
      <4>1. /\ new[u] \in Heap /\ mem[new[u]] = "raw"
            /\ \A w \in Thread \ {u} : new[w] # new[u]
        BY <3>1 DEF ShapeInv, TypeOK, ThreadOK, ConstructionOK
      <4> QED BY <2>2, <4>1
    <3>2. ASSUME Destroying(u)
          PROVE  /\ mem'[obj[u]] = "object" /\ info'[obj[u]].deallocating
                 /\ finalized'[obj[u]] = finalized[obj[u]]
                 /\ \A w \in Thread \ {u} : Destroying(w)' => obj'[w] # obj[u]
      BY <2>2, <3>2
      DEF ShapeInv, ThreadOK, DestructionOK, Destroying, SameFlags, Still, Object
    <3>3. Born(obj[u])'
      BY <2>2 DEF ShapeInv, ThreadOK, CallOK, Born, Still
    <3> QED BY <2>2, <3>1, <3>2, <3>3, StillThread
  <2> QED BY <2>1, <2>2
<1>2. ASSUME NEW b \in Heap PROVE BlockOK(b)'
  <2>1. CASE ref'[b] = ref[b]
    BY <2>1 DEF ShapeInv, HeapOK, BlockOK, SameFlags, Object
  <2>2. CASE b = new[t] /\ ref'[b] # NULL
    <3>1. mem[b] = "raw" BY <2>2 DEF ShapeInv, ThreadOK, ConstructionOK
    <3> QED BY <2>2, <3>1 DEF ShapeInv, HeapOK, BlockOK, SameFlags, Object
  <2> QED BY <2>1, <2>2
<1>3. StaticOK' BY DEF ShapeInv, StaticOK, SameFlags, Object
<1> QED BY <1>1, <1>2, <1>3 DEF ShapeInv, ThreadOK, HeapOK

\* A running call has its arguments.
LEMMA CallFacts ==
    ASSUME ShapeInv, NEW t \in Thread, pc[t] # "idle"
    PROVE  /\ obj[t] \in Object /\ obj[t] # NULL /\ info[obj[t]] \in Info
           /\ Born(obj[t])
           /\ hold[t] \in Owned(t) \cup {t}
           /\ hold[t] \in Holder /\ hold[t] \notin Heap /\ hold[t] # NULL
<1>1. obj[t] \in Object /\ hold[t] \in Owned(t) \cup {t} /\ Born(obj[t])
  BY DEF ShapeInv, ThreadOK, CallOK
<1>2. info[obj[t]] \in Info BY <1>1 DEF ShapeInv, TypeOK
<1> QED BY <1>1, <1>2 DEF Owned

\* The object of a call that has read an info word that is not immortal.
LEMMA MortalFacts ==
    ASSUME ShapeInv, NEW t \in Thread,
           pc[t] \in {"retain_cas", "release_cas"}, ~old[t].immortal
    PROVE  obj[t] \in Heap
BY DEF ShapeInv, ThreadOK, CallOK, Object

\* The loads of the info word.
LEMMA LoadShape ==
    ASSUME ShapeInv, NEW t \in Thread, NEW here, NEW next,
           <<here, next>> \in {<<"retain_load", "retain_cas">>,
                               <<"retain_cas", "retain_cas">>,
                               <<"release_load", "release_cas">>,
                               <<"release_cas", "release_cas">>},
           Load(t, here, next)
    PROVE  ShapeInv'
<1> DEFINE o == obj[t]
<1>1. /\ pc[t] = here /\ here # "idle" /\ next \in PC \ {"idle"}
      /\ next \in {"retain_cas", "release_cas"}
      /\ here \in {"retain_load", "retain_cas"} <=> next = "retain_cas"
      /\ here # "publish"
  BY DEF Load, PC
<1>2. /\ o \in Object /\ o # NULL /\ Born(o)
      /\ hold[t] \in Owned(t) \cup {t} /\ hold[t] \in Holder
  BY <1>1, CallFacts
<1>3. Continue(t, next, o, hold[t]) BY DEF Load, Goto
<1>4. /\ pc' \in [Thread -> PC]
      /\ obj' \in [Thread -> Object \cup {NULL}]
      /\ hold' \in [Thread -> Holder \cup {NULL}]
      /\ \A u \in Thread : (pc[u] = "idle" <=> obj[u] = NULL)'
      /\ pc'[t] = next /\ obj'[t] = o /\ hold'[t] = hold[t]
      /\ \A u \in Thread \ {t} :
            pc'[u] = pc[u] /\ obj'[u] = obj[u] /\ hold'[u] = hold[u]
  BY <1>1, <1>2, <1>3, ContinueFacts DEF ShapeInv
<1>5. /\ old' = [old EXCEPT ![t] = info[o]]
      /\ mem' = mem /\ info' = info /\ finalized' = finalized /\ ref' = ref
      /\ new' = new /\ aborted' = aborted
  BY DEF Load, shared
<1>6. old' \in [Thread -> Info] /\ old'[t] = info[o]
      /\ \A u \in Thread \ {t} : old'[u] = old[u]
  BY <1>2, <1>5 DEF ShapeInv, TypeOK
<1>7. TypeOK' BY <1>4, <1>5, <1>6 DEF ShapeInv, TypeOK
<1>8. CallOK(t)'
  BY <1>1, <1>2, <1>4, <1>5, <1>6
  DEF CallOK, Owned, Born, ShapeInv, HeapOK, StaticOK, BlockOK
<1>9. ConstructionOK(t)'
  BY <1>1, <1>4, <1>5 DEF ConstructionOK, Retaining, ShapeInv, ThreadOK
<1>10. RefOK' BY <1>5 DEF ShapeInv, RefOK, Born
<1> QED
  BY <1>1, <1>4, <1>5, <1>6, <1>7, <1>8, <1>9, <1>10, QuietShape
  DEF Still, SameFlags, Destroying

\* CFRetain returns: the info word keeps its flags.
LEMMA RetainReturnShape ==
    ASSUME ShapeInv, NEW t \in Thread, pc[t] = "retain_cas", RetainReturn(t),
           info' \in [Object -> Info],
           \A o \in Object : SameFlags(info[o], info'[o])
    PROVE  ShapeInv'
<1> DEFINE o == obj[t]  d == Target(t)  next == AfterRetain(t)
<1>1. /\ o \in Object /\ o # NULL /\ Born(o)
      /\ hold[t] \in Owned(t) \cup {t} /\ hold[t] \in Holder
      /\ hold[t] \notin Heap
  BY CallFacts
<1>2. new[t] \in Heap \cup {NULL} BY DEF ShapeInv, TypeOK
<1>3. d \in Holder /\ (d \in Heap => d = new[t])
  BY <1>1, <1>2 DEF Target, Holder
<1>4. next \in {"publish", "exchange", "idle"} /\ next \in PC
      /\ (new[t] # NULL <=> next = "publish")
  BY DEF AfterRetain, PC
<1>5. /\ ref' = [ref EXCEPT ![d] = o] /\ Continue(t, next, o, hold[t])
      /\ old' = [old EXCEPT ![t] = NoInfo]
      /\ mem' = mem /\ finalized' = finalized /\ new' = new
      /\ aborted' = aborted
  BY DEF RetainReturn, Goto
<1>6. /\ ref' \in [Holder -> Object \cup {NULL}]
      /\ ref'[d] = o /\ \A h \in Holder \ {d} : ref'[h] = ref[h]
  BY <1>1, <1>3, <1>5 DEF ShapeInv, TypeOK
<1>7. old' \in [Thread -> Info] /\ \A u \in Thread \ {t} : old'[u] = old[u]
  BY <1>5, NoInfoType DEF ShapeInv, TypeOK
<1> HIDE DEF o, d, next
<1>8. /\ pc' \in [Thread -> PC]
      /\ obj' \in [Thread -> Object \cup {NULL}]
      /\ hold' \in [Thread -> Holder \cup {NULL}]
      /\ \A u \in Thread : (pc[u] = "idle" <=> obj[u] = NULL)'
      /\ pc'[t] = next
      /\ next # "idle" => obj'[t] = o /\ hold'[t] = hold[t]
      /\ \A u \in Thread \ {t} :
            pc'[u] = pc[u] /\ obj'[u] = obj[u] /\ hold'[u] = hold[u]
  BY <1>1, <1>4, <1>5, ContinueFacts DEF ShapeInv
<1>9. TypeOK' BY <1>5, <1>6, <1>7, <1>8 DEF ShapeInv, TypeOK
<1>10. CallOK(t)' BY <1>1, <1>4, <1>5, <1>8 DEF CallOK, Owned, Born
<1>11. ConstructionOK(t)'
  <2>1. CASE new[t] = NULL BY <2>1, <1>4, <1>5, <1>8 DEF ConstructionOK
  <2>2. CASE new[t] # NULL
    <3>1. d = new[t] BY <2>2 DEF d, Target
    <3>2. o # SystemDefault /\ mem[new[t]] = "raw"
          /\ \A u \in Thread \ {t} : new[u] # new[t]
      BY <2>2 DEF o, ShapeInv, ThreadOK, ConstructionOK, Retaining
    <3> QED BY <2>2, <3>1, <3>2, <1>1, <1>4, <1>5, <1>6, <1>8
            DEF ConstructionOK, Retaining
  <2> QED BY <2>1, <2>2
<1>12. \A b \in Heap : ref'[b] = ref[b] \/ (b = new[t] /\ ref'[b] # NULL)
  BY <1>1, <1>3, <1>6 DEF Holder
<1>13. RefOK' BY <1>1, <1>5, <1>6 DEF ShapeInv, RefOK, Born
<1> QED
  BY <1>4, <1>5, <1>7, <1>8, <1>9, <1>10, <1>11, <1>12, <1>13, QuietShape
  DEF Still, Destroying

\* CFRelease of a reference that is not the last one returns.
LEMMA ReleaseReturnShape ==
    ASSUME ShapeInv, NEW t \in Thread, pc[t] = "release_cas",
           ReleaseReturn(t, "idle"), info' \in [Object -> Info],
           \A o \in Object : SameFlags(info[o], info'[o])
    PROVE  ShapeInv'
<1> DEFINE o == obj[t]  h == hold[t]
<1>1. o \in Object /\ o # NULL /\ h \in Holder /\ h \notin Heap
  BY CallFacts
<1>2. /\ ref' = [ref EXCEPT ![h] = NULL] /\ Continue(t, "idle", o, h)
      /\ old' = [old EXCEPT ![t] = NoInfo]
      /\ mem' = mem /\ finalized' = finalized /\ new' = new
      /\ aborted' = aborted
  BY DEF ReleaseReturn, Goto
<1>3. /\ ref' \in [Holder -> Object \cup {NULL}]
      /\ \A b \in Heap : ref'[b] = ref[b]
      /\ \A g \in Holder : ref'[g] \in {NULL, ref[g]}
  BY <1>1, <1>2 DEF ShapeInv, TypeOK
<1>4. old' \in [Thread -> Info] /\ \A u \in Thread \ {t} : old'[u] = old[u]
  BY <1>2, NoInfoType DEF ShapeInv, TypeOK
<1> HIDE DEF o, h
<1>5. /\ pc' \in [Thread -> PC]
      /\ obj' \in [Thread -> Object \cup {NULL}]
      /\ hold' \in [Thread -> Holder \cup {NULL}]
      /\ \A u \in Thread : (pc[u] = "idle" <=> obj[u] = NULL)'
      /\ pc'[t] = "idle"
      /\ \A u \in Thread \ {t} :
            pc'[u] = pc[u] /\ obj'[u] = obj[u] /\ hold'[u] = hold[u]
  BY <1>1, <1>2, ContinueFacts DEF ShapeInv, PC
<1>6. TypeOK' BY <1>2, <1>3, <1>4, <1>5 DEF ShapeInv, TypeOK
<1>7. CallOK(t)' BY <1>5 DEF CallOK, Born
<1>8. ConstructionOK(t)'
  BY <1>2, <1>5 DEF ConstructionOK, Retaining, ShapeInv, ThreadOK
<1>9. RefOK' BY <1>2, <1>3 DEF ShapeInv, RefOK, Born
<1> QED
  BY <1>2, <1>3, <1>4, <1>5, <1>6, <1>7, <1>8, <1>9, QuietShape
  DEF Still, Destroying

\* The steps that change the locals of a thread only.
LEMMA LocalShape ==
    ASSUME ShapeInv, NEW t \in Thread, pc[t] \in {"idle", "allocate"},
           NEW n \in {"idle", "retain_load", "release_load", "allocate"},
           NEW o \in Object \cup {NULL}, NEW h \in Holder \cup {NULL},
           n # "idle" => o \in Object /\ Born(o) /\ h \in Owned(t) \cup {t},
           Continue(t, n, o, h), UNCHANGED <<shared, old, new, aborted>>
    PROVE  ShapeInv'
<1>1. /\ pc' \in [Thread -> PC]
      /\ obj' \in [Thread -> Object \cup {NULL}]
      /\ hold' \in [Thread -> Holder \cup {NULL}]
      /\ \A u \in Thread : (pc[u] = "idle" <=> obj[u] = NULL)'
      /\ pc'[t] = n
      /\ n # "idle" => obj'[t] = o /\ hold'[t] = h
      /\ \A u \in Thread \ {t} :
            pc'[u] = pc[u] /\ obj'[u] = obj[u] /\ hold'[u] = hold[u]
  BY ContinueFacts DEF ShapeInv, PC
<1>2. /\ mem' = mem /\ info' = info /\ finalized' = finalized /\ ref' = ref
      /\ old' = old /\ new' = new /\ aborted' = aborted
  BY DEF shared
<1>3. TypeOK' BY <1>1, <1>2 DEF ShapeInv, TypeOK
<1>4. CallOK(t)' BY <1>1, <1>2 DEF CallOK, Owned, Born
<1>5. new[t] = NULL
  BY DEF ShapeInv, ThreadOK, ConstructionOK, Retaining
<1>6. ConstructionOK(t)' BY <1>1, <1>2, <1>5 DEF ConstructionOK
<1>7. RefOK' BY <1>2 DEF ShapeInv, RefOK, Born
<1> QED
  BY <1>1, <1>2, <1>3, <1>4, <1>6, <1>7, QuietShape
  DEF Still, SameFlags, Destroying

\* The creation that gets no memory.
LEMMA AllocateFailsShape ==
    ASSUME ShapeInv, NEW t \in Thread, AllocateFails(t)
    PROVE  ShapeInv'
<1>1. pc[t] = "allocate" BY DEF AllocateFails
<1>2. obj[t] \in Object /\ hold[t] \in Holder BY <1>1, CallFacts
<1> QED BY <1>1, <1>2, LocalShape DEF AllocateFails, Goto

\* The exchange of the default allocator.
LEMMA ExchangeShape ==
    ASSUME ShapeInv, NEW t \in Thread, Exchange(t)
    PROVE  ShapeInv'
<1> DEFINE o == ref[Default]  n == IF o = NULL THEN "idle" ELSE "release_load"
<1>1. /\ pc[t] = "exchange" /\ Continue(t, n, o, t)
      /\ ref' = [ref EXCEPT ![Default] = ref[t], ![t] = o]
      /\ mem' = mem /\ info' = info /\ finalized' = finalized
      /\ old' = old /\ new' = new /\ aborted' = aborted
  BY DEF Exchange
<1>2. o \in Object \cup {NULL} /\ ref[t] \in Object \cup {NULL} /\ Born(o)
  BY DEF ShapeInv, TypeOK, RefOK
<1>3. n \in {"idle", "release_load"} /\ n \in PC /\ (n = "idle" <=> o = NULL)
  BY DEF PC
<1>4. /\ ref' \in [Holder -> Object \cup {NULL}]
      /\ ref'[Default] = ref[t] /\ ref'[t] = o
      /\ \A h \in Holder \ {Default, t} : ref'[h] = ref[h]
  BY <1>1, <1>2 DEF ShapeInv, TypeOK
<1>5. Born(ref[t]) /\ \A b \in Heap : ref'[b] = ref[b]
  BY <1>4 DEF ShapeInv, RefOK
<1>6. RefOK' BY <1>1, <1>2, <1>4, <1>5 DEF ShapeInv, RefOK, Born
<1> HIDE DEF o, n
<1>7. /\ pc' \in [Thread -> PC]
      /\ obj' \in [Thread -> Object \cup {NULL}]
      /\ hold' \in [Thread -> Holder \cup {NULL}]
      /\ \A u \in Thread : (pc[u] = "idle" <=> obj[u] = NULL)'
      /\ pc'[t] = n
      /\ n # "idle" => obj'[t] = o /\ hold'[t] = t
      /\ \A u \in Thread \ {t} :
            pc'[u] = pc[u] /\ obj'[u] = obj[u] /\ hold'[u] = hold[u]
  BY <1>1, <1>2, <1>3, ContinueFacts DEF ShapeInv
<1>8. TypeOK' BY <1>1, <1>4, <1>7 DEF ShapeInv, TypeOK
<1>9. CallOK(t)' BY <1>1, <1>2, <1>3, <1>7 DEF CallOK, Born
<1>10. new[t] = NULL BY <1>1 DEF ShapeInv, ThreadOK, ConstructionOK, Retaining
<1>11. ConstructionOK(t)' BY <1>1, <1>3, <1>7, <1>10 DEF ConstructionOK
<1> QED
  BY <1>1, <1>3, <1>5, <1>6, <1>7, <1>8, <1>9, <1>11, QuietShape
  DEF Still, SameFlags, Destroying

\* A reference handed from one thread to another.
LEMMA PassShape ==
    ASSUME ShapeInv, NEW t \in Thread, NEW u \in Thread, Pass(t, u)
    PROVE  ShapeInv'
<1>1. PICK v \in Owned(t), w \in Vacant(u) :
        ref[v] # NULL /\ ref' = [ref EXCEPT ![w] = ref[v], ![v] = NULL]
  BY DEF Pass
<1>2. v \in Var /\ w \in Var BY DEF Owned, Vacant
<1>3. ref[v] \in Object \cup {NULL} /\ Born(ref[v])
  BY <1>2 DEF ShapeInv, TypeOK, RefOK
<1>4. /\ ref' \in [Holder -> Object \cup {NULL}]
      /\ \A b \in Heap : ref'[b] = ref[b]
      /\ \A h \in Holder : ref'[h] \in {NULL, ref[h], ref[v]}
  BY <1>1, <1>2, <1>3 DEF ShapeInv, TypeOK
<1>5. /\ mem' = mem /\ info' = info /\ finalized' = finalized
      /\ pc' = pc /\ obj' = obj /\ hold' = hold
      /\ old' = old /\ new' = new /\ aborted' = aborted
      /\ pc[t] = "idle"
  BY DEF Pass, local
<1>6. TypeOK' BY <1>4, <1>5 DEF ShapeInv, TypeOK
<1>7. CallOK(t)' BY <1>5 DEF CallOK, Born, ShapeInv, ThreadOK
<1>8. RefOK' BY <1>3, <1>4, <1>5 DEF ShapeInv, RefOK, Born
<1>9. ConstructionOK(t)'
  BY <1>5 DEF ConstructionOK, Retaining, ShapeInv, ThreadOK
<1> QED
  BY <1>4, <1>5, <1>6, <1>7, <1>8, <1>9, QuietShape
  DEF Still, SameFlags, Destroying

-----------------------------------------------------------------------------
(* ShapeInv: steps that build or destroy an object.                        *)

\* The threads that do not move stay in shape if the block the moving thread
\* touches is not one they construct or destroy.
LEMMA OthersShape ==
    ASSUME ShapeInv, NEW t \in Thread,
           \A u \in Thread \ {t} : Still(u),
           \A b \in Heap : mem[b] \in {"object", "freed"} =>
                              mem'[b] \in {"object", "freed"},
           \A u \in Thread \ {t} : new[u] # NULL =>
              /\ mem'[new[u]] = "raw" /\ ref'[new[u]] = ref[new[u]]
              /\ new'[t] # new[u],
           \A u \in Thread \ {t} : Destroying(u) =>
              /\ mem'[obj[u]] = "object" /\ info'[obj[u]].deallocating
              /\ finalized'[obj[u]] = finalized[obj[u]]
              /\ Destroying(t)' => obj'[t] # obj[u]
    PROVE  \A u \in Thread \ {t} :
              CallOK(u)' /\ ConstructionOK(u)' /\ DestructionOK(u)'
<1> SUFFICES ASSUME NEW u \in Thread \ {t}
             PROVE  CallOK(u)' /\ ConstructionOK(u)' /\ DestructionOK(u)'
  OBVIOUS
<1>1. Born(obj[u])' BY DEF ShapeInv, ThreadOK, CallOK, Born, Still
<1>2. ASSUME new[u] # NULL
      PROVE  \A w \in Thread \ {u} : new'[w] # new[u]
  BY <1>2 DEF ShapeInv, ThreadOK, ConstructionOK, Still
<1>3. ASSUME Destroying(u)
      PROVE  \A w \in Thread \ {u} : Destroying(w)' => obj'[w] # obj[u]
  BY <1>3 DEF ShapeInv, ThreadOK, DestructionOK, Still, Destroying
<1> QED BY <1>1, <1>2, <1>3, StillThread

\* A block under construction belongs to the thread that constructs it.
LEMMA BuilderFacts ==
    ASSUME ShapeInv
    PROVE  \A u \in Thread : new[u] # NULL =>
              /\ new[u] \in Heap /\ mem[new[u]] = "raw"
              /\ \A w \in Thread \ {u} : new[w] # new[u]
BY DEF ShapeInv, TypeOK, ThreadOK, ConstructionOK

\* The release of the last reference makes the thread the one that destroys.
LEMMA ReleaseLastShape ==
    ASSUME ShapeInv, NEW t \in Thread, ReleaseLastCAS(t)
    PROVE  ShapeInv'
<1> DEFINE o == obj[t]  h == hold[t]
<1>1. pc[t] = "release_cas" /\ MayRelease(old[t]) /\ info[o] = old[t]
  BY DEF ReleaseLastCAS
<1>2. /\ o \in Heap /\ o # NULL /\ h \in Holder /\ h \notin Heap
      /\ h \in Owned(t) \cup {t} /\ info[o] \in Info /\ Born(o)
  BY <1>1, CallFacts, MortalFacts DEF MayRelease
<1>3. /\ ref' = [ref EXCEPT ![h] = NULL] /\ Continue(t, "finalize", o, h)
      /\ old' = [old EXCEPT ![t] = NoInfo]
      /\ info' = [info EXCEPT ![o] = Deallocating(info[o])]
      /\ mem' = mem /\ finalized' = finalized /\ new' = new
      /\ aborted' = aborted
  BY <1>1 DEF ReleaseLastCAS, ReleaseReturn, Goto
<1>4. /\ ref' \in [Holder -> Object \cup {NULL}]
      /\ \A b \in Heap : ref'[b] = ref[b]
      /\ \A g \in Holder : ref'[g] \in {NULL, ref[g]}
  BY <1>2, <1>3 DEF ShapeInv, TypeOK
<1>5. old' \in [Thread -> Info] /\ \A u \in Thread \ {t} : old'[u] = old[u]
  BY <1>3, NoInfoType DEF ShapeInv, TypeOK
<1>6. /\ info' \in [Object -> Info]
      /\ info'[o] = Deallocating(info[o])
      /\ \A b \in Object \ {o} : info'[b] = info[b]
  BY <1>2, <1>3, MarkedInfo DEF ShapeInv, TypeOK
<1>7. /\ mem[o] = "object" /\ finalized[o] = 0
      /\ ~info[o].deallocating /\ ~info[o].deallocated
  BY <1>1, <1>2 DEF MayRelease, Dead, Born, ShapeInv, HeapOK, BlockOK
<1> HIDE DEF o, h
<1>8. /\ pc' \in [Thread -> PC]
      /\ obj' \in [Thread -> Object \cup {NULL}]
      /\ hold' \in [Thread -> Holder \cup {NULL}]
      /\ \A u \in Thread : (pc[u] = "idle" <=> obj[u] = NULL)'
      /\ pc'[t] = "finalize" /\ obj'[t] = o /\ hold'[t] = h
      /\ \A u \in Thread \ {t} :
            pc'[u] = pc[u] /\ obj'[u] = obj[u] /\ hold'[u] = hold[u]
  BY <1>2, <1>3, ContinueFacts DEF ShapeInv, PC
<1>9. TypeOK' BY <1>3, <1>4, <1>5, <1>6, <1>8 DEF ShapeInv, TypeOK
<1>10. RefOK' BY <1>3, <1>4 DEF ShapeInv, RefOK, Born
<1>11. StaticOK' BY <1>2, <1>6 DEF ShapeInv, StaticOK
<1>12. ASSUME NEW b \in Heap PROVE BlockOK(b)'
  <2>1. CASE b # o
    BY <2>1, <1>3, <1>4, <1>6 DEF ShapeInv, HeapOK, BlockOK
  <2>2. CASE b = o
    <3>1. BlockOK(o) BY <1>2 DEF ShapeInv, HeapOK
    <3> QED BY <2>2, <3>1, <1>2, <1>3, <1>4, <1>6, <1>7, MarkedInfo DEF BlockOK
  <2> QED BY <2>1, <2>2
<1>13. ASSUME NEW u \in Thread \ {t}, Destroying(u)
       PROVE  /\ obj[u] # o /\ obj[u] \in Heap
              /\ mem[obj[u]] = "object" /\ info[obj[u]].deallocating
  BY <1>13, <1>7 DEF ShapeInv, ThreadOK, DestructionOK
<1>14. \A u \in Thread \ {t} :
         CallOK(u)' /\ ConstructionOK(u)' /\ DestructionOK(u)'
  <2>1. \A u \in Thread \ {t} : new[u] # NULL =>
          /\ mem'[new[u]] = "raw" /\ ref'[new[u]] = ref[new[u]]
          /\ new'[t] # new[u]
    BY <1>3, <1>4, BuilderFacts
  <2>2. \A u \in Thread \ {t} : Still(u) BY <1>3, <1>5, <1>8 DEF Still
  <2> QED BY <2>1, <2>2, <1>3, <1>6, <1>8, <1>13, OthersShape
<1>15. CallOK(t)'
  BY <1>2, <1>3, <1>8 DEF CallOK, Born, Owned
<1>16. ConstructionOK(t)'
  BY <1>1, <1>3, <1>8 DEF ConstructionOK, Retaining, ShapeInv, ThreadOK
<1>17. DestructionOK(t)'
  BY <1>2, <1>3, <1>6, <1>7, <1>8, <1>13, MarkedInfo DEF DestructionOK, Destroying
<1> QED BY <1>9, <1>10, <1>11, <1>12, <1>14, <1>15, <1>16, <1>17
        DEF ShapeInv, ThreadOK, HeapOK

\* The thread that destroys an object does so alone.
LEMMA DestroyerFacts ==
    ASSUME ShapeInv, NEW t \in Thread, Destroying(t)
    PROVE  /\ obj[t] \in Heap /\ mem[obj[t]] = "object"
           /\ info[obj[t]].deallocating
           /\ finalized[obj[t]] = IF pc[t] = "finalize" THEN 0 ELSE 1
           /\ new[t] = NULL
           /\ \A u \in Thread \ {t} : new[u] # obj[t]
           /\ \A u \in Thread \ {t} : Destroying(u) => obj[u] # obj[t]
BY DEF ShapeInv, ThreadOK, DestructionOK, Destroying, ConstructionOK, Retaining

\* The call of the class's finalize.
LEMMA FinalizeShape ==
    ASSUME ShapeInv, NEW t \in Thread, Finalize(t)
    PROVE  ShapeInv'
<1> DEFINE o == obj[t]
<1>1. pc[t] = "finalize" /\ Destroying(t) BY DEF Finalize, Destroying
<1>2. /\ o \in Heap /\ o # NULL /\ hold[t] \in Holder
      /\ hold[t] \in Owned(t) \cup {t} /\ Born(o)
  BY <1>1, CallFacts, DestroyerFacts
<1>3. /\ finalized' = [finalized EXCEPT ![o] = finalized[o] + 1]
      /\ Continue(t, "mark", o, hold[t])
      /\ mem' = mem /\ info' = info /\ ref' = ref /\ old' = old
      /\ new' = new /\ aborted' = aborted
  BY DEF Finalize, Goto
<1>4. /\ mem[o] = "object" /\ info[o].deallocating
      /\ finalized[o] = 0 /\ new[t] = NULL
      /\ \A u \in Thread \ {t} : Destroying(u) => obj[u] # o
  BY <1>1, DestroyerFacts
<1>5. /\ finalized' \in [Heap -> Nat] /\ finalized'[o] = 1
      /\ \A b \in Heap \ {o} : finalized'[b] = finalized[b]
  <2>1. finalized \in [Heap -> Nat] BY DEF ShapeInv, TypeOK
  <2>2. finalized' = [finalized EXCEPT ![o] = 1] BY <1>3, <1>4
  <2> QED BY <2>1, <2>2, <1>2
<1> HIDE DEF o
<1>6. /\ pc' \in [Thread -> PC]
      /\ obj' \in [Thread -> Object \cup {NULL}]
      /\ hold' \in [Thread -> Holder \cup {NULL}]
      /\ \A u \in Thread : (pc[u] = "idle" <=> obj[u] = NULL)'
      /\ pc'[t] = "mark" /\ obj'[t] = o /\ hold'[t] = hold[t]
      /\ \A u \in Thread \ {t} :
            pc'[u] = pc[u] /\ obj'[u] = obj[u] /\ hold'[u] = hold[u]
  BY <1>2, <1>3, ContinueFacts DEF ShapeInv, PC
<1>7. TypeOK' BY <1>3, <1>5, <1>6 DEF ShapeInv, TypeOK
<1>8. RefOK' BY <1>3 DEF ShapeInv, RefOK, Born
<1>9. StaticOK' BY <1>3 DEF ShapeInv, StaticOK
<1>10. ASSUME NEW b \in Heap PROVE BlockOK(b)'
  BY <1>2, <1>3, <1>4, <1>5 DEF ShapeInv, HeapOK, BlockOK
<1>11. \A u \in Thread \ {t} :
         CallOK(u)' /\ ConstructionOK(u)' /\ DestructionOK(u)'
  <2>1. \A u \in Thread \ {t} : new[u] # NULL =>
          /\ mem'[new[u]] = "raw" /\ ref'[new[u]] = ref[new[u]]
          /\ new'[t] # new[u]
    BY <1>3, <1>4, BuilderFacts
  <2>2. \A u \in Thread \ {t} : Still(u) BY <1>3, <1>6 DEF Still
  <2>3. \A u \in Thread \ {t} : Destroying(u) =>
          /\ mem'[obj[u]] = "object" /\ info'[obj[u]].deallocating
          /\ finalized'[obj[u]] = finalized[obj[u]] /\ obj'[t] # obj[u]
    BY <1>3, <1>4, <1>5, <1>6 DEF ShapeInv, ThreadOK, DestructionOK
  <2> QED BY <2>1, <2>2, <2>3, <1>3, OthersShape
<1>12. CallOK(t)' BY <1>2, <1>3, <1>6 DEF CallOK, Born, Owned
<1>13. ConstructionOK(t)' BY <1>3, <1>4, <1>6 DEF ConstructionOK
<1>14. DestructionOK(t)'
  BY <1>2, <1>3, <1>4, <1>5, <1>6 DEF DestructionOK, Destroying
<1> QED BY <1>7, <1>8, <1>9, <1>10, <1>11, <1>12, <1>13, <1>14
        DEF ShapeInv, ThreadOK, HeapOK

\* The object is marked deallocated.
LEMMA MarkDeallocatedShape ==
    ASSUME ShapeInv, NEW t \in Thread, MarkDeallocated(t)
    PROVE  ShapeInv'
<1> DEFINE o == obj[t]
<1>1. pc[t] = "mark" /\ Destroying(t) BY DEF MarkDeallocated, Destroying
<1>2. /\ o \in Heap /\ o # NULL /\ hold[t] \in Holder
      /\ hold[t] \in Owned(t) \cup {t} /\ Born(o) /\ info[o] \in Info
  BY <1>1, CallFacts, DestroyerFacts
<1>3. /\ info' = [info EXCEPT ![o] = Deallocated(info[o])]
      /\ Continue(t, "free", o, hold[t])
      /\ mem' = mem /\ finalized' = finalized /\ ref' = ref /\ old' = old
      /\ new' = new /\ aborted' = aborted
  BY DEF MarkDeallocated, Goto
<1>4. /\ mem[o] = "object" /\ info[o].deallocating
      /\ finalized[o] = 1 /\ new[t] = NULL
      /\ \A u \in Thread \ {t} : Destroying(u) => obj[u] # o
  BY <1>1, DestroyerFacts
<1>5. /\ info' \in [Object -> Info] /\ info'[o] = Deallocated(info[o])
      /\ \A b \in Object \ {o} : info'[b] = info[b]
  BY <1>2, <1>3, MarkedInfo DEF ShapeInv, TypeOK
<1> HIDE DEF o
<1>6. /\ pc' \in [Thread -> PC]
      /\ obj' \in [Thread -> Object \cup {NULL}]
      /\ hold' \in [Thread -> Holder \cup {NULL}]
      /\ \A u \in Thread : (pc[u] = "idle" <=> obj[u] = NULL)'
      /\ pc'[t] = "free" /\ obj'[t] = o /\ hold'[t] = hold[t]
      /\ \A u \in Thread \ {t} :
            pc'[u] = pc[u] /\ obj'[u] = obj[u] /\ hold'[u] = hold[u]
  BY <1>2, <1>3, ContinueFacts DEF ShapeInv, PC
<1>7. TypeOK' BY <1>3, <1>5, <1>6 DEF ShapeInv, TypeOK
<1>8. RefOK' BY <1>3 DEF ShapeInv, RefOK, Born
<1>9. StaticOK' BY <1>2, <1>5 DEF ShapeInv, StaticOK
<1>10. ASSUME NEW b \in Heap PROVE BlockOK(b)'
  <2>1. CASE b # o
    BY <2>1, <1>3, <1>5 DEF ShapeInv, HeapOK, BlockOK
  <2>2. CASE b = o
    <3>1. BlockOK(o) BY <1>2 DEF ShapeInv, HeapOK
    <3> QED BY <2>2, <3>1, <1>2, <1>3, <1>4, <1>5, MarkedInfo DEF BlockOK
  <2> QED BY <2>1, <2>2
<1>11. \A u \in Thread \ {t} :
         CallOK(u)' /\ ConstructionOK(u)' /\ DestructionOK(u)'
  <2>1. \A u \in Thread \ {t} : new[u] # NULL =>
          /\ mem'[new[u]] = "raw" /\ ref'[new[u]] = ref[new[u]]
          /\ new'[t] # new[u]
    BY <1>3, <1>4, BuilderFacts
  <2>2. \A u \in Thread \ {t} : Still(u) BY <1>3, <1>6 DEF Still
  <2>3. \A u \in Thread \ {t} : Destroying(u) =>
          /\ mem'[obj[u]] = "object" /\ info'[obj[u]].deallocating
          /\ finalized'[obj[u]] = finalized[obj[u]] /\ obj'[t] # obj[u]
    BY <1>3, <1>4, <1>5, <1>6 DEF ShapeInv, ThreadOK, DestructionOK
  <2> QED BY <2>1, <2>2, <2>3, <1>3, OthersShape
<1>12. CallOK(t)' BY <1>2, <1>3, <1>6 DEF CallOK, Born, Owned
<1>13. ConstructionOK(t)' BY <1>3, <1>4, <1>6 DEF ConstructionOK
<1>14. DestructionOK(t)'
  BY <1>2, <1>3, <1>4, <1>5, <1>6, MarkedInfo DEF DestructionOK, Destroying
<1> QED BY <1>7, <1>8, <1>9, <1>10, <1>11, <1>12, <1>13, <1>14
        DEF ShapeInv, ThreadOK, HeapOK

\* The block goes back to its allocator, whose reference the call now holds.
LEMMA FreeShape ==
    ASSUME ShapeInv, NEW t \in Thread, Free(t)
    PROVE  ShapeInv'
<1> DEFINE o == obj[t]
           a == IF info[o].usesDefault THEN NULL ELSE ref[o]
           n == IF a = NULL THEN "idle" ELSE "release_load"
<1>1. pc[t] = "free" /\ Destroying(t) BY DEF Free, Destroying
<1>2. o \in Heap /\ o # NULL /\ hold[t] \in Holder
  BY <1>1, CallFacts, DestroyerFacts
<1>3. /\ mem[o] = "object" /\ info[o].deallocating
      /\ finalized[o] = 1 /\ new[t] = NULL
      /\ \A u \in Thread \ {t} : Destroying(u) => obj[u] # o
  BY <1>1, DestroyerFacts
<1>4. a = NULL <=> info[o].usesDefault
  BY <1>2, <1>3 DEF ShapeInv, HeapOK, BlockOK
<1>5. a \in Object \cup {NULL} /\ Born(a)
  BY <1>2 DEF ShapeInv, TypeOK, RefOK, Born
<1>6. /\ mem' = [mem EXCEPT ![o] = "freed"]
      /\ info' = info /\ finalized' = finalized /\ old' = old
      /\ new' = new /\ aborted' = aborted
  BY DEF Free
<1>7. /\ \A h \in Holder \ {o, t} : ref'[h] = ref[h]
      /\ ref'[t] \in {ref[t], a}
      /\ ref'[o] \in {ref[o], NULL}
      /\ ref' \in [Holder -> Object \cup {NULL}]
  <2>1. CASE a = NULL
    BY <2>1, <1>2, <1>4 DEF Free, ShapeInv, TypeOK
  <2>2. CASE a # NULL
    <3>1. ref' = [ref EXCEPT ![t] = a, ![o] = NULL] BY <2>2, <1>4 DEF Free
    <3>2. ref \in [Holder -> Object \cup {NULL}] BY DEF ShapeInv, TypeOK
    <3>3. t \in Holder /\ o \in Holder BY <1>2 DEF Holder
    <3>4. a \in Object \cup {NULL} BY <1>5
    <3> HIDE DEF o, a
    <3> QED BY <3>1, <3>2, <3>3, <3>4
  <2> QED BY <2>1, <2>2
<1>8. Continue(t, n, IF a = NULL THEN o ELSE a, IF a = NULL THEN hold[t] ELSE t)
  BY <1>4 DEF Free, Goto
<1>9. /\ mem' \in [Heap -> {"unused", "raw", "object", "freed"}]
      /\ mem'[o] = "freed" /\ \A b \in Heap \ {o} : mem'[b] = mem[b]
  BY <1>2, <1>6 DEF ShapeInv, TypeOK
<1> HIDE DEF o, a
<1>10. /\ pc' \in [Thread -> PC]
       /\ obj' \in [Thread -> Object \cup {NULL}]
       /\ hold' \in [Thread -> Holder \cup {NULL}]
       /\ \A u \in Thread : (pc[u] = "idle" <=> obj[u] = NULL)'
       /\ pc'[t] = n
       /\ n # "idle" => obj'[t] = a /\ hold'[t] = t
       /\ \A u \in Thread \ {t} :
             pc'[u] = pc[u] /\ obj'[u] = obj[u] /\ hold'[u] = hold[u]
  BY <1>2, <1>5, <1>8, ContinueFacts DEF ShapeInv, PC
<1>11. TypeOK' BY <1>6, <1>7, <1>9, <1>10 DEF ShapeInv, TypeOK
<1>12. \A x : Born(x) => Born(x)' BY <1>9 DEF Born
<1>13. RefOK'
  <2>1. \A h \in Holder : Born(ref'[h])
    BY <1>5, <1>7, <1>2 DEF ShapeInv, RefOK, Born
  <2> QED BY <2>1, <1>9 DEF RefOK, Born
<1>14. StaticOK' BY <1>6 DEF ShapeInv, StaticOK
<1>15. ASSUME NEW b \in Heap PROVE BlockOK(b)'
  BY <1>2, <1>3, <1>6, <1>7, <1>9 DEF ShapeInv, HeapOK, BlockOK
<1>16. \A u \in Thread \ {t} :
         CallOK(u)' /\ ConstructionOK(u)' /\ DestructionOK(u)'
  <2>1. \A u \in Thread \ {t} : new[u] # NULL =>
          /\ mem'[new[u]] = "raw" /\ ref'[new[u]] = ref[new[u]]
          /\ new'[t] # new[u]
    BY <1>3, <1>6, <1>7, <1>9, BuilderFacts
  <2>2. \A u \in Thread \ {t} : Still(u) BY <1>6, <1>10 DEF Still
  <2>3. \A u \in Thread \ {t} : Destroying(u) =>
          /\ mem'[obj[u]] = "object" /\ info'[obj[u]].deallocating
          /\ finalized'[obj[u]] = finalized[obj[u]]
    BY <1>3, <1>6, <1>9 DEF ShapeInv, ThreadOK, DestructionOK
  <2>4. ~Destroying(t)' BY <1>10 DEF Destroying
  <2> QED BY <2>1, <2>2, <2>3, <2>4, <1>9, OthersShape
<1>17. CallOK(t)' BY <1>5, <1>9, <1>10 DEF CallOK, Born
<1>18. ConstructionOK(t)' BY <1>3, <1>6, <1>10 DEF ConstructionOK
<1>19. DestructionOK(t)' BY <1>10 DEF DestructionOK, Destroying
<1> QED BY <1>11, <1>13, <1>14, <1>15, <1>16, <1>17, <1>18, <1>19
        DEF ShapeInv, ThreadOK, HeapOK

\* A block is taken from the allocator.
LEMMA AllocateShape ==
    ASSUME ShapeInv, NEW t \in Thread, Allocate(t)
    PROVE  ShapeInv'
<1> DEFINE a == obj[t]
           n == IF a = SystemDefault THEN "publish" ELSE "retain_load"
<1>1. PICK o \in Heap : /\ mem[o] = "unused"
                        /\ mem' = [mem EXCEPT ![o] = "raw"]
                        /\ new' = [new EXCEPT ![t] = o]
  BY DEF Allocate
<1>2. /\ pc[t] = "allocate" /\ Continue(t, n, a, hold[t])
      /\ info' = info /\ finalized' = finalized /\ ref' = ref /\ old' = old
      /\ aborted' = aborted
  BY DEF Allocate, Goto
<1>3. /\ a \in Object /\ a # NULL /\ Born(a)
      /\ hold[t] \in Holder /\ hold[t] \in Owned(t) \cup {t}
  BY <1>2, CallFacts
<1>4. n \in {"publish", "retain_load"} /\ n \in PC \ {"idle"}
      /\ (n = "publish" <=> a = SystemDefault)
  BY DEF PC
<1>5. ref[o] = NULL /\ BlockOK(o) /\ ~info[o].deallocating
  BY <1>1 DEF ShapeInv, HeapOK, BlockOK
<1>6. /\ mem' \in [Heap -> {"unused", "raw", "object", "freed"}]
      /\ mem'[o] = "raw" /\ \A b \in Heap \ {o} : mem'[b] = mem[b]
      /\ new' \in [Thread -> Heap \cup {NULL}]
      /\ new'[t] = o /\ \A u \in Thread \ {t} : new'[u] = new[u]
  BY <1>1 DEF ShapeInv, TypeOK
<1> HIDE DEF a, n
<1>7. /\ pc' \in [Thread -> PC]
      /\ obj' \in [Thread -> Object \cup {NULL}]
      /\ hold' \in [Thread -> Holder \cup {NULL}]
      /\ \A u \in Thread : (pc[u] = "idle" <=> obj[u] = NULL)'
      /\ pc'[t] = n /\ obj'[t] = a /\ hold'[t] = hold[t]
      /\ \A u \in Thread \ {t} :
            pc'[u] = pc[u] /\ obj'[u] = obj[u] /\ hold'[u] = hold[u]
  BY <1>2, <1>3, <1>4, ContinueFacts DEF ShapeInv
<1>8. TypeOK' BY <1>2, <1>6, <1>7 DEF ShapeInv, TypeOK
<1>9. RefOK' BY <1>1, <1>2, <1>6 DEF ShapeInv, RefOK, Born
<1>10. StaticOK' BY <1>2 DEF ShapeInv, StaticOK
<1>11. ASSUME NEW b \in Heap PROVE BlockOK(b)'
  <2>1. CASE b # o BY <2>1, <1>2, <1>6 DEF ShapeInv, HeapOK, BlockOK
  <2>2. CASE b = o BY <2>2, <1>1, <1>2, <1>5, <1>6 DEF BlockOK
  <2> QED BY <2>1, <2>2
<1>12. \A u \in Thread \ {t} : new[u] # NULL => new[u] # o
  BY <1>1, BuilderFacts
<1>13. \A u \in Thread \ {t} :
         CallOK(u)' /\ ConstructionOK(u)' /\ DestructionOK(u)'
  <2>1. \A u \in Thread \ {t} : new[u] # NULL =>
          /\ mem'[new[u]] = "raw" /\ ref'[new[u]] = ref[new[u]]
          /\ new'[t] # new[u]
    BY <1>2, <1>6, <1>12, BuilderFacts
  <2>2. \A u \in Thread \ {t} : Still(u) BY <1>2, <1>6, <1>7 DEF Still
  <2>3. \A u \in Thread \ {t} : Destroying(u) =>
          /\ mem'[obj[u]] = "object" /\ info'[obj[u]].deallocating
          /\ finalized'[obj[u]] = finalized[obj[u]]
    BY <1>1, <1>2, <1>6 DEF ShapeInv, ThreadOK, DestructionOK
  <2>4. ~Destroying(t)' BY <1>4, <1>7 DEF Destroying
  <2>5. \A b \in Heap : mem[b] \in {"object", "freed"} =>
                           mem'[b] \in {"object", "freed"}
    BY <1>1, <1>6
  <2> QED BY <2>1, <2>2, <2>3, <2>4, <2>5, OthersShape
<1>14. CallOK(t)' BY <1>1, <1>3, <1>4, <1>6, <1>7 DEF CallOK, Born, Owned
<1>15. ConstructionOK(t)'
  <2>1. Retaining(t)' => a # SystemDefault BY <1>4, <1>7 DEF Retaining
  <2>2. Retaining(t)' \/ pc'[t] = "publish" BY <1>4, <1>7 DEF Retaining
  <2>3. pc'[t] = "publish" => a = SystemDefault BY <1>4, <1>7
  <2>4. \A u \in Thread \ {t} : new'[u] # o BY <1>6, <1>12
  <2> QED BY <2>1, <2>2, <2>3, <2>4, <1>2, <1>5, <1>6, <1>7 DEF ConstructionOK
<1>16. DestructionOK(t)' BY <1>4, <1>7 DEF DestructionOK, Destroying
<1> QED BY <1>8, <1>9, <1>10, <1>11, <1>13, <1>14, <1>15, <1>16
        DEF ShapeInv, ThreadOK, HeapOK

\* The block becomes an object and its creator's reference to it is the first.
LEMMA PublishShape ==
    ASSUME ShapeInv, NEW t \in Thread, Publish(t)
    PROVE  ShapeInv'
<1> DEFINE o == new[t]
           i == InfoMake(1, obj[t] = SystemDefault, FALSE)
<1>1. /\ pc[t] = "publish" /\ Continue(t, "idle", obj[t], hold[t])
      /\ info' = [info EXCEPT ![o] = i]
      /\ mem' = [mem EXCEPT ![o] = "object"]
      /\ ref' = [ref EXCEPT ![hold[t]] = o]
      /\ new' = [new EXCEPT ![t] = NULL]
      /\ finalized' = finalized /\ old' = old /\ aborted' = aborted
  BY DEF Publish, Goto
<1>2. /\ o \in Heap /\ mem[o] = "raw"
      /\ \A u \in Thread \ {t} : new[u] # o
      /\ obj[t] = SystemDefault <=> ref[o] = NULL
  BY <1>1, BuilderFacts DEF ShapeInv, ThreadOK, ConstructionOK
<1>3. obj[t] \in Object /\ hold[t] \in Holder /\ hold[t] \notin Heap
  BY <1>1, CallFacts
<1>4. /\ i \in Info /\ ~i.immortal /\ ~i.deallocating /\ ~i.deallocated
      /\ i.usesDefault <=> obj[t] = SystemDefault
  BY NewInfo
<1>5. finalized[o] = 0 BY <1>2 DEF ShapeInv, HeapOK, BlockOK
<1>6. /\ mem' \in [Heap -> {"unused", "raw", "object", "freed"}]
      /\ mem'[o] = "object" /\ \A b \in Heap \ {o} : mem'[b] = mem[b]
  BY <1>1, <1>2 DEF ShapeInv, TypeOK
<1>7. /\ info' \in [Object -> Info]
      /\ info'[o] = i /\ \A b \in Object \ {o} : info'[b] = info[b]
  BY <1>1, <1>2, <1>4 DEF ShapeInv, TypeOK
<1>8. /\ ref' \in [Holder -> Object \cup {NULL}]
      /\ \A h \in Holder : ref'[h] \in {ref[h], o}
      /\ \A b \in Heap : ref'[b] = ref[b]
  BY <1>1, <1>2, <1>3 DEF ShapeInv, TypeOK
<1>9. /\ new' \in [Thread -> Heap \cup {NULL}]
      /\ new'[t] = NULL /\ \A u \in Thread \ {t} : new'[u] = new[u]
  BY <1>1 DEF ShapeInv, TypeOK
<1> HIDE DEF o, i
<1>10. /\ pc' \in [Thread -> PC]
       /\ obj' \in [Thread -> Object \cup {NULL}]
       /\ hold' \in [Thread -> Holder \cup {NULL}]
       /\ \A u \in Thread : (pc[u] = "idle" <=> obj[u] = NULL)'
       /\ pc'[t] = "idle"
       /\ \A u \in Thread \ {t} :
             pc'[u] = pc[u] /\ obj'[u] = obj[u] /\ hold'[u] = hold[u]
  BY <1>1, <1>3, ContinueFacts DEF ShapeInv, PC
<1>11. TypeOK' BY <1>1, <1>6, <1>7, <1>8, <1>9, <1>10 DEF ShapeInv, TypeOK
<1>12. RefOK' BY <1>6, <1>8 DEF ShapeInv, RefOK, Born
<1>13. StaticOK' BY <1>2, <1>7 DEF ShapeInv, StaticOK
<1>14. ASSUME NEW b \in Heap PROVE BlockOK(b)'
  <2>1. CASE b # o
    BY <2>1, <1>1, <1>6, <1>7, <1>8 DEF ShapeInv, HeapOK, BlockOK
  <2>2. CASE b = o
    BY <2>2, <1>1, <1>2, <1>4, <1>5, <1>6, <1>7, <1>8 DEF BlockOK
  <2> QED BY <2>1, <2>2
<1>15. \A u \in Thread \ {t} :
         CallOK(u)' /\ ConstructionOK(u)' /\ DestructionOK(u)'
  <2>1. \A u \in Thread \ {t} : new[u] # NULL =>
          /\ mem'[new[u]] = "raw" /\ ref'[new[u]] = ref[new[u]]
          /\ new'[t] # new[u]
    BY <1>2, <1>6, <1>8, <1>9, BuilderFacts
  <2>2. \A u \in Thread \ {t} : Still(u) BY <1>1, <1>9, <1>10 DEF Still
  <2>3. \A u \in Thread \ {t} : Destroying(u) =>
          /\ mem'[obj[u]] = "object" /\ info'[obj[u]].deallocating
          /\ finalized'[obj[u]] = finalized[obj[u]]
    BY <1>1, <1>2, <1>6, <1>7 DEF ShapeInv, ThreadOK, DestructionOK
  <2>4. ~Destroying(t)' BY <1>10 DEF Destroying
  <2> QED BY <2>1, <2>2, <2>3, <2>4, <1>6, OthersShape
<1>16. CallOK(t)' BY <1>10 DEF CallOK, Born
<1>17. ConstructionOK(t)' BY <1>9, <1>10 DEF ConstructionOK
<1>18. DestructionOK(t)' BY <1>10 DEF DestructionOK, Destroying
<1> QED BY <1>11, <1>12, <1>13, <1>14, <1>15, <1>16, <1>17, <1>18
        DEF ShapeInv, ThreadOK, HeapOK

-----------------------------------------------------------------------------
(* ShapeInv: every step.                                                   *)

\* The calls of a client, whether or not it holds what the call is about.
LEMMA CallShape ==
    ASSUME ShapeInv, NEW t \in Thread,
           \/ CallRetain(t) \/ CallRelease(t) \/ CallCreate(t)
           \/ CallSetDefault(t) \/ CallCreateDefault(t) \/ CallBorrowed(t)
    PROVE  ShapeInv'
<1>1. ASSUME NEW n \in {"retain_load", "release_load", "allocate"},
             NEW o \in Object, Born(o), NEW h \in Owned(t) \cup {t},
             Call(t, n, o, h)
      PROVE  ShapeInv'
  BY <1>1, LocalShape DEF Call, Owned
<1>2. \A v \in Owned(t) : ref[v] # NULL => ref[v] \in Object /\ Born(ref[v])
  BY DEF ShapeInv, TypeOK, RefOK, Owned
<1>3. \A a \in Usable(t) : a \in Object /\ Born(a)
  <2> SUFFICES ASSUME NEW a \in Usable(t) PROVE a \in Object /\ Born(a)
    OBVIOUS
  <2>1. CASE a \in Static BY <2>1 DEF Born
  <2>2. CASE a \notin Static
    <3>1. PICK v \in Owned(t) : ref[v] = a /\ a \in Heap
      BY <2>2, ConstantsTyped DEF Usable, Owns
    <3> QED BY <3>1, <1>2
  <2> QED BY <2>1, <2>2
<1>4. GetDefault \in Object /\ Born(GetDefault)
  <2>1. /\ ref[Default] = NULL \/ ref[Default] \in Object
        /\ Born(ref[Default])
    BY DEF ShapeInv, TypeOK, RefOK
  <2> QED BY <2>1 DEF GetDefault, Born
<1>5. Vacant(t) \subseteq Owned(t) BY DEF Vacant
<1>6. CASE CallRetain(t) BY <1>1, <1>2, <1>5, <1>6 DEF CallRetain
<1>7. CASE CallRelease(t) BY <1>1, <1>2, <1>7 DEF CallRelease
<1>8. CASE CallCreate(t) BY <1>1, <1>3, <1>5, <1>8 DEF CallCreate
<1>9. CASE CallSetDefault(t) BY <1>1, <1>3, <1>9 DEF CallSetDefault
<1>10. CASE CallCreateDefault(t)
  BY <1>1, <1>4, <1>5, <1>10 DEF CallCreateDefault
<1>11. CASE CallBorrowed(t)
  <2>1. \A o \in Heap : Readable(o) => Born(o) BY DEF Readable, Born
  <2> QED BY <2>1, <1>1, <1>5, <1>11 DEF CallBorrowed
<1> QED BY <1>6, <1>7, <1>8, <1>9, <1>10, <1>11

\* An abort changes nothing but the fact that the process has stopped.
LEMMA AbortShape ==
    ASSUME ShapeInv, UNCHANGED <<shared, local>>,
           aborted' \in {"retain of a deallocating object",
                         "retain-count overflow",
                         "release of a deallocating object", "over-release"}
    PROVE  ShapeInv'
<1>1. /\ mem' = mem /\ info' = info /\ finalized' = finalized /\ ref' = ref
      /\ pc' = pc /\ obj' = obj /\ hold' = hold /\ old' = old /\ new' = new
  BY DEF shared, local
<1>2. TypeOK' BY <1>1 DEF ShapeInv, TypeOK
<1>3. RefOK' /\ StaticOK' BY <1>1 DEF ShapeInv, RefOK, Born, StaticOK
<1>4. HeapOK' BY <1>1 DEF ShapeInv, HeapOK, BlockOK
<1>5. ASSUME NEW t \in Thread
      PROVE  CallOK(t)' /\ ConstructionOK(t)' /\ DestructionOK(t)'
  <2>1. CallOK(t) /\ ConstructionOK(t) /\ DestructionOK(t)
    BY DEF ShapeInv, ThreadOK
  <2> QED BY <2>1, <1>1
          DEF CallOK, ConstructionOK, DestructionOK, Born, Owned, Retaining,
              Destroying
<1> QED BY <1>2, <1>3, <1>4, <1>5 DEF ShapeInv, ThreadOK

\* The steps of CFRetain.
LEMMA RetainShape ==
    ASSUME ShapeInv, NEW t \in Thread, Retain(t)
    PROVE  ShapeInv'
<1>1. CASE RetainLoad(t) BY <1>1, LoadShape DEF RetainLoad
<1>2. CASE RetainImmortal(t)
  BY <1>2, RetainReturnShape DEF RetainImmortal, SameFlags, ShapeInv, TypeOK
<1>3. CASE RetainCAS(t)
  <2>1. /\ pc[t] = "retain_cas" /\ MayRetain(old[t]) /\ info[obj[t]] = old[t]
        /\ info' = [info EXCEPT ![obj[t]] = Incremented(info[obj[t]])]
        /\ RetainReturn(t)
    BY <1>3 DEF RetainCAS
  <2>2. obj[t] \in Object /\ info[obj[t]] \in Info BY <2>1, CallFacts
  <2>3. /\ Incremented(info[obj[t]]) \in Info
        /\ SameFlags(info[obj[t]], Incremented(info[obj[t]]))
    BY <2>1, <2>2, IncrementedInfo DEF MayRetain
  <2>4. /\ info' \in [Object -> Info]
        /\ \A o \in Object : SameFlags(info[o], info'[o])
    BY <2>1, <2>2, <2>3 DEF ShapeInv, TypeOK, SameFlags
  <2> QED BY <2>1, <2>4, RetainReturnShape
<1>4. CASE RetainReload(t) BY <1>4, LoadShape DEF RetainReload
<1>5. CASE RetainAbort(t) BY <1>5, AbortShape DEF RetainAbort, Abort
<1> QED BY <1>1, <1>2, <1>3, <1>4, <1>5 DEF Retain

\* The steps of CFRelease.
LEMMA ReleaseShape ==
    ASSUME ShapeInv, NEW t \in Thread, Release(t)
    PROVE  ShapeInv'
<1>1. CASE ReleaseLoad(t) BY <1>1, LoadShape DEF ReleaseLoad
<1>2. CASE ReleaseImmortal(t)
  BY <1>2, ReleaseReturnShape DEF ReleaseImmortal, SameFlags, ShapeInv, TypeOK
<1>3. CASE ReleaseCAS(t)
  <2>1. /\ pc[t] = "release_cas" /\ MayRelease(old[t]) /\ info[obj[t]] = old[t]
        /\ info' = [info EXCEPT ![obj[t]] = Decremented(info[obj[t]])]
        /\ ReleaseReturn(t, "idle")
    BY <1>3 DEF ReleaseCAS
  <2>2. obj[t] \in Object /\ info[obj[t]] \in Info BY <2>1, CallFacts
  <2>3. /\ Decremented(info[obj[t]]) \in Info
        /\ SameFlags(info[obj[t]], Decremented(info[obj[t]]))
    BY <2>1, <2>2, DecrementedInfo DEF MayRelease
  <2>4. /\ info' \in [Object -> Info]
        /\ \A o \in Object : SameFlags(info[o], info'[o])
    BY <2>1, <2>2, <2>3 DEF ShapeInv, TypeOK, SameFlags
  <2> QED BY <2>1, <2>4, ReleaseReturnShape
<1>4. CASE ReleaseLastCAS(t) BY <1>4, ReleaseLastShape
<1>5. CASE ReleaseReload(t) BY <1>5, LoadShape DEF ReleaseReload
<1>6. CASE ReleaseAbort(t) BY <1>6, AbortShape DEF ReleaseAbort, Abort
<1>7. CASE Finalize(t) BY <1>7, FinalizeShape
<1>8. CASE MarkDeallocated(t) BY <1>8, MarkDeallocatedShape
<1>9. CASE Free(t) BY <1>9, FreeShape
<1> QED BY <1>1, <1>2, <1>3, <1>4, <1>5, <1>6, <1>7, <1>8, <1>9 DEF Release

\* Every step of every client preserves the shape.
LEMMA ShapeStep ==
    ASSUME ShapeInv, [MisuseNext]_vars
    PROVE  ShapeInv'
<1>1. CASE \E t \in Thread : Runtime(t)
  <2>1. PICK t \in Thread : Runtime(t) BY <1>1
  <2>2. CASE Create(t)
    BY <2>2, AllocateFailsShape, AllocateShape, PublishShape DEF Create
  <2> QED BY <2>1, <2>2, RetainShape, ReleaseShape, ExchangeShape DEF Runtime
<1>2. CASE \E t \in Thread : Client(t)
  <2>1. PICK t \in Thread : Client(t) BY <1>2
  <2> QED BY <2>1, CallShape, PassShape DEF Client
<1>3. CASE \E t \in Thread : CallBorrowed(t) BY <1>3, CallShape
<1>4. CASE UNCHANGED vars
  <2>1. /\ mem' = mem /\ info' = info /\ finalized' = finalized /\ ref' = ref
        /\ pc' = pc /\ obj' = obj /\ hold' = hold /\ old' = old
        /\ new' = new /\ aborted' = aborted
    BY <1>4 DEF vars
  <2> QED BY <2>1
          DEF ShapeInv, TypeOK, RefOK, Born, StaticOK, HeapOK, BlockOK, ThreadOK,
              CallOK, ConstructionOK, DestructionOK, Owned, Retaining, Destroying
<1> QED BY <1>1, <1>2, <1>3, <1>4 DEF MisuseNext, Next

\* The initial state has the shape.
LEMMA ShapeInit ==
    ASSUME Init
    PROVE  ShapeInv
<1>1. /\ InfoMake(0, TRUE, TRUE) \in Info /\ InfoMake(0, TRUE, FALSE) \in Info
      /\ InfoMake(0, TRUE, TRUE).immortal
      /\ ~InfoMake(0, TRUE, FALSE).immortal
      /\ ~InfoMake(0, TRUE, FALSE).deallocating
      /\ ~InfoMake(0, TRUE, FALSE).deallocated
  BY DEF InfoMake, Info
<1>2. /\ \A o \in Heap : info[o] = InfoMake(0, TRUE, FALSE)
      /\ \A o \in Static : info[o] = InfoMake(0, TRUE, TRUE)
      /\ info \in [Object -> Info]
  <2>1. info = [o \in Object |-> InfoMake(0, TRUE, o \in Static)] BY DEF Init
  <2>2. \A o \in Heap : (o \in Static) = FALSE OBVIOUS
  <2>3. \A o \in Static : (o \in Static) = TRUE OBVIOUS
  <2>4. \A o \in Object : InfoMake(0, TRUE, o \in Static) \in Info
    BY DEF InfoMake, Info
  <2>5. info \in [Object -> Info] BY <2>1, <2>4
  <2>6. \A o \in Heap : info[o] = InfoMake(0, TRUE, FALSE)
    BY <2>1, <2>2
  <2>7. \A o \in Static : info[o] = InfoMake(0, TRUE, TRUE)
    BY <2>1, <2>3
  <2> QED BY <2>5, <2>6, <2>7
<1>3. TypeOK BY <1>2, NoInfoType DEF Init, TypeOK, PC
<1>4. RefOK BY DEF Init, RefOK, Born
<1>5. HeapOK
  <2>1. \A o \in Heap : /\ finalized[o] = 0 /\ mem[o] = "unused"
                        /\ ref[o] = NULL /\ info[o] = InfoMake(0, TRUE, FALSE)
    BY <1>2 DEF Init
  <2>2. ASSUME NEW o \in Heap PROVE BlockOK(o)
    <3>1. finalized[o] = 0 BY <2>1
    <3>2. finalized[o] <= 1 BY <3>1
    <3>3. /\ ~info[o].immortal /\ ~info[o].deallocating
          /\ ~info[o].deallocated
      BY <2>1, <1>1
    <3> QED BY <2>1, <3>2, <3>3 DEF BlockOK
  <2> QED BY <2>2 DEF HeapOK
<1>6. StaticOK BY <1>1, <1>2 DEF StaticOK
<1>7. ThreadOK
  BY DEF Init, ThreadOK, CallOK, ConstructionOK, DestructionOK, Born,
         Retaining, Destroying
<1> QED BY <1>3, <1>4, <1>5, <1>6, <1>7 DEF ShapeInv

\* Whatever the clients do, the invariant of the marks, the blocks under
\* construction and the objects under destruction holds.
THEOREM MisuseShape == MisuseSpec => []ShapeInv
<1>1. Init => ShapeInv BY ShapeInit
<1>2. ShapeInv /\ [MisuseNext]_vars => ShapeInv' BY ShapeStep
<1> QED BY <1>1, <1>2, PTL DEF MisuseSpec

\* The runs of well-behaved clients are among those of all clients.
LEMMA SpecIsMisuse == Spec => MisuseSpec
<1>1. Next => MisuseNext BY DEF MisuseNext
<1> QED BY <1>1, PTL DEF Spec, MisuseSpec

\* The variables of the runtime keep their types, and a thread that is inside
\* the runtime has an object to work on.
THEOREM TypeCorrect == Spec => []TypeOK
<1>1. ShapeInv => TypeOK BY DEF ShapeInv
<1> QED BY <1>1, MisuseShape, SpecIsMisuse, PTL

\* However many releases too many race, an object is finalized at most once.
THEOREM AtMostOneFinalize == MisuseSpec => []FinalizedAtMostOnce
<1>1. ShapeInv => FinalizedAtMostOnce
  BY DEF ShapeInv, HeapOK, BlockOK, FinalizedAtMostOnce
<1> QED BY <1>1, MisuseShape, PTL

\* finalize runs exactly once for an object whose memory has been given back,
\* and never for one that is still live.
THEOREM OneFinalize == Spec => []FinalizedOnce
<1>1. ShapeInv => FinalizedOnce
  <2> SUFFICES ASSUME ShapeInv, NEW o \in Heap
               PROVE  /\ finalized[o] <= 1
                      /\ finalized[o] = 1 => ~Live(o)
                      /\ mem[o] = "freed" => finalized[o] = 1
    BY DEF FinalizedOnce
  <2>1. BlockOK(o) BY DEF ShapeInv, HeapOK
  <2>2. finalized[o] = 1 => info[o].deallocating BY <2>1 DEF BlockOK
  <2> QED BY <2>1, <2>2 DEF BlockOK, Live, Dead
<1> QED BY <1>1, MisuseShape, SpecIsMisuse, PTL

-----------------------------------------------------------------------------
(* What no client can make the runtime do.                                 *)

\* An exchange succeeds only on a word that is not marked, and a block under
\* construction is not: the mark and the count of a marked object stay.
LEMMA MarkStays ==
    ASSUME ShapeInv, [MisuseNext]_vars, NEW o \in Heap, info[o].deallocating
    PROVE  info'[o].deallocating /\ info'[o].count = info[o].count
<1> DEFINE Same == info'[o] = info[o]
           Goal == info'[o].deallocating /\ info'[o].count = info[o].count
<1>1. Same => Goal OBVIOUS
<1>2. ASSUME NEW d \in Object, NEW f, info' = [info EXCEPT ![d] = f],
             ~Dead(info[d])
      PROVE  Same
  <2>1. d # o BY <1>2 DEF Dead
  <2> QED BY <2>1, <1>2 DEF ShapeInv, TypeOK
<1> HIDE DEF Same
<1>3. ASSUME NEW t \in Thread, RetainCAS(t) PROVE Same
  <2>1. obj[t] \in Object /\ ~Dead(info[obj[t]])
    BY <1>3, CallFacts DEF RetainCAS, MayRetain
  <2> QED BY <2>1, <1>2, <1>3 DEF RetainCAS
<1>4. ASSUME NEW t \in Thread, ReleaseCAS(t) \/ ReleaseLastCAS(t) PROVE Same
  <2>1. obj[t] \in Object /\ ~Dead(info[obj[t]])
    BY <1>4, CallFacts DEF ReleaseCAS, ReleaseLastCAS, MayRelease
  <2> QED BY <2>1, <1>2, <1>4 DEF ReleaseCAS, ReleaseLastCAS
<1>5. ASSUME NEW t \in Thread, MarkDeallocated(t) PROVE Goal
  <2>1. info' = [info EXCEPT ![obj[t]] = Deallocated(info[obj[t]])]
    BY <1>5 DEF MarkDeallocated
  <2>2. info[o] \in Info BY DEF ShapeInv, TypeOK
  <2> QED BY <2>1, <2>2, MarkedInfo DEF ShapeInv, TypeOK
<1>6. ASSUME NEW t \in Thread, Publish(t) PROVE Same
  <2>1. pc[t] = "publish" /\ new[t] \in Heap /\ mem[new[t]] = "raw"
    BY <1>6, BuilderFacts DEF Publish, ShapeInv, ThreadOK, ConstructionOK
  <2>2. new[t] # o BY <2>1 DEF ShapeInv, HeapOK, BlockOK
  <2> QED BY <2>1, <2>2, <1>6 DEF Publish, ShapeInv, TypeOK, Same
<1>7. ASSUME NEW t \in Thread, Retain(t) \/ Release(t), info' # info PROVE Goal
  BY <1>1, <1>3, <1>4, <1>5, <1>7
  DEF Retain, RetainLoad, RetainImmortal, RetainReload, RetainAbort, Load, Abort,
      Release, ReleaseLoad, ReleaseImmortal, ReleaseReload, ReleaseAbort,
      Finalize, Free, shared
<1>8. ASSUME NEW t \in Thread, Create(t) \/ Exchange(t), info' # info PROVE Goal
  BY <1>1, <1>6, <1>8 DEF Create, AllocateFails, Allocate, Exchange, shared
<1>9. ASSUME NEW t \in Thread, Client(t) \/ CallBorrowed(t)
      PROVE  info' = info
  BY <1>9 DEF Client, CallRetain, CallRelease, CallCreate, CallSetDefault,
              CallCreateDefault, Pass, CallBorrowed, Call, shared
<1>10. CASE info' = info BY <1>10, <1>1 DEF Same
<1>11. CASE info' # info
  <2>1. CASE UNCHANGED vars BY <2>1, <1>11 DEF vars
  <2>2. CASE MisuseNext
    BY <2>2, <1>7, <1>8, <1>9, <1>11 DEF MisuseNext, Next, Runtime
  <2> QED BY <2>1, <2>2
<1> QED BY <1>10, <1>11

\* Retain never resurrects: under any client, an object once marked
\* deallocating keeps the mark and its count.
THEOREM Resurrection == MisuseSpec => NoResurrection
<1>1. ShapeInv /\ [MisuseNext]_vars =>
        [\A o \in Heap : info[o].deallocating =>
            info'[o].deallocating /\ info'[o].count = info[o].count]_vars
  BY MarkStays
<1> QED BY <1>1, MisuseShape, PTL DEF MisuseSpec, NoResurrection

\* The last CFRelease of an object is final under any client.
THEOREM Final == MisuseSpec => DeathIsFinal
<1> QED BY AtMostOneFinalize, Resurrection, PTL DEF DeathIsFinal

\* A step changes the control of the thread that takes it only.
LEMMA OneMoves ==
    ASSUME TypeOK, NEW t \in Thread, NEW u \in Thread \ {t},
           Runtime(t) \/ Client(t) \/ CallBorrowed(t)
    PROVE  pc'[u] = pc[u]
<1>1. ASSUME NEW n, NEW o, NEW h, Continue(t, n, o, h) PROVE pc'[u] = pc[u]
  BY <1>1 DEF Continue, TypeOK
<1>2. CASE Retain(t)
  BY <1>1, <1>2
  DEF Retain, RetainLoad, RetainImmortal, RetainCAS, RetainReload, RetainAbort,
      RetainReturn, Load, Abort, Goto, local
<1>3. CASE Release(t)
  BY <1>1, <1>3
  DEF Release, ReleaseLoad, ReleaseImmortal, ReleaseCAS, ReleaseLastCAS,
      ReleaseReload, ReleaseAbort, ReleaseReturn, Finalize, MarkDeallocated,
      Free, Load, Abort, Goto, local
<1>4. CASE Create(t) \/ Exchange(t)
  BY <1>1, <1>4
  DEF Create, AllocateFails, Allocate, Publish, Exchange, Goto
<1>5. CASE Client(t) \/ CallBorrowed(t)
  BY <1>1, <1>5
  DEF Client, CallRetain, CallRelease, CallCreate, CallSetDefault,
      CallCreateDefault, Pass, CallBorrowed, Call, local
<1> QED BY <1>2, <1>3, <1>4, <1>5 DEF Runtime

\* A call that is about to compare the word of a marked object stays where it
\* is: the marked word differs from every copy it would act on.
LEMMA DeadCallStays ==
    ASSUME ShapeInv, [MisuseNext]_vars, NEW t \in Thread,
           pc[t] \in {"retain_cas", "release_cas"}, obj[t] \in Heap,
           Dead(info[obj[t]])
    PROVE  pc'[t] = pc[t]
<1>1. ~old[t].immortal BY DEF ShapeInv, ThreadOK, CallOK
<1>2. ASSUME Continue(t, pc[t], obj[t], hold[t]) PROVE pc'[t] = pc[t]
  BY <1>2 DEF Continue, ShapeInv, TypeOK
<1>3. CASE Retain(t)
  BY <1>1, <1>2, <1>3
  DEF Retain, RetainLoad, RetainImmortal, RetainCAS, RetainReload, RetainAbort,
      MayRetain, Load, Abort, Goto, local
<1>4. CASE Release(t)
  BY <1>1, <1>2, <1>4
  DEF Release, ReleaseLoad, ReleaseImmortal, ReleaseCAS, ReleaseLastCAS,
      ReleaseReload, ReleaseAbort, MayRelease, Finalize, MarkDeallocated,
      Free, Load, Abort, Goto, local
<1>5. ~Create(t) /\ ~Exchange(t)
  BY DEF Create, AllocateFails, Allocate, Publish, Exchange
<1>6. CASE Client(t) \/ CallBorrowed(t)
  BY <1>6 DEF Client, CallRetain, CallRelease, CallCreate, CallSetDefault,
              CallCreateDefault, Pass, CallBorrowed, Call
<1>7. CASE \E u \in Thread \ {t} : Runtime(u) \/ Client(u) \/ CallBorrowed(u)
  BY <1>7, OneMoves DEF ShapeInv
<1>8. CASE UNCHANGED vars BY <1>8 DEF vars
<1> QED BY <1>3, <1>4, <1>5, <1>6, <1>7, <1>8 DEF MisuseNext, Next, Runtime

\* A CFRetain or CFRelease that finds the object marked never returns.
THEOREM DeadCalls == MisuseSpec => DeadCallsNeverReturn
<1>1. ShapeInv /\ [MisuseNext]_vars =>
        [\A t \in Thread :
            /\ pc[t] \in {"retain_cas", "release_cas"}
            /\ obj[t] \in Heap
            /\ Dead(info[obj[t]])
            => pc'[t] = pc[t]]_vars
  BY DeadCallStays
<1> QED BY <1>1, MisuseShape, PTL DEF MisuseSpec, DeadCallsNeverReturn

-----------------------------------------------------------------------------
(* The retain count is the number of references: LifetimeInv is an         *)
(* invariant of CFRuntime, and its safety properties follow from it.       *)

-----------------------------------------------------------------------------
(* Sets of references.                                                     *)

\* The references to an object are finitely many.
LEMMA RefsFinite == \A o : IsFiniteSet(Refs(o)) /\ Cardinality(Refs(o)) \in Nat
<1> SUFFICES ASSUME NEW o
             PROVE  IsFiniteSet(Refs(o)) /\ Cardinality(Refs(o)) \in Nat
  OBVIOUS
<1>1. Refs(o) \in SUBSET Holder BY DEF Refs
<1>2. IsFiniteSet(Refs(o)) BY <1>1, HolderFinite, FS_Subset
<1> QED BY <1>2, FS_CardinalityType

\* An empty place is filled with a reference to o.
LEMMA RefsAdd ==
    ASSUME NEW o \in Object, NEW d \in Holder, ref[d] = NULL, ref'[d] = o,
           \A h \in Holder \ {d} : ref'[h] = ref[h]
    PROVE  /\ Cardinality(Refs(o))' = Cardinality(Refs(o)) + 1
           /\ \A b \in Object \ {o} :
                 Cardinality(Refs(b))' = Cardinality(Refs(b))
<1>1. Refs(o)' = Refs(o) \cup {d} /\ d \notin Refs(o) BY DEF Refs
<1>2. Cardinality(Refs(o) \cup {d}) = Cardinality(Refs(o)) + 1
  BY <1>1, RefsFinite, FS_AddElement
<1>3. \A b \in Object \ {o} : Refs(b)' = Refs(b) BY DEF Refs
<1> QED BY <1>1, <1>2, <1>3

\* A reference to o is given up.
LEMMA RefsRemove ==
    ASSUME NEW o \in Object, NEW d \in Holder, ref[d] = o, ref'[d] = NULL,
           \A h \in Holder \ {d} : ref'[h] = ref[h]
    PROVE  /\ Refs(o)' = Refs(o) \ {d}
           /\ Cardinality(Refs(o))' = Cardinality(Refs(o)) - 1
           /\ \A b \in Object \ {o} : Refs(b)' = Refs(b)
<1>1. Refs(o)' = Refs(o) \ {d} /\ d \in Refs(o) BY DEF Refs
<1>2. Cardinality(Refs(o) \ {d}) = Cardinality(Refs(o)) - 1
  BY <1>1, RefsFinite, FS_RemoveElement
<1>3. \A b \in Object \ {o} : Refs(b)' = Refs(b) BY DEF Refs
<1> QED BY <1>1, <1>2, <1>3

\* Two places exchange their references.
Swapped(g, h) == /\ ref'[g] = ref[h] /\ ref'[h] = ref[g]
                 /\ \A d \in Holder \ {g, h} : ref'[d] = ref[d]

\* References that change places are as many as before.
LEMMA RefsSwap ==
    ASSUME NEW g \in Holder, NEW h \in Holder, Swapped(g, h), NEW o
    PROVE  Cardinality(Refs(o))' = Cardinality(Refs(o))
<1>1. CASE ref[g] = ref[h]
  <2>1. Refs(o)' = Refs(o) BY <1>1 DEF Refs, Swapped
  <2> QED BY <2>1
<1>2. CASE ref[g] # ref[h] /\ o \notin {ref[g], ref[h]}
  <2>1. Refs(o)' = Refs(o) BY <1>2 DEF Refs, Swapped
  <2> QED BY <2>1
<1>3. ASSUME NEW a \in Holder, NEW b \in Holder, ref[a] = o, ref[b] # o,
             Swapped(a, b)
      PROVE  Cardinality(Refs(o))' = Cardinality(Refs(o))
  <2>1. Refs(o)' = (Refs(o) \ {a}) \cup {b} /\ a \in Refs(o) /\ b \notin Refs(o)
    BY <1>3 DEF Refs, Swapped
  <2>2. IsFiniteSet(Refs(o) \ {a})
        /\ Cardinality(Refs(o) \ {a}) = Cardinality(Refs(o)) - 1
    BY <2>1, RefsFinite, FS_RemoveElement
  <2>3. Cardinality((Refs(o) \ {a}) \cup {b}) = Cardinality(Refs(o) \ {a}) + 1
    BY <2>1, <2>2, FS_AddElement
  <2>4. Cardinality(Refs(o)) \in Nat BY RefsFinite
  <2> QED BY <2>1, <2>2, <2>3, <2>4
<1>4. CASE ref[g] # ref[h] /\ o = ref[g] BY <1>4, <1>3
<1>5. CASE ref[g] # ref[h] /\ o = ref[h]
  <2>1. Swapped(h, g) BY DEF Swapped
  <2> QED BY <1>5, <1>3, <2>1
<1> QED BY <1>1, <1>2, <1>4, <1>5

\* A heap object somebody references is live and its count is positive.
LEMMA HeldIsLive ==
    ASSUME LifetimeInv, NEW h \in Holder, ref[h] \in Heap
    PROVE  Live(ref[h]) /\ info[ref[h]].count # 0
<1>1. Live(ref[h]) BY DEF LifetimeInv, NoDanglingReference
<1>2. h \in Refs(ref[h]) BY DEF Refs
<1>3. Cardinality(Refs(ref[h])) # 0 BY <1>2, RefsFinite, FS_EmptySet
<1> QED BY <1>1, <1>3 DEF LifetimeInv, CountIsReferences

\* The object of a retain, a creation or a release is one somebody references.
LEMMA CallIsHeld ==
    ASSUME LifetimeInv, NEW t \in Thread, obj[t] \in Heap,
           Retaining(t) \/ Releasing(t) \/ pc[t] \in {"allocate", "exchange"}
    PROVE  Live(obj[t]) /\ info[obj[t]].count # 0
<1>1. pc[t] # "idle" BY DEF Retaining, Releasing
<1>2. hold[t] \in Holder BY <1>1, CallFacts DEF LifetimeInv
<1>3. HoldingOK(t) BY DEF LifetimeInv, ClientOK
<1>4. \E h \in Holder : ref[h] = obj[t]
  BY <1>2, <1>3 DEF HoldingOK, Owns, Owned
<1> QED BY <1>4, HeldIsLive

-----------------------------------------------------------------------------
(* The threads that do not move.                                           *)

\* A thread that does not move keeps what it holds if no one touches its
\* variables, its local pointer and the prefix of the block it constructs.
LEMMA StillHolds ==
    ASSUME LifetimeInv, NEW u \in Thread, Still(u),
           \A h \in Owned(u) \cup {u} : ref'[h] = ref[h],
           new[u] # NULL => ref'[new[u]] = ref[new[u]]
    PROVE  HoldingOK(u)' /\ CopyOK(u)'
<1>1. HoldingOK(u) /\ CopyOK(u) /\ CallOK(u) /\ ConstructionOK(u)
  BY DEF LifetimeInv, ClientOK, ShapeInv, ThreadOK
<1>2. CopyOK(u)' BY <1>1 DEF CopyOK, Still
<1>3. (Retaining(u) \/ pc[u] = "allocate" => Owns(u, obj[u]))'
  BY <1>1 DEF HoldingOK, Retaining, Still, Owns, Owned
<1>4. pc[u] # "idle" => ref'[hold[u]] = ref[hold[u]]
  BY <1>1 DEF CallOK
<1>5. (Retaining(u) \/ pc[u] \in {"allocate", "publish"} => ref[hold[u]] = NULL)'
  BY <1>1, <1>4 DEF HoldingOK, Retaining, Still
<1>6. (Retaining(u) => ref[Target(u)] = NULL)'
  BY <1>1, <1>4 DEF HoldingOK, Retaining, Still, Target
<1>7. (Releasing(u) => ref[hold[u]] = obj[u])'
  BY <1>1, <1>4 DEF HoldingOK, Releasing, Still
<1>8. (pc[u] = "publish" /\ obj[u] # SystemDefault => ref[new[u]] = obj[u])'
  BY <1>1 DEF HoldingOK, ConstructionOK, Still
<1>9. (pc[u] = "exchange" => hold[u] = u /\ ref[u] = obj[u])'
  BY <1>1 DEF HoldingOK, Still
<1>10. (ref[u] # NULL => hold[u] = u /\ (Releasing(u) \/ pc[u] = "exchange"))'
  BY <1>1 DEF HoldingOK, Still, Releasing
<1>11. (new[u] # NULL \/ pc[u] \in {"allocate", "publish"} => hold[u] # u)'
  BY <1>1 DEF HoldingOK, Still
<1> QED BY <1>2, <1>3, <1>5, <1>6, <1>7, <1>8, <1>9, <1>10, <1>11 DEF HoldingOK

-----------------------------------------------------------------------------
(* CountIsReferences and NoDanglingReference, step by step.                *)

Counted == CountIsReferences /\ NoDanglingReference

\* References that only change places, with the counts and the lives of the
\* objects as they were.
LEMMA SwapCounts ==
    ASSUME LifetimeInv, NEW g \in Holder, NEW h \in Holder, Swapped(g, h),
           \A o \in Heap : /\ Live(o)' <=> Live(o)
                           /\ info'[o].count = info[o].count
    PROVE  Counted'
<1>1. CountIsReferences'
  BY RefsSwap DEF LifetimeInv, CountIsReferences
<1>2. NoDanglingReference'
  <2>1. \A d \in Holder : \E e \in Holder : ref'[d] = ref[e] BY DEF Swapped
  <2> QED BY <2>1 DEF LifetimeInv, NoDanglingReference
<1> QED BY <1>1, <1>2 DEF Counted

\* The same when no reference changes at all.
LEMMA SameCounts ==
    ASSUME LifetimeInv, ref' = ref,
           \A o \in Heap : /\ Live(o)' <=> Live(o)
                           /\ info'[o].count = info[o].count
    PROVE  Counted'
<1>1. Swapped(Default, Default) BY DEF Swapped
<1> QED BY <1>1, SwapCounts

\* The return of a CFRetain: a new reference, and a count of one more unless
\* the object is static.
LEMMA RetainCounts ==
    ASSUME LifetimeInv, NEW o \in Object, NEW d \in Holder,
           ref[d] = NULL, ref'[d] = o, \A h \in Holder \ {d} : ref'[h] = ref[h],
           o \in Heap => Live(o) /\ info'[o].count = info[o].count + 1,
           \A b \in Heap : Live(b)' <=> Live(b),
           \A b \in Heap \ {o} : info'[b].count = info[b].count
    PROVE  Counted'
<1>1. CountIsReferences'
  BY RefsAdd DEF LifetimeInv, CountIsReferences
<1>2. NoDanglingReference'
  BY DEF LifetimeInv, NoDanglingReference
<1> QED BY <1>1, <1>2 DEF Counted

\* The return of a CFRelease that is not the last: one reference less.
LEMMA ReleaseCounts ==
    ASSUME LifetimeInv, NEW o \in Object, NEW d \in Holder,
           ref[d] = o, ref'[d] = NULL, \A h \in Holder \ {d} : ref'[h] = ref[h],
           o \in Heap => info'[o].count = info[o].count - 1,
           \A b \in Heap : Live(b)' <=> Live(b),
           \A b \in Heap \ {o} : info'[b].count = info[b].count
    PROVE  Counted'
<1>1. CountIsReferences'
  BY RefsRemove DEF LifetimeInv, CountIsReferences
<1>2. NoDanglingReference'
  BY DEF LifetimeInv, NoDanglingReference
<1> QED BY <1>1, <1>2 DEF Counted

\* The return of the last CFRelease: a count of one is the reference that is
\* given up, so nobody is left with a reference to the object that dies.
LEMMA LastCounts ==
    ASSUME LifetimeInv, NEW o \in Heap, NEW d \in Holder, Live(o),
           info[o].count = 1,
           ref[d] = o, ref'[d] = NULL, \A h \in Holder \ {d} : ref'[h] = ref[h],
           ~Live(o)',
           \A b \in Heap \ {o} : /\ Live(b)' <=> Live(b)
                                 /\ info'[b].count = info[b].count
    PROVE  Counted' /\ Refs(o) = {d}
<1>1. Cardinality(Refs(o)) = 1 BY DEF LifetimeInv, CountIsReferences
<1>2. PICK x : Refs(o) = {x} BY <1>1, RefsFinite, FS_Singleton
<1>3. d \in Refs(o) BY DEF Refs
<1>4. Refs(o) = {d} BY <1>2, <1>3
<1>5. \A h \in Holder : ref'[h] # o BY <1>4 DEF Refs
<1>6. CountIsReferences'
  BY RefsRemove DEF LifetimeInv, CountIsReferences
<1>7. NoDanglingReference'
  BY <1>5 DEF LifetimeInv, NoDanglingReference
<1> QED BY <1>4, <1>6, <1>7 DEF Counted

\* The first reference to a new object, which nobody can have had before.
LEMMA BirthCounts ==
    ASSUME LifetimeInv, NEW o \in Heap, NEW d \in Holder, ~Live(o), Live(o)',
           info'[o].count = 1,
           ref[d] = NULL, ref'[d] = o, \A h \in Holder \ {d} : ref'[h] = ref[h],
           \A b \in Heap \ {o} : /\ Live(b)' <=> Live(b)
                                 /\ info'[b].count = info[b].count
    PROVE  Counted'
<1>1. \A h \in Holder : ref[h] # o BY DEF LifetimeInv, NoDanglingReference
<1>2. Refs(o)' = {d} BY <1>1 DEF Refs
<1>3. \A b \in Heap \ {o} : Refs(b)' = Refs(b) BY DEF Refs
<1>4. Cardinality({d}) = 1 BY FS_Singleton
<1>5. CountIsReferences'
  BY <1>2, <1>3, <1>4 DEF LifetimeInv, CountIsReferences
<1>6. NoDanglingReference'
  BY DEF LifetimeInv, NoDanglingReference
<1> QED BY <1>5, <1>6 DEF Counted

-----------------------------------------------------------------------------
(* LifetimeInv, step by step.                                              *)

\* A step of thread t touches its own variables and local pointer, the default
\* allocator, and prefixes of blocks nobody else constructs.
OwnPlaces(t) == Owned(t) \cup {t, Default}
                \cup {b \in Heap : \A u \in Thread \ {t} : new[u] # b}

\* What the threads hold after a step of thread t, given what t then holds.
LEMMA ClientStep ==
    ASSUME LifetimeInv, NEW t \in Thread,
           \A u \in Thread \ {t} : Still(u),
           \A h \in Holder \ OwnPlaces(t) : ref'[h] = ref[h],
           HoldingOK(t)', CopyOK(t)'
    PROVE  ClientOK'
<1> SUFFICES ASSUME NEW u \in Thread \ {t} PROVE HoldingOK(u)' /\ CopyOK(u)'
  BY DEF ClientOK
<1>1. \A h \in Owned(u) \cup {u} : h \in Holder \ OwnPlaces(t)
  BY DEF OwnPlaces, Owned
<1>2. new[u] # NULL => new[u] \in Holder \ OwnPlaces(t)
  BY BuilderFacts DEF LifetimeInv, OwnPlaces, Owned
<1> QED BY <1>1, <1>2, StillHolds

\* Nothing changes in what a step leaves alone.
LEMMA LiveSame ==
    ASSUME NEW o \in Heap, mem'[o] = mem[o], SameFlags(info[o], info'[o])
    PROVE  Live(o)' <=> Live(o)
BY DEF Live, Dead, SameFlags

\* The conjuncts of the invariant that concern a thread.
LEMMA ThreadFacts ==
    ASSUME LifetimeInv, NEW t \in Thread
    PROVE  HoldingOK(t) /\ CopyOK(t) /\ CallOK(t) /\ ConstructionOK(t)
BY DEF LifetimeInv, ClientOK, ShapeInv, ThreadOK

\* The loads of the info word: the copy of a word that is held makes no alarm.
LEMMA LoadLifetime ==
    ASSUME LifetimeInv, NEW t \in Thread, NEW here, NEW next,
           <<here, next>> \in {<<"retain_load", "retain_cas">>,
                               <<"retain_cas", "retain_cas">>,
                               <<"release_load", "release_cas">>,
                               <<"release_cas", "release_cas">>},
           Load(t, here, next)
    PROVE  ClientOK' /\ Counted'
<1>1. /\ pc[t] = here /\ here # "idle" /\ next \in PC \ {"idle"}
      /\ \/ Retaining(t) /\ next = "retain_cas"
         \/ Releasing(t) /\ next = "release_cas"
  BY DEF Load, PC, Retaining, Releasing
<1>2. obj[t] \in Object /\ obj[t] # NULL /\ hold[t] \in Holder
  BY <1>1, CallFacts DEF LifetimeInv
<1>3. Continue(t, next, obj[t], hold[t]) BY DEF Load, Goto
<1>4. /\ pc'[t] = next /\ obj'[t] = obj[t] /\ hold'[t] = hold[t]
      /\ \A u \in Thread \ {t} :
            pc'[u] = pc[u] /\ obj'[u] = obj[u] /\ hold'[u] = hold[u]
  BY <1>1, <1>2, <1>3, ContinueFacts DEF LifetimeInv, ShapeInv
<1>5. /\ old' = [old EXCEPT ![t] = info[obj[t]]]
      /\ mem' = mem /\ info' = info /\ ref' = ref /\ new' = new
  BY DEF Load, shared
<1>6. old'[t] = info[obj[t]] /\ \A u \in Thread \ {t} : old'[u] = old[u]
  BY <1>5 DEF LifetimeInv, ShapeInv, TypeOK
<1>7. Counted' BY <1>5, SameCounts DEF Live
<1>8. HoldingOK(t) /\ ConstructionOK(t) BY ThreadFacts
<1>9. Retaining(t)' <=> Retaining(t) BY <1>1, <1>4 DEF Retaining, Releasing
<1>10. Releasing(t)' <=> Releasing(t) BY <1>1, <1>4 DEF Retaining, Releasing
<1>11. HoldingOK(t)'
  BY <1>1, <1>4, <1>5, <1>8, <1>9, <1>10
  DEF HoldingOK, Target, Owns, Owned, Retaining, Releasing
<1>12. CopyOK(t)'
  BY <1>1, <1>4, <1>6, CallIsHeld DEF CopyOK, Live
<1> QED BY <1>4, <1>5, <1>6, <1>7, <1>11, <1>12, ClientStep DEF Still

\* The return of a CFRetain: its target now holds the object.
LEMMA RetainReturnLifetime ==
    ASSUME LifetimeInv, NEW t \in Thread, pc[t] = "retain_cas", RetainReturn(t),
           \A o \in Heap : SameFlags(info[o], info'[o]),
           \A o \in Heap \ {obj[t]} : info'[o].count = info[o].count,
           obj[t] \in Heap => info'[obj[t]].count = info[obj[t]].count + 1
    PROVE  ClientOK' /\ Counted'
<1> DEFINE o == obj[t]  d == Target(t)  next == AfterRetain(t)
<1>1. /\ o \in Object /\ o # NULL
      /\ hold[t] \in Owned(t) \cup {t} /\ hold[t] \in Holder
      /\ hold[t] \notin Heap
  BY CallFacts DEF LifetimeInv
<1>2. HoldingOK(t) /\ CopyOK(t) /\ ConstructionOK(t) /\ Retaining(t)
  BY ThreadFacts DEF Retaining
<1>3. new[t] # NULL => /\ new[t] \in Heap
                       /\ \A u \in Thread \ {t} : new[u] # new[t]
  BY BuilderFacts DEF LifetimeInv
<1>4. /\ d \in Holder /\ d \in OwnPlaces(t) /\ ref[d] = NULL
      /\ d = IF new[t] # NULL THEN new[t] ELSE hold[t]
  BY <1>1, <1>2, <1>3 DEF Target, OwnPlaces, HoldingOK
<1>5. /\ next \in {"publish", "exchange", "idle"} /\ next \in PC
      /\ new[t] # NULL <=> next = "publish"
      /\ new[t] = NULL => (next = "exchange" <=> hold[t] = t)
  BY DEF AfterRetain, PC
<1>6. /\ ref' = [ref EXCEPT ![d] = o] /\ Continue(t, next, o, hold[t])
      /\ old' = [old EXCEPT ![t] = NoInfo]
      /\ mem' = mem /\ new' = new
  BY DEF RetainReturn, Goto
<1>7. ref'[d] = o /\ \A h \in Holder \ {d} : ref'[h] = ref[h]
  BY <1>1, <1>4, <1>6 DEF LifetimeInv, ShapeInv, TypeOK
<1>8. \A u \in Thread \ {t} : old'[u] = old[u]
  BY <1>6 DEF LifetimeInv, ShapeInv, TypeOK
<1>9. o \in Heap => Live(o) BY <1>2, CallIsHeld
<1> HIDE DEF o, d, next
<1>10. /\ pc'[t] = next
       /\ next # "idle" => obj'[t] = o /\ hold'[t] = hold[t]
       /\ \A u \in Thread \ {t} :
             pc'[u] = pc[u] /\ obj'[u] = obj[u] /\ hold'[u] = hold[u]
  BY <1>1, <1>5, <1>6, ContinueFacts DEF LifetimeInv, ShapeInv
<1>11. Counted'
  <2>1. \A b \in Heap : Live(b)' <=> Live(b) BY <1>6, LiveSame
  <2> QED BY <2>1, <1>1, <1>4, <1>7, <1>9, RetainCounts DEF o
<1>12. ref[t] = NULL BY <1>2 DEF HoldingOK, Releasing, Retaining
<1>13. HoldingOK(t)'
  <2>1. CASE next = "publish"
    <3>1. new[t] # NULL /\ d = new[t] /\ d # t /\ d # hold[t] /\ new[t] \in Heap
      BY <2>1, <1>1, <1>3, <1>4, <1>5
    <3>2. ref'[t] = NULL /\ ref'[hold[t]] = NULL
      BY <3>1, <1>1, <1>2, <1>7, <1>12 DEF HoldingOK
    <3> QED BY <2>1, <3>1, <3>2, <1>2, <1>6, <1>7, <1>10
            DEF HoldingOK, Retaining, Releasing
  <2>2. CASE next = "exchange"
    <3>1. new[t] = NULL /\ hold[t] = t /\ d = t BY <2>2, <1>4, <1>5
    <3> QED BY <2>2, <3>1, <1>6, <1>7, <1>10 DEF HoldingOK, Retaining, Releasing
  <2>3. CASE next = "idle"
    <3>1. new[t] = NULL /\ hold[t] # t /\ d # t BY <2>3, <1>4, <1>5
    <3> QED BY <2>3, <3>1, <1>6, <1>7, <1>10, <1>12
            DEF HoldingOK, Retaining, Releasing
  <2> QED BY <2>1, <2>2, <2>3, <1>5
<1>14. CopyOK(t)' BY <1>5, <1>10 DEF CopyOK
<1> QED BY <1>4, <1>6, <1>7, <1>8, <1>10, <1>11, <1>13, <1>14, ClientStep
        DEF Still

\* The return of a CFRelease: the thread has given its reference up.
LEMMA ReleaseReturnLifetime ==
    ASSUME LifetimeInv, NEW t \in Thread, pc[t] = "release_cas",
           NEW next \in {"idle", "finalize"}, ReleaseReturn(t, next), Counted'
    PROVE  ClientOK'
<1> DEFINE o == obj[t]  d == hold[t]
<1>1. /\ o \in Object /\ o # NULL /\ d \in Owned(t) \cup {t}
      /\ d \in Holder /\ d \in OwnPlaces(t)
  BY CallFacts DEF LifetimeInv, OwnPlaces
<1>2. HoldingOK(t) /\ ConstructionOK(t) BY ThreadFacts
<1>3. new[t] = NULL BY <1>2 DEF ConstructionOK, Retaining
<1>4. /\ ref' = [ref EXCEPT ![d] = NULL] /\ Continue(t, next, o, d)
      /\ old' = [old EXCEPT ![t] = NoInfo]
      /\ new' = new
  BY DEF ReleaseReturn, Goto
<1>5. ref'[d] = NULL /\ \A h \in Holder \ {d} : ref'[h] = ref[h]
  BY <1>1, <1>4 DEF LifetimeInv, ShapeInv, TypeOK
<1>6. \A u \in Thread \ {t} : old'[u] = old[u]
  BY <1>4 DEF LifetimeInv, ShapeInv, TypeOK
<1> HIDE DEF o, d
<1>7. /\ pc'[t] = next
      /\ \A u \in Thread \ {t} :
            pc'[u] = pc[u] /\ obj'[u] = obj[u] /\ hold'[u] = hold[u]
  BY <1>1, <1>4, ContinueFacts DEF LifetimeInv, ShapeInv, PC
<1>8. ref'[t] = NULL
  BY <1>1, <1>2, <1>5 DEF HoldingOK, d
<1>9. HoldingOK(t)'
  BY <1>3, <1>4, <1>7, <1>8 DEF HoldingOK, Retaining, Releasing
<1>10. CopyOK(t)' BY <1>7 DEF CopyOK
<1> QED BY <1>1, <1>4, <1>5, <1>6, <1>7, <1>9, <1>10, ClientStep DEF Still

\* The steps between the last release and the freeing of the block.
LEMMA DestroyLifetime ==
    ASSUME LifetimeInv, NEW t \in Thread, Finalize(t) \/ MarkDeallocated(t)
    PROVE  ClientOK' /\ Counted'
<1> DEFINE o == obj[t]  n == IF pc[t] = "finalize" THEN "mark" ELSE "free"
<1>1. Destroying(t) /\ pc[t] # "idle"
  BY DEF Finalize, MarkDeallocated, Destroying
<1>2. /\ o \in Heap /\ o # NULL /\ hold[t] \in Holder /\ info[o] \in Info
      /\ info[o].deallocating /\ new[t] = NULL
  BY <1>1, CallFacts, DestroyerFacts DEF LifetimeInv
<1>3. /\ n \in PC \ {"idle"} /\ n \in {"mark", "free"}
      /\ Continue(t, n, o, hold[t])
      /\ mem' = mem /\ ref' = ref /\ old' = old /\ new' = new
  BY DEF Finalize, MarkDeallocated, Goto, PC
<1>4. /\ \A b \in Heap \ {o} : info'[b] = info[b]
      /\ info'[o].deallocating /\ info'[o].count = info[o].count
  <2>1. CASE info' = info BY <2>1, <1>2
  <2>2. CASE info' = [info EXCEPT ![o] = Deallocated(info[o])]
    BY <2>2, <1>2, MarkedInfo DEF LifetimeInv, ShapeInv, TypeOK
  <2> QED BY <2>1, <2>2 DEF Finalize, MarkDeallocated
<1> HIDE DEF o, n
<1>5. /\ pc'[t] = n
      /\ \A u \in Thread \ {t} :
            pc'[u] = pc[u] /\ obj'[u] = obj[u] /\ hold'[u] = hold[u]
  BY <1>2, <1>3, ContinueFacts DEF LifetimeInv, ShapeInv
<1>6. Counted'
  <2>1. \A b \in Heap : Live(b)' <=> Live(b)
    BY <1>2, <1>3, <1>4 DEF Live, Dead
  <2> QED BY <2>1, <1>3, <1>4, SameCounts
<1>7. ref[t] = NULL
  BY <1>1, ThreadFacts DEF HoldingOK, Releasing, Destroying
<1>8. HoldingOK(t)' /\ CopyOK(t)'
  BY <1>2, <1>3, <1>5, <1>7 DEF HoldingOK, CopyOK, Retaining, Releasing
<1> QED BY <1>3, <1>5, <1>6, <1>8, ClientStep DEF Still

\* Freeing the block: the call now holds the reference to its allocator.
LEMMA FreeLifetime ==
    ASSUME LifetimeInv, NEW t \in Thread, Free(t)
    PROVE  ClientOK' /\ Counted'
<1> DEFINE o == obj[t]
           a == IF info[o].usesDefault THEN NULL ELSE ref[o]
           n == IF a = NULL THEN "idle" ELSE "release_load"
<1>1. pc[t] = "free" /\ Destroying(t) BY DEF Free, Destroying
<1>2. o \in Heap /\ o # NULL /\ hold[t] \in Holder
  BY <1>1, CallFacts, DestroyerFacts DEF LifetimeInv
<1>3. /\ mem[o] = "object" /\ info[o].deallocating /\ new[t] = NULL
      /\ \A u \in Thread \ {t} : new[u] # o
  BY <1>1, DestroyerFacts DEF LifetimeInv
<1>4. a = NULL <=> info[o].usesDefault
  BY <1>2, <1>3 DEF LifetimeInv, ShapeInv, HeapOK, BlockOK
<1>5. a \in Object \cup {NULL} BY <1>2 DEF LifetimeInv, ShapeInv, TypeOK
<1>6. /\ mem' = [mem EXCEPT ![o] = "freed"]
      /\ info' = info /\ old' = old /\ new' = new
  BY DEF Free
<1>7. ref[t] = NULL BY <1>1, ThreadFacts DEF HoldingOK, Releasing
<1>8. /\ \A h \in Holder \ {o, t} : ref'[h] = ref[h]
      /\ ref'[t] = a
      /\ ref' = ref \/ Swapped(o, t)
  <2>1. CASE a = NULL BY <2>1, <1>4, <1>7 DEF Free
  <2>2. CASE a # NULL
    <3>1. ref' = [ref EXCEPT ![t] = a, ![o] = NULL] BY <2>2, <1>4 DEF Free
    <3>2. /\ ref'[t] = a /\ ref'[o] = NULL
          /\ \A h \in Holder \ {o, t} : ref'[h] = ref[h]
      BY <3>1, <1>2 DEF LifetimeInv, ShapeInv, TypeOK
    <3> QED BY <3>2, <2>2, <1>7 DEF Swapped
  <2> QED BY <2>1, <2>2
<1>9. Continue(t, n, IF a = NULL THEN o ELSE a, IF a = NULL THEN hold[t] ELSE t)
  BY <1>4 DEF Free, Goto
<1>10. mem'[o] = "freed" /\ \A b \in Heap \ {o} : mem'[b] = mem[b]
  BY <1>2, <1>6 DEF LifetimeInv, ShapeInv, TypeOK
<1> HIDE DEF o, a
<1>11. /\ pc'[t] = n
       /\ n # "idle" => obj'[t] = a /\ hold'[t] = t
       /\ \A u \in Thread \ {t} :
             pc'[u] = pc[u] /\ obj'[u] = obj[u] /\ hold'[u] = hold[u]
  BY <1>2, <1>5, <1>9, ContinueFacts DEF LifetimeInv, ShapeInv, PC
<1>12. Counted'
  <2>1. \A b \in Heap : Live(b)' <=> Live(b)
    BY <1>3, <1>6, <1>10 DEF Live, Dead
  <2> QED BY <2>1, <1>2, <1>6, <1>8, SameCounts, SwapCounts
<1>13. HoldingOK(t)' /\ CopyOK(t)'
  BY <1>3, <1>6, <1>8, <1>11 DEF HoldingOK, CopyOK, Retaining, Releasing
<1>14. \A h \in Holder \ OwnPlaces(t) : ref'[h] = ref[h]
  BY <1>2, <1>3, <1>8 DEF OwnPlaces
<1> QED BY <1>6, <1>11, <1>12, <1>13, <1>14, ClientStep DEF Still

\* A block is taken: its prefix holds nothing yet.
LEMMA AllocateLifetime ==
    ASSUME LifetimeInv, NEW t \in Thread, Allocate(t)
    PROVE  ClientOK' /\ Counted'
<1> DEFINE a == obj[t]
           n == IF a = SystemDefault THEN "publish" ELSE "retain_load"
<1>1. PICK o \in Heap : /\ mem[o] = "unused"
                        /\ mem' = [mem EXCEPT ![o] = "raw"]
                        /\ new' = [new EXCEPT ![t] = o]
  BY DEF Allocate
<1>2. /\ pc[t] = "allocate" /\ Continue(t, n, a, hold[t])
      /\ info' = info /\ ref' = ref /\ old' = old
  BY DEF Allocate, Goto
<1>3. a \in Object /\ a # NULL /\ hold[t] \in Holder
  BY <1>2, CallFacts DEF LifetimeInv
<1>4. n \in {"publish", "retain_load"} /\ n \in PC \ {"idle"}
      /\ (n = "publish" => a = SystemDefault)
  BY DEF PC
<1>5. ref[o] = NULL /\ o # NULL
  BY <1>1 DEF LifetimeInv, ShapeInv, HeapOK, BlockOK
<1>6. /\ mem'[o] = "raw" /\ \A b \in Heap \ {o} : mem'[b] = mem[b]
      /\ new'[t] = o /\ \A u \in Thread \ {t} : new'[u] = new[u]
  BY <1>1 DEF LifetimeInv, ShapeInv, TypeOK
<1> HIDE DEF a, n
<1>7. /\ pc'[t] = n /\ obj'[t] = a /\ hold'[t] = hold[t]
      /\ \A u \in Thread \ {t} :
            pc'[u] = pc[u] /\ obj'[u] = obj[u] /\ hold'[u] = hold[u]
  BY <1>2, <1>3, <1>4, ContinueFacts DEF LifetimeInv, ShapeInv
<1>8. Counted'
  <2>1. \A b \in Heap : Live(b)' <=> Live(b) BY <1>1, <1>2, <1>6 DEF Live, Dead
  <2> QED BY <2>1, <1>2, SameCounts
<1>9. HoldingOK(t) BY ThreadFacts
<1>10. HoldingOK(t)'
  BY <1>2, <1>4, <1>5, <1>6, <1>7, <1>9
  DEF HoldingOK, Retaining, Releasing, Target, Owns, Owned, a
<1>11. CopyOK(t)' BY <1>4, <1>7 DEF CopyOK
<1> QED BY <1>2, <1>6, <1>7, <1>8, <1>10, <1>11, ClientStep DEF Still

\* The block becomes an object with a count and a reference of one.
LEMMA PublishLifetime ==
    ASSUME LifetimeInv, NEW t \in Thread, Publish(t)
    PROVE  ClientOK' /\ Counted'
<1>1. PICK o \in Heap : o = new[t] /\ mem[o] = "raw"
  BY ThreadFacts, BuilderFacts DEF ConstructionOK, LifetimeInv, Publish
<1> DEFINE d == hold[t]
           i == InfoMake(1, obj[t] = SystemDefault, FALSE)
<1>2. /\ pc[t] = "publish" /\ Continue(t, "idle", obj[t], d)
      /\ info' = [info EXCEPT ![o] = i]
      /\ mem' = [mem EXCEPT ![o] = "object"]
      /\ ref' = [ref EXCEPT ![d] = o]
      /\ new' = [new EXCEPT ![t] = NULL]
      /\ old' = old
  BY <1>1 DEF Publish, Goto
<1>3. HoldingOK(t) BY ThreadFacts
<1>4. /\ obj[t] \in Object /\ d \in Holder /\ d \in OwnPlaces(t)
      /\ d # t /\ ref[d] = NULL
  BY <1>2, <1>3, CallFacts DEF LifetimeInv, HoldingOK, OwnPlaces
<1>5. i.count = 1 /\ ~Dead(i) BY NewInfo DEF Dead
<1>6. mem'[o] = "object" /\ \A b \in Heap \ {o} : mem'[b] = mem[b]
  BY <1>2, <1>1 DEF LifetimeInv, ShapeInv, TypeOK
<1>7. info'[o] = i /\ \A b \in Object \ {o} : info'[b] = info[b]
  BY <1>2, <1>1 DEF LifetimeInv, ShapeInv, TypeOK
<1>8. ref'[d] = o /\ \A h \in Holder \ {d} : ref'[h] = ref[h]
  BY <1>2, <1>4 DEF LifetimeInv, ShapeInv, TypeOK
<1>9. new'[t] = NULL /\ \A u \in Thread \ {t} : new'[u] = new[u]
  BY <1>2 DEF LifetimeInv, ShapeInv, TypeOK
<1> HIDE DEF d, i
<1>10. /\ pc'[t] = "idle"
       /\ \A u \in Thread \ {t} :
             pc'[u] = pc[u] /\ obj'[u] = obj[u] /\ hold'[u] = hold[u]
  BY <1>2, <1>4, ContinueFacts DEF LifetimeInv, ShapeInv, PC
<1>11. Counted'
  <2>1. ~Live(o) /\ Live(o)' BY <1>1, <1>5, <1>6, <1>7 DEF Live
  <2>2. \A b \in Heap \ {o} : /\ Live(b)' <=> Live(b)
                              /\ info'[b].count = info[b].count
    BY <1>6, <1>7 DEF Live
  <2> QED BY <2>1, <2>2, <1>1, <1>4, <1>5, <1>7, <1>8, BirthCounts
<1>12. ref'[t] = NULL
  BY <1>2, <1>3, <1>4, <1>8 DEF HoldingOK, Releasing
<1>13. HoldingOK(t)' /\ CopyOK(t)'
  BY <1>9, <1>10, <1>12 DEF HoldingOK, CopyOK, Retaining, Releasing
<1> QED BY <1>2, <1>4, <1>8, <1>9, <1>10, <1>11, <1>13, ClientStep DEF Still

\* The exchange: the call now holds the former default allocator.
LEMMA ExchangeLifetime ==
    ASSUME LifetimeInv, NEW t \in Thread, Exchange(t)
    PROVE  ClientOK' /\ Counted'
<1> DEFINE o == ref[Default]  n == IF o = NULL THEN "idle" ELSE "release_load"
<1>1. /\ pc[t] = "exchange" /\ Continue(t, n, o, t)
      /\ ref' = [ref EXCEPT ![Default] = ref[t], ![t] = o]
      /\ mem' = mem /\ info' = info /\ old' = old /\ new' = new
  BY DEF Exchange
<1>2. o \in Object \cup {NULL} BY DEF LifetimeInv, ShapeInv, TypeOK
<1>3. n \in {"idle", "release_load"} /\ n \in PC /\ (n = "idle" <=> o = NULL)
  BY DEF PC
<1>4. /\ ref'[Default] = ref[t] /\ ref'[t] = o
      /\ \A h \in Holder \ {Default, t} : ref'[h] = ref[h]
      /\ Swapped(Default, t)
  BY <1>1, <1>2 DEF LifetimeInv, ShapeInv, TypeOK, Swapped
<1> HIDE DEF o, n
<1>5. /\ pc'[t] = n
      /\ n # "idle" => obj'[t] = o /\ hold'[t] = t
      /\ \A u \in Thread \ {t} :
            pc'[u] = pc[u] /\ obj'[u] = obj[u] /\ hold'[u] = hold[u]
  BY <1>1, <1>2, <1>3, ContinueFacts DEF LifetimeInv, ShapeInv
<1>6. Counted'
  <2>1. \A b \in Heap : Live(b)' <=> Live(b) BY <1>1 DEF Live
  <2> QED BY <2>1, <1>1, <1>4, SwapCounts
<1>7. new[t] = NULL
  BY <1>1, ThreadFacts DEF ConstructionOK, Retaining
<1>8. HoldingOK(t)' /\ CopyOK(t)'
  BY <1>1, <1>3, <1>4, <1>5, <1>7 DEF HoldingOK, CopyOK, Retaining, Releasing
<1>9. \A h \in Holder \ OwnPlaces(t) : ref'[h] = ref[h]
  BY <1>4 DEF OwnPlaces
<1> QED BY <1>1, <1>5, <1>6, <1>8, <1>9, ClientStep DEF Still

\* The calls, and the return of a creation that gets no memory.
LEMMA LocalLifetime ==
    ASSUME LifetimeInv, NEW t \in Thread, pc[t] \in {"idle", "allocate"},
           NEW n \in {"idle", "retain_load", "release_load", "allocate"},
           NEW o \in Object \cup {NULL}, NEW h \in Holder \cup {NULL},
           n # "idle" => o # NULL,
           n \in {"retain_load", "allocate"} => Owns(t, o) /\ ref[h] = NULL,
           n = "allocate" => h # t,
           n = "release_load" => ref[h] = o,
           Continue(t, n, o, h), UNCHANGED <<shared, old, new, aborted>>
    PROVE  ClientOK' /\ Counted'
<1>1. /\ pc'[t] = n
      /\ n # "idle" => obj'[t] = o /\ hold'[t] = h
      /\ \A u \in Thread \ {t} :
            pc'[u] = pc[u] /\ obj'[u] = obj[u] /\ hold'[u] = hold[u]
  BY ContinueFacts DEF LifetimeInv, ShapeInv, PC
<1>2. mem' = mem /\ info' = info /\ ref' = ref /\ old' = old /\ new' = new
  BY DEF shared
<1>3. new[t] = NULL /\ ref[t] = NULL
  BY ThreadFacts DEF ConstructionOK, HoldingOK, Retaining, Releasing
<1>4. HoldingOK(t)'
  BY <1>1, <1>2, <1>3
  DEF HoldingOK, Retaining, Releasing, Target, Owns, Owned
<1>5. CopyOK(t)' BY <1>1 DEF CopyOK
<1>6. Counted' BY <1>2, SameCounts DEF Live
<1> QED BY <1>1, <1>2, <1>4, <1>5, <1>6, ClientStep DEF Still

\* A reference handed over: held by one idle thread, then by another.
LEMMA PassLifetime ==
    ASSUME LifetimeInv, NEW t \in Thread, NEW u \in Thread, Pass(t, u)
    PROVE  ClientOK' /\ Counted'
<1>1. PICK v \in Owned(t), w \in Vacant(u) :
        ref[v] # NULL /\ ref' = [ref EXCEPT ![w] = ref[v], ![v] = NULL]
  BY DEF Pass
<1>2. v \in Owned(t) /\ w \in Owned(u) /\ v \in Var /\ w \in Var
      /\ ref[w] = NULL /\ v # w
  BY <1>1 DEF Owned, Vacant
<1>3. /\ Swapped(v, w)
      /\ \A h \in Holder \ {v, w} : ref'[h] = ref[h]
  BY <1>1, <1>2 DEF LifetimeInv, ShapeInv, TypeOK, Swapped
<1>4. /\ mem' = mem /\ info' = info /\ pc' = pc /\ obj' = obj /\ hold' = hold
      /\ old' = old /\ new' = new /\ pc[t] = "idle" /\ pc[u] = "idle"
  BY DEF Pass, local
<1>5. Counted'
  <2>1. \A b \in Heap : Live(b)' <=> Live(b) BY <1>4 DEF Live
  <2> QED BY <2>1, <1>2, <1>3, <1>4, SwapCounts
<1>6. ASSUME NEW x \in Thread PROVE HoldingOK(x)' /\ CopyOK(x)'
  <2>1. HoldingOK(x) /\ CopyOK(x) /\ ConstructionOK(x) BY ThreadFacts
  <2>2. CASE x \in {t, u}
    BY <2>1, <2>2, <1>2, <1>3, <1>4
    DEF HoldingOK, CopyOK, ConstructionOK, Retaining, Releasing
  <2>3. CASE x \notin {t, u}
    <3>1. \A h \in Owned(x) \cup {x} : ref'[h] = ref[h]
      BY <2>3, <1>2, <1>3 DEF Owned
    <3>2. new[x] # NULL => ref'[new[x]] = ref[new[x]]
      BY <1>2, <1>3, BuilderFacts DEF LifetimeInv
    <3> QED BY <3>1, <3>2, <1>4, StillHolds DEF Still
  <2> QED BY <2>2, <2>3
<1> QED BY <1>5, <1>6 DEF ClientOK

\* An abort leaves everything where it is.
LEMMA AbortLifetime ==
    ASSUME LifetimeInv, UNCHANGED <<shared, local>>
    PROVE  ClientOK' /\ Counted'
<1>1. /\ mem' = mem /\ info' = info /\ ref' = ref /\ pc' = pc /\ obj' = obj
      /\ hold' = hold /\ old' = old /\ new' = new
  BY DEF shared, local
<1>2. Counted' BY <1>1, SameCounts DEF Live
<1> QED BY <1>1, <1>2, StillHolds DEF ClientOK, Still

-----------------------------------------------------------------------------
(* LifetimeInv: every step.                                                *)

\* The steps of CFRetain.
LEMMA RetainLifetime ==
    ASSUME LifetimeInv, NEW t \in Thread, Retain(t)
    PROVE  ClientOK' /\ Counted'
<1>1. CASE RetainLoad(t) BY <1>1, LoadLifetime DEF RetainLoad
<1>2. CASE RetainImmortal(t)
  <2>1. obj[t] \notin Heap
    BY <1>2, ThreadFacts DEF RetainImmortal, CallOK
  <2> QED BY <2>1, <1>2, RetainReturnLifetime DEF RetainImmortal, SameFlags
<1>3. CASE RetainCAS(t)
  <2>1. /\ pc[t] = "retain_cas" /\ MayRetain(old[t]) /\ info[obj[t]] = old[t]
        /\ info' = [info EXCEPT ![obj[t]] = Incremented(info[obj[t]])]
        /\ RetainReturn(t)
    BY <1>3 DEF RetainCAS
  <2>2. obj[t] \in Object /\ info[obj[t]] \in Info
    BY <2>1, CallFacts DEF LifetimeInv
  <2>3. /\ Incremented(info[obj[t]]).count = info[obj[t]].count + 1
        /\ SameFlags(info[obj[t]], Incremented(info[obj[t]]))
    BY <2>1, <2>2, IncrementedInfo DEF MayRetain
  <2>4. /\ \A o \in Object \ {obj[t]} : info'[o] = info[o]
        /\ info'[obj[t]] = Incremented(info[obj[t]])
    BY <2>1, <2>2 DEF LifetimeInv, ShapeInv, TypeOK
  <2>5. \A o \in Heap : SameFlags(info[o], info'[o])
    BY <2>3, <2>4 DEF SameFlags
  <2> QED BY <2>1, <2>3, <2>4, <2>5, RetainReturnLifetime
<1>4. CASE RetainReload(t) BY <1>4, LoadLifetime DEF RetainReload
<1>5. CASE RetainAbort(t) BY <1>5, AbortLifetime DEF RetainAbort, Abort
<1> QED BY <1>1, <1>2, <1>3, <1>4, <1>5 DEF Retain

\* The returns of CFRelease.
LEMMA ReleaseLifetime ==
    ASSUME LifetimeInv, NEW t \in Thread,
           ReleaseImmortal(t) \/ ReleaseCAS(t) \/ ReleaseLastCAS(t)
    PROVE  ClientOK' /\ Counted'
<1>1. pc[t] = "release_cas" /\ Releasing(t)
  BY DEF ReleaseImmortal, ReleaseCAS, ReleaseLastCAS, Releasing
<1>2. PICK o \in Object, d \in Holder : o = obj[t] /\ d = hold[t]
  BY <1>1, CallFacts DEF LifetimeInv
<1>3. info[o] \in Info /\ o # NULL /\ ref[d] = o
  BY <1>1, <1>2, CallFacts, ThreadFacts DEF LifetimeInv, HoldingOK
<1>4. PICK n \in {"idle", "finalize"} :
        ReleaseReturn(t, n) /\ (n = "finalize" <=> ReleaseLastCAS(t))
  BY DEF ReleaseImmortal, ReleaseCAS, ReleaseLastCAS, MayRelease
<1>5. ref' = [ref EXCEPT ![d] = NULL] /\ mem' = mem
  BY <1>2, <1>4 DEF ReleaseReturn
<1>6. ref'[d] = NULL /\ \A h \in Holder \ {d} : ref'[h] = ref[h]
  BY <1>5 DEF LifetimeInv, ShapeInv, TypeOK
<1>7. Counted'
  <2>1. CASE ReleaseImmortal(t)
    <3>1. o \notin Heap /\ info' = info
      BY <2>1, <1>2, ThreadFacts DEF ReleaseImmortal, CallOK
    <3>2. \A b \in Heap : Live(b)' <=> Live(b) BY <3>1, <1>5 DEF Live
    <3> QED BY <3>1, <3>2, <1>3, <1>6, ReleaseCounts
  <2>2. CASE ReleaseCAS(t)
    <3>1. /\ MayRelease(info[o])
          /\ info' = [info EXCEPT ![o] = Decremented(info[o])]
      BY <2>2, <1>2 DEF ReleaseCAS
    <3>2. /\ Decremented(info[o]).count = info[o].count - 1
          /\ SameFlags(info[o], Decremented(info[o]))
      BY <3>1, <1>3, DecrementedInfo DEF MayRelease
    <3>3. /\ info'[o] = Decremented(info[o])
          /\ \A b \in Object \ {o} : info'[b] = info[b]
      BY <3>1 DEF LifetimeInv, ShapeInv, TypeOK
    <3>4. \A b \in Heap : Live(b)' <=> Live(b)
      BY <3>2, <3>3, <1>5, LiveSame DEF SameFlags
    <3> QED BY <3>2, <3>3, <3>4, <1>3, <1>6, ReleaseCounts
  <2>3. CASE ReleaseLastCAS(t)
    <3>1. /\ MayRelease(info[o]) /\ info[o].count = 1
          /\ info' = [info EXCEPT ![o] = Deallocating(info[o])]
      BY <2>3, <1>2 DEF ReleaseLastCAS
    <3>2. o \in Heap
      BY <3>1 DEF MayRelease, LifetimeInv, ShapeInv, StaticOK
    <3>3. /\ info'[o] = Deallocating(info[o])
          /\ \A b \in Object \ {o} : info'[b] = info[b]
      BY <3>1 DEF LifetimeInv, ShapeInv, TypeOK
    <3>4. Live(o) BY <3>2, <1>3, HeldIsLive
    <3>5. ~Live(o)' BY <3>3, <1>3, MarkedInfo DEF Live, Dead
    <3>6. \A b \in Heap \ {o} : /\ Live(b)' <=> Live(b)
                                /\ info'[b].count = info[b].count
      BY <3>3, <1>5 DEF Live
    <3> QED BY <3>1, <3>2, <3>4, <3>5, <3>6, <1>3, <1>6, LastCounts
  <2> QED BY <2>1, <2>2, <2>3
<1> QED BY <1>1, <1>4, <1>7, ReleaseReturnLifetime

\* The calls of a client that keeps the ownership rule.
LEMMA CallLifetime ==
    ASSUME LifetimeInv, NEW t \in Thread,
           \/ CallRetain(t) \/ CallRelease(t) \/ CallCreate(t)
           \/ CallSetDefault(t)
           \/ Owns(t, GetDefault) /\ CallCreateDefault(t)
    PROVE  ClientOK' /\ Counted'
<1>1. ASSUME NEW n \in {"retain_load", "allocate"}, NEW o \in Object, Owns(t, o),
             NEW h \in Holder, ref[h] = NULL, n = "allocate" => h # t,
             Call(t, n, o, h)
      PROVE  ClientOK' /\ Counted'
  BY <1>1, LocalLifetime DEF Call
<1>2. \A v \in Owned(t) : v \in Holder /\ v # t BY DEF Owned
<1>3. \A w \in Vacant(t) : w \in Holder /\ w # t /\ ref[w] = NULL
  BY <1>2 DEF Vacant
<1>4. \A v \in Owned(t) : ref[v] # NULL => ref[v] \in Object /\ Owns(t, ref[v])
  BY <1>2 DEF LifetimeInv, ShapeInv, TypeOK, Owns
<1>5. \A a \in Usable(t) : a \in Object /\ Owns(t, a)
  BY ConstantsTyped DEF Usable
<1>6. GetDefault \in Object
  BY DEF GetDefault, LifetimeInv, ShapeInv, TypeOK
<1>7. pc[t] = "idle" => ref[t] = NULL
  BY ThreadFacts DEF HoldingOK, Releasing
<1>8. CASE CallRetain(t) BY <1>1, <1>3, <1>4, <1>8 DEF CallRetain
<1>9. CASE CallRelease(t)
  <2>1. PICK v \in Owned(t) : ref[v] # NULL /\ Call(t, "release_load", ref[v], v)
    BY <1>9 DEF CallRelease
  <2> QED BY <2>1, <1>2, <1>4, LocalLifetime DEF Call
<1>10. CASE CallCreate(t) BY <1>1, <1>3, <1>5, <1>10 DEF CallCreate
<1>11. CASE CallSetDefault(t)
  BY <1>1, <1>5, <1>7, <1>11 DEF CallSetDefault, Call
<1>12. CASE Owns(t, GetDefault) /\ CallCreateDefault(t)
  BY <1>1, <1>3, <1>6, <1>12 DEF CallCreateDefault
<1> QED BY <1>8, <1>9, <1>10, <1>11, <1>12

\* The only abort a client that keeps the ownership rule can meet.
LEMMA AlarmStep ==
    ASSUME LifetimeInv, [Next]_vars
    PROVE  NoFalseAlarm'
<1>1. CASE aborted' = aborted BY <1>1 DEF LifetimeInv, NoFalseAlarm
<1>2. ASSUME NEW t \in Thread, RetainAbort(t) PROVE NoFalseAlarm'
  <2>1. ~Dead(old[t])
    BY <1>2, ThreadFacts, MortalFacts DEF RetainAbort, CopyOK, LifetimeInv
  <2> QED BY <1>2, <2>1 DEF RetainAbort, Abort, NoFalseAlarm
<1>3. ASSUME NEW t \in Thread PROVE ~ReleaseAbort(t)
  <2> SUFFICES ASSUME ReleaseAbort(t) PROVE FALSE
    OBVIOUS
  <2>1. ~Dead(old[t]) /\ old[t].count # 0
    BY ThreadFacts, MortalFacts DEF ReleaseAbort, CopyOK, LifetimeInv
  <2> QED BY <2>1 DEF ReleaseAbort, MayRelease
<1>4. ASSUME NEW t \in Thread, Retain(t) \/ Release(t) PROVE NoFalseAlarm'
  BY <1>1, <1>2, <1>3, <1>4
  DEF Retain, RetainLoad, RetainImmortal, RetainCAS, RetainReload, RetainReturn,
      Load, Release, ReleaseLoad, ReleaseImmortal, ReleaseCAS, ReleaseLastCAS,
      ReleaseReload, ReleaseReturn, Finalize, MarkDeallocated, Free
<1>5. ASSUME NEW t \in Thread, Create(t) \/ Exchange(t) PROVE NoFalseAlarm'
  BY <1>1, <1>5 DEF Create, AllocateFails, Allocate, Publish, Exchange
<1>6. ASSUME NEW t \in Thread, Client(t) PROVE NoFalseAlarm'
  BY <1>1, <1>6 DEF Client, CallRetain, CallRelease, CallCreate, CallSetDefault,
                    CallCreateDefault, Pass, Call
<1>7. CASE UNCHANGED vars BY <1>1, <1>7 DEF vars
<1> QED BY <1>4, <1>5, <1>6, <1>7 DEF Next, Runtime

\* Every step of a client that keeps the ownership rule.
LEMMA ClientCountStep ==
    ASSUME LifetimeInv, [Next]_vars
    PROVE  ClientOK' /\ Counted'
<1>1. ASSUME NEW t \in Thread, Release(t) PROVE ClientOK' /\ Counted'
  <2>1. CASE ReleaseLoad(t) BY <2>1, LoadLifetime DEF ReleaseLoad
  <2>2. CASE ReleaseReload(t) BY <2>2, LoadLifetime DEF ReleaseReload
  <2>3. CASE ReleaseAbort(t) BY <2>3, AbortLifetime DEF ReleaseAbort, Abort
  <2> QED BY <1>1, <2>1, <2>2, <2>3, ReleaseLifetime, DestroyLifetime,
             FreeLifetime DEF Release
<1>2. ASSUME NEW t \in Thread, Create(t) PROVE ClientOK' /\ Counted'
  <2>1. CASE AllocateFails(t)
    <3>1. pc[t] = "allocate" /\ Continue(t, "idle", obj[t], hold[t])
          /\ UNCHANGED <<shared, old, new, aborted>>
      BY <2>1 DEF AllocateFails, Goto
    <3>2. obj[t] \in Object /\ hold[t] \in Holder
      BY <3>1, CallFacts DEF LifetimeInv
    <3> QED BY <3>1, <3>2, LocalLifetime
  <2> QED BY <1>2, <2>1, AllocateLifetime, PublishLifetime DEF Create
<1>3. ASSUME NEW t \in Thread, Client(t) PROVE ClientOK' /\ Counted'
  <2>1. CASE \E u \in Thread : Pass(t, u) BY <2>1, PassLifetime
  <2>2. CASE ~\E u \in Thread : Pass(t, u)
    BY <1>3, <2>2, CallLifetime DEF Client
  <2> QED BY <2>1, <2>2
<1>4. CASE UNCHANGED vars BY <1>4, AbortLifetime DEF vars, shared, local
<1> QED BY <1>1, <1>2, <1>3, <1>4, RetainLifetime, ExchangeLifetime
        DEF Next, Runtime

\* The invariant is preserved by every step.
LEMMA LifetimeStep ==
    ASSUME LifetimeInv, [Next]_vars
    PROVE  LifetimeInv'
<1>1. [MisuseNext]_vars BY DEF MisuseNext
<1>2. ShapeInv' BY <1>1, ShapeStep DEF LifetimeInv
<1> QED BY <1>2, AlarmStep, ClientCountStep DEF LifetimeInv, Counted

\* The invariant holds initially.
LEMMA LifetimeInit ==
    ASSUME Init
    PROVE  LifetimeInv
<1>1. ShapeInv BY ShapeInit
<1>2. \A t \in Thread : pc[t] = "idle" /\ new[t] = NULL /\ ref[t] = NULL
  BY DEF Init
<1>3. ClientOK
  BY <1>2 DEF ClientOK, HoldingOK, CopyOK, Retaining, Releasing
<1>4. \A o \in Heap : ~Live(o) BY DEF Init, Live
<1>5. CountIsReferences BY <1>4 DEF CountIsReferences
<1>6. NoDanglingReference BY DEF Init, NoDanglingReference
<1>7. NoFalseAlarm BY DEF Init, NoFalseAlarm
<1> QED BY <1>1, <1>3, <1>5, <1>6, <1>7 DEF LifetimeInv

\* The inductive invariant of the object lifetime.
THEOREM Lifetime == Spec => []LifetimeInv
<1>1. Init => LifetimeInv BY LifetimeInit
<1>2. LifetimeInv /\ [Next]_vars => LifetimeInv' BY LifetimeStep
<1> QED BY <1>1, <1>2, PTL DEF Spec

-----------------------------------------------------------------------------
(* The safety properties of CFRuntime.                                     *)

\* The count in the info word of a live object is the number of strong
\* references to it, at every step of every interleaving of the loops.
THEOREM CountCorrect == Spec => []CountIsReferences
<1>1. LifetimeInv => CountIsReferences BY DEF LifetimeInv
<1> QED BY <1>1, Lifetime, PTL

\* Nobody holds a reference to an object whose deallocation has begun.
THEOREM NoDangling == Spec => []NoDanglingReference
<1>1. LifetimeInv => NoDanglingReference BY DEF LifetimeInv
<1> QED BY <1>1, Lifetime, PTL

\* A client that keeps the ownership rule meets no abort but the one on an
\* exhausted retain count.
THEOREM NoAlarm == Spec => []NoFalseAlarm
<1>1. LifetimeInv => NoFalseAlarm BY DEF LifetimeInv
<1> QED BY <1>1, Lifetime, PTL

\* The runtime reads and writes headers of objects only, and gives a block back
\* to an allocator that is still an object.
THEOREM NoFreedUse == Spec => []NoUseAfterFree
<1>1. ASSUME LifetimeInv PROVE NoUseAfterFree
  <2>1. ASSUME NEW t \in Thread, obj[t] \in Heap
        PROVE  mem[obj[t]] = "object"
    <3>1. pc[t] \in PC /\ pc[t] # "idle"
      BY <1>1, <2>1 DEF LifetimeInv, ShapeInv, TypeOK
    <3>2. CASE Retaining(t) \/ Releasing(t) \/ pc[t] \in {"allocate", "exchange"}
      BY <1>1, <2>1, <3>2, CallIsHeld DEF Live
    <3>3. CASE pc[t] = "publish"
      <4>1. new[t] \in Heap /\ ref[new[t]] = obj[t]
        BY <1>1, <2>1, <3>3, ThreadFacts, BuilderFacts
        DEF HoldingOK, ConstructionOK, LifetimeInv
      <4> QED BY <1>1, <2>1, <4>1, HeldIsLive DEF Live
    <3>4. CASE Destroying(t)
      BY <1>1, <3>4, DestroyerFacts DEF LifetimeInv
    <3> QED BY <3>1, <3>2, <3>3, <3>4 DEF PC, Retaining, Releasing, Destroying
  <2>2. ASSUME NEW t \in Thread, pc[t] = "free", AllocatorOf(obj[t]) \in Heap
        PROVE  mem[AllocatorOf(obj[t])] = "object"
    <3>1. obj[t] \in Heap
      BY <1>1, <2>2, DestroyerFacts DEF LifetimeInv, Destroying
    <3>2. AllocatorOf(obj[t]) = ref[obj[t]] BY <2>2 DEF AllocatorOf
    <3> QED BY <1>1, <2>2, <3>1, <3>2, HeldIsLive DEF Live
  <2> QED BY <2>1, <2>2 DEF NoUseAfterFree
<1> QED BY <1>1, Lifetime, PTL

-----------------------------------------------------------------------------
(* CFRuntime implements Ownership: every step of the compare-and-swap      *)
(* loops, of the deallocation and of the creation is a step of the         *)
(* specification that knows of no counts and no threads, or none at all.   *)

AbstractStep == Abstract!Next \/ UNCHANGED <<Life, ref>>

-----------------------------------------------------------------------------
(* The refinement mapping.                                                 *)

\* The life of a block depends on its memory and on its first mark only.
LEMMA LifeSame ==
    ASSUME NEW o \in Heap, mem'[o] = mem[o],
           info'[o].deallocating = info[o].deallocating
    PROVE  Life'[o] = Life[o]
BY DEF Life, LifeOf

\* Lives that agree on every block are equal.
LEMMA LifeUnchanged ==
    ASSUME \A o \in Heap : Life'[o] = Life[o]
    PROVE  Life' = Life
<1>1. /\ Life = [o \in Heap |-> Life[o]] /\ Life' = [o \in Heap |-> Life'[o]]
  BY DEF Life
<1> QED BY <1>1

\* The life of a block, from its memory and its marks.
LEMMA LifeFacts ==
    ASSUME ShapeInv, NEW o \in Heap
    PROVE  /\ mem[o] \in {"unused", "raw"} => Life[o] = "unborn"
           /\ Live(o) => Life[o] = "live"
           /\ mem[o] = "object" /\ info[o].deallocating => Life[o] = "dying"
           /\ mem[o] = "freed" => Life[o] = "dead"
<1>1. Live(o) => mem[o] = "object" /\ ~info[o].deallocating BY DEF Live, Dead
<1> QED BY <1>1 DEF Life, LifeOf

\* The initial states correspond.
LEMMA InitRefines == Init => Abstract!Init
<1> SUFFICES ASSUME Init PROVE Abstract!Init
  OBVIOUS
<1>1. Life = [o \in Heap |-> "unborn"]
  <2>1. \A o \in Heap : mem[o] = "unused" BY DEF Init
  <2> QED BY <2>1 DEF Life, LifeOf
<1>2. ref = [h \in Holder |-> NULL] BY DEF Init
<1> QED BY <1>1, <1>2 DEF Abstract!Init

-----------------------------------------------------------------------------
(* The steps.                                                              *)

\* A step that moves no reference and begins and ends no life.
LEMMA StutterRefines ==
    ASSUME ref' = ref,
           \A o \in Heap : /\ mem'[o] = mem[o]
                           /\ info'[o].deallocating = info[o].deallocating
    PROVE  AbstractStep
BY LifeSame, LifeUnchanged DEF AbstractStep

\* The return of a CFRetain is the acquisition of a reference.
LEMMA RetainRefines ==
    ASSUME LifetimeInv, NEW t \in Thread, RetainImmortal(t) \/ RetainCAS(t)
    PROVE  AbstractStep
<1>1. pc[t] = "retain_cas" /\ Retaining(t) /\ RetainReturn(t)
  BY DEF RetainImmortal, RetainCAS, Retaining
<1>2. PICK o \in Object, d \in Holder : o = obj[t] /\ d = Target(t)
  <2>1. new[t] \in Heap \cup {NULL} BY DEF LifetimeInv, ShapeInv, TypeOK
  <2> QED BY <1>1, <2>1, CallFacts DEF LifetimeInv, Target
<1>3. ref[d] = NULL /\ ref' = [ref EXCEPT ![d] = o] /\ mem' = mem
  BY <1>1, <1>2, ThreadFacts DEF HoldingOK, RetainReturn
<1>4. \A b \in Object : info'[b].deallocating = info[b].deallocating
  <2>1. CASE info' = info BY <2>1
  <2>2. CASE RetainCAS(t)
    <3>1. /\ info' = [info EXCEPT ![o] = Incremented(info[o])]
          /\ MayRetain(info[o])
      BY <2>2, <1>2 DEF RetainCAS
    <3>2. info[o] \in Info BY DEF LifetimeInv, ShapeInv, TypeOK
    <3>3. Incremented(info[o]).deallocating = info[o].deallocating
      BY <3>1, <3>2, IncrementedInfo DEF MayRetain, SameFlags
    <3> QED BY <3>1, <3>3 DEF LifetimeInv, ShapeInv, TypeOK
  <2> QED BY <2>1, <2>2 DEF RetainImmortal
<1>5. Life' = Life BY <1>3, <1>4, LifeSame, LifeUnchanged
<1>6. o \in Heap => Life[o] = "live"
  BY <1>1, <1>2, CallIsHeld, LifeFacts DEF LifetimeInv
<1>7. Abstract!Acquire(d, o) BY <1>3, <1>5, <1>6 DEF Abstract!Acquire
<1> QED BY <1>7 DEF AbstractStep, Abstract!Next

\* A count of one is the one reference there is.
LEMMA OnlyReference ==
    ASSUME LifetimeInv, NEW o \in Heap, NEW d \in Holder, Live(o), ref[d] = o
    PROVE  info[o].count = 1 <=> \A g \in Holder \ {d} : ref[g] # o
<1>1. info[o].count = Cardinality(Refs(o)) BY DEF LifetimeInv, CountIsReferences
<1>2. d \in Refs(o) BY DEF Refs
<1>3. Cardinality(Refs(o)) = 1 <=> Refs(o) = {d}
  BY <1>2, RefsFinite, FS_Singleton
<1> QED BY <1>1, <1>3 DEF Refs

\* The return of a CFRelease drops a reference, and the object dies with the
\* last one.
LEMMA ReleaseRefines ==
    ASSUME LifetimeInv, NEW t \in Thread,
           ReleaseImmortal(t) \/ ReleaseCAS(t) \/ ReleaseLastCAS(t)
    PROVE  AbstractStep
<1>1. pc[t] = "release_cas" /\ Releasing(t)
  BY DEF ReleaseImmortal, ReleaseCAS, ReleaseLastCAS, Releasing
<1>2. PICK o \in Object, d \in Holder : o = obj[t] /\ d = hold[t]
  BY <1>1, CallFacts DEF LifetimeInv
<1>3. info[o] \in Info /\ ref[d] = o /\ o # NULL
  BY <1>1, <1>2, CallFacts, ThreadFacts DEF LifetimeInv, HoldingOK
<1>4. ref' = [ref EXCEPT ![d] = NULL] /\ mem' = mem
  BY <1>2 DEF ReleaseImmortal, ReleaseCAS, ReleaseLastCAS, ReleaseReturn
<1> DEFINE last == \A g \in Holder \ {d} : ref[g] # o
<1>5. ASSUME NEW b \in Heap
      PROVE  Life'[b] = IF b = o /\ last THEN "dying" ELSE Life[b]
  <2>1. CASE ReleaseImmortal(t)
    <3>1. o \notin Heap /\ info' = info
      BY <2>1, <1>2, ThreadFacts DEF ReleaseImmortal, CallOK
    <3> QED BY <3>1, <1>4, LifeSame
  <2>2. CASE ReleaseCAS(t)
    <3>1. /\ MayRelease(info[o]) /\ info[o].count > 1
          /\ info' = [info EXCEPT ![o] = Decremented(info[o])]
      BY <2>2, <1>2 DEF ReleaseCAS
    <3>2. o \in Heap
      BY <3>1 DEF MayRelease, LifetimeInv, ShapeInv, StaticOK
    <3>3. ~last
      BY <3>1, <3>2, <1>3, HeldIsLive, OnlyReference DEF Info
    <3>4. Decremented(info[o]).deallocating = info[o].deallocating
      BY <3>1, <1>3, DecrementedInfo DEF MayRelease, SameFlags
    <3>5. info'[b].deallocating = info[b].deallocating
      BY <3>1, <3>4 DEF LifetimeInv, ShapeInv, TypeOK
    <3> QED BY <3>3, <3>5, <1>4, LifeSame
  <2>3. CASE ReleaseLastCAS(t)
    <3>1. /\ MayRelease(info[o]) /\ info[o].count = 1
          /\ info' = [info EXCEPT ![o] = Deallocating(info[o])]
      BY <2>3, <1>2 DEF ReleaseLastCAS
    <3>2. o \in Heap
      BY <3>1 DEF MayRelease, LifetimeInv, ShapeInv, StaticOK
    <3>3. Live(o) /\ last BY <3>1, <3>2, <1>3, HeldIsLive, OnlyReference
    <3>4. /\ info'[o] = Deallocating(info[o])
          /\ \A c \in Object \ {o} : info'[c] = info[c]
      BY <3>1 DEF LifetimeInv, ShapeInv, TypeOK
    <3>5. CASE b = o
      <4>1. mem'[o] = "object" /\ info'[o].deallocating
        BY <3>3, <3>4, <1>3, <1>4, MarkedInfo DEF Live
      <4>2. Life'[o] = "dying" BY <4>1, <3>2 DEF Life, LifeOf
      <4> QED BY <4>2, <3>5, <3>3
    <3>6. CASE b # o BY <3>4, <3>6, <1>4, LifeSame
    <3> QED BY <3>5, <3>6
  <2> QED BY <2>1, <2>2, <2>3
<1>6. Life' = [b \in Heap |-> IF b = o /\ last THEN "dying" ELSE Life[b]]
  <2>1. Life' = [b \in Heap |-> Life'[b]] BY DEF Life
  <2> QED BY <2>1, <1>5
<1>7. Abstract!Drop(d) BY <1>3, <1>4, <1>6 DEF Abstract!Drop
<1> QED BY <1>7 DEF AbstractStep, Abstract!Next

\* Freeing the block buries the object; its allocator's reference moves on.
LEMMA FreeRefines ==
    ASSUME LifetimeInv, NEW t \in Thread, Free(t)
    PROVE  AbstractStep
<1>1. pc[t] = "free" /\ Destroying(t) BY DEF Free, Destroying
<1>2. PICK o \in Heap : /\ o = obj[t] /\ mem[o] = "object"
                        /\ info[o].deallocating
  BY <1>1, DestroyerFacts DEF LifetimeInv
<1>3. mem' = [mem EXCEPT ![o] = "freed"] /\ info' = info
  BY <1>2 DEF Free
<1>4. mem'[o] = "freed" /\ \A b \in Heap \ {o} : mem'[b] = mem[b]
  BY <1>3 DEF LifetimeInv, ShapeInv, TypeOK
<1>5. Life[o] = "dying" BY <1>2, LifeFacts DEF LifetimeInv
<1>6. Life' = [Life EXCEPT ![o] = "dead"]
  <2>1. Life'[o] = "dead" BY <1>4 DEF Life, LifeOf
  <2>2. \A b \in Heap \ {o} : Life'[b] = Life[b] BY <1>3, <1>4, LifeSame
  <2>3. /\ Life = [b \in Heap |-> Life[b]] /\ Life' = [b \in Heap |-> Life'[b]]
    BY DEF Life
  <2> QED BY <2>1, <2>2, <2>3
<1>7. ref[t] = NULL BY <1>1, ThreadFacts DEF HoldingOK, Releasing
<1>8. \/ ref[o] = NULL /\ ref' = ref
      \/ ref' = [ref EXCEPT ![t] = ref[o], ![o] = NULL]
  <2>1. info[o].usesDefault => ref[o] = NULL
    BY <1>2 DEF LifetimeInv, ShapeInv, HeapOK, BlockOK
  <2> QED BY <2>1, <1>2 DEF Free
<1>9. Abstract!Bury(o, t) BY <1>5, <1>6, <1>7, <1>8 DEF Abstract!Bury
<1> QED BY <1>9 DEF AbstractStep, Abstract!Next

\* Publishing the block bears the object.
LEMMA PublishRefines ==
    ASSUME LifetimeInv, NEW t \in Thread, Publish(t)
    PROVE  AbstractStep
<1>1. pc[t] = "publish" BY DEF Publish
<1>2. PICK o \in Heap, d \in Holder :
        o = new[t] /\ d = hold[t] /\ mem[o] = "raw" /\ ref[d] = NULL
  BY <1>1, CallFacts, ThreadFacts, BuilderFacts
  DEF ConstructionOK, HoldingOK, LifetimeInv
<1> DEFINE i == InfoMake(1, obj[t] = SystemDefault, FALSE)
<1>3. /\ info' = [info EXCEPT ![o] = i]
      /\ mem' = [mem EXCEPT ![o] = "object"]
      /\ ref' = [ref EXCEPT ![d] = o]
  BY <1>2 DEF Publish
<1>4. ~i.deallocating BY NewInfo
<1> HIDE DEF i
<1>5. /\ mem'[o] = "object" /\ \A b \in Heap \ {o} : mem'[b] = mem[b]
      /\ info'[o] = i /\ \A b \in Heap \ {o} : info'[b] = info[b]
  BY <1>3 DEF LifetimeInv, ShapeInv, TypeOK
<1>6. Life[o] = "unborn" BY <1>2, LifeFacts DEF LifetimeInv
<1>7. Life' = [Life EXCEPT ![o] = "live"]
  <2>1. Life'[o] = "live" BY <1>4, <1>5 DEF Life, LifeOf
  <2>2. \A b \in Heap \ {o} : Life'[b] = Life[b] BY <1>5, LifeSame
  <2>3. /\ Life = [b \in Heap |-> Life[b]] /\ Life' = [b \in Heap |-> Life'[b]]
    BY DEF Life
  <2> QED BY <2>1, <2>2, <2>3
<1>8. Abstract!Bear(o, d) BY <1>2, <1>3, <1>6, <1>7 DEF Abstract!Bear
<1> QED BY <1>8 DEF AbstractStep, Abstract!Next

\* A reference handed to another thread, and the exchange of the default
\* allocator, are references that change places.
LEMMA SwapRefines ==
    ASSUME LifetimeInv, NEW t \in Thread,
           Exchange(t) \/ \E u \in Thread : Pass(t, u)
    PROVE  AbstractStep
<1>1. mem' = mem /\ info' = info BY DEF Exchange, Pass
<1>2. Life' = Life BY <1>1, LifeSame, LifeUnchanged
<1>3. \E g, h \in Holder : ref' = [ref EXCEPT ![g] = ref[h], ![h] = ref[g]]
  <2>1. CASE Exchange(t) BY <2>1 DEF Exchange
  <2>2. CASE \E u \in Thread : Pass(t, u)
    <3>1. PICK u \in Thread : Pass(t, u) BY <2>2
    <3>2. PICK v \in Owned(t), w \in Vacant(u) :
            ref' = [ref EXCEPT ![w] = ref[v], ![v] = NULL]
      BY <3>1 DEF Pass
    <3>3. v \in Holder /\ w \in Holder /\ ref[w] = NULL BY DEF Owned, Vacant
    <3> QED BY <3>2, <3>3
  <2> QED BY <2>1, <2>2
<1>4. \E g, h \in Holder : Abstract!Swap(g, h)
  BY <1>2, <1>3 DEF Abstract!Swap
<1> QED BY <1>4 DEF AbstractStep, Abstract!Next

\* Everything else stutters.
LEMMA QuietRefines ==
    ASSUME LifetimeInv, NEW t \in Thread,
           \/ RetainLoad(t) \/ RetainReload(t) \/ RetainAbort(t)
           \/ ReleaseLoad(t) \/ ReleaseReload(t) \/ ReleaseAbort(t)
           \/ Finalize(t) \/ MarkDeallocated(t)
           \/ AllocateFails(t) \/ Allocate(t)
           \/ CallRetain(t) \/ CallRelease(t) \/ CallCreate(t)
           \/ CallSetDefault(t) \/ CallCreateDefault(t)
    PROVE  AbstractStep
<1>1. CASE MarkDeallocated(t)
  <2>1. /\ info' = [info EXCEPT ![obj[t]] = Deallocated(info[obj[t]])]
        /\ mem' = mem /\ ref' = ref
    BY <1>1 DEF MarkDeallocated
  <2>2. obj[t] \in Heap /\ info[obj[t]] \in Info
    BY <1>1, DestroyerFacts
    DEF MarkDeallocated, Destroying, LifetimeInv, ShapeInv, TypeOK
  <2>3. \A b \in Heap : info'[b].deallocating = info[b].deallocating
    BY <2>1, <2>2, MarkedInfo DEF LifetimeInv, ShapeInv, TypeOK
  <2> QED BY <2>1, <2>3, StutterRefines
<1>2. CASE Allocate(t)
  <2>1. PICK o \in Heap : mem[o] = "unused" /\ mem' = [mem EXCEPT ![o] = "raw"]
    BY <1>2 DEF Allocate
  <2>2. info' = info /\ ref' = ref BY <1>2 DEF Allocate
  <2>3. mem'[o] = "raw" /\ \A b \in Heap \ {o} : mem'[b] = mem[b]
    BY <2>1 DEF LifetimeInv, ShapeInv, TypeOK
  <2>4. Life'[o] = Life[o] BY <2>1, <2>3 DEF Life, LifeOf
  <2>5. \A b \in Heap \ {o} : Life'[b] = Life[b] BY <2>2, <2>3, LifeSame
  <2> QED BY <2>2, <2>4, <2>5, LifeUnchanged DEF AbstractStep
<1>3. CASE ~MarkDeallocated(t) /\ ~Allocate(t)
  <2>1. mem' = mem /\ info' = info /\ ref' = ref
    BY <1>3 DEF RetainLoad, RetainReload, RetainAbort, ReleaseLoad,
                ReleaseReload, ReleaseAbort, Finalize, AllocateFails, CallRetain,
                CallRelease, CallCreate, CallSetDefault, CallCreateDefault,
                Load, Abort, Call, shared
  <2> QED BY <2>1, StutterRefines
<1> QED BY <1>1, <1>2, <1>3

\* Every step of the runtime is a step of Ownership, or stutters.
LEMMA StepRefines ==
    ASSUME LifetimeInv, [Next]_vars
    PROVE  AbstractStep
<1>1. ASSUME NEW t \in Thread, Runtime(t) PROVE AbstractStep
  BY <1>1, RetainRefines, ReleaseRefines, FreeRefines, PublishRefines,
     SwapRefines, QuietRefines DEF Runtime, Retain, Release, Create
<1>2. ASSUME NEW t \in Thread, Client(t) PROVE AbstractStep
  BY <1>2, SwapRefines, QuietRefines DEF Client
<1>3. CASE UNCHANGED vars BY <1>3, StutterRefines DEF vars
<1> QED BY <1>1, <1>2, <1>3 DEF Next

\* The runtime implements the specification of object lifetime: an object is
\* live exactly as long as it is referenced, and dies with its last reference.
THEOREM Refinement == Spec => ImplementsOwnership
<1>1. Init => Abstract!Init BY InitRefines
<1>2. LifetimeInv /\ [Next]_vars => [Abstract!Next]_<<Life, ref>>
  BY StepRefines DEF AbstractStep
<1> QED BY <1>1, <1>2, Lifetime, PTL DEF Spec, ImplementsOwnership, Abstract!Spec

=============================================================================
