------------------------- MODULE CFClassTableProofs -------------------------
(***************************************************************************)
(* The safety of the class table for any number of threads, classes and    *)
(* entries.  The inductive invariant says who is inside the once control   *)
(* and inside the mutex, and what the table holds below and above nextID.  *)
(***************************************************************************)
EXTENDS CFClassTable, TLAPS

InMutex == {"take", "bump", "store", "unlock"}

\* One thread at most runs the initialisation, and nobody gets past the once
\* control before it is done.
OnceInv ==
    /\ \A t \in Thread : pc[t] = "publish" => once = "running"
    /\ \A t, u \in Thread : pc[t] = "publish" /\ pc[u] = "publish" => t = u
    /\ \A t \in Thread : pc[t] \in InMutex \cup {"check", "lookup"} => once = "done"
    /\ once = "done" => unpublished = {}

LockInv == \A t \in Thread : pc[t] \in InMutex <=> lock = t

\* What a call is about, at each place of its way.
CallInv ==
    \A t \in Thread :
        /\ pc[t] = "idle" <=> op[t] = "none"
        /\ pc[t] \in InMutex \cup {"check"} => op[t] = "register"
        /\ pc[t] = "lookup" => op[t] = "create"
        /\ pc[t] \in InMutex => Acceptable(arg[t])
        /\ op[t] = "create" => arg[t] \in Known
        /\ pc[t] = "bump" => typeID[t] = nextID /\ nextID < TableSize
        /\ pc[t] \in {"store", "unlock"} =>
              typeID[t] = nextID - 1 /\ typeID[t] >= FirstDynamic

\* The builtin part of the table, and the entries not yet given away.
TableInv ==
    /\ \A id \in Builtin :
          table[id] = IF id \in unpublished THEN NULL ELSE BuiltinClass[id]
    /\ \A id \in ID : id >= nextID => table[id] = NULL
    /\ \A t \in Thread : pc[t] = "store" => table[typeID[t]] = NULL
    /\ \A t \in Thread : pc[t] = "unlock" => table[typeID[t]] = arg[t]

IssuedInv ==
    /\ \A id \in ID :
          /\ issued[id] <= 1
          /\ issued[id] = 1 => /\ table[id] = classOf[id] /\ table[id] # NULL
                               /\ id >= FirstDynamic /\ id < nextID
    /\ \A t \in Thread : pc[t] \in {"store", "unlock"} => issued[typeID[t]] = 0

InstanceInv == \A i \in instances : table[i.id] # NULL /\ table[i.id] = i.isa

IInv == TypeOK /\ OnceInv /\ LockInv /\ CallInv /\ TableInv /\ IssuedInv /\ InstanceInv

\* No class of the table is NULL.
LEMMA ClassesNotNull == NULL \notin Classes /\ Builtin \subseteq ID
BY TableAssumption, ClassAssumption DEF Classes, ID

\* Nothing is known, locked or published at the start.
LEMMA InitInv == Init => IInv
<1> SUFFICES ASSUME Init PROVE IInv
    OBVIOUS
<1>1. TypeOK
    BY TableAssumption, ClassAssumption
    DEF Init, TypeOK, ID, Classes, PC
<1>2. OnceInv /\ LockInv /\ CallInv
    BY ClassAssumption DEF Init, OnceInv, LockInv, CallInv, InMutex
<1>3. TableInv /\ IssuedInv /\ InstanceInv
    BY TableAssumption, ClassesNotNull
    DEF Init, TableInv, IssuedInv, InstanceInv, ID
<1> QED BY <1>1, <1>2, <1>3 DEF IInv

\* EnterOnce keeps the invariant.
LEMMA EnterOnceInv == ASSUME IInv, NEW t \in Thread, EnterOnce(t) PROVE IInv'
<1> USE ClassesNotNull, TableAssumption, ClassAssumption DEF IInv, EnterOnce, Goto, shared, local, client
<1>1. TypeOK'
    BY DEF TypeOK, PC, CallInv, Known, InMutex, ID, Classes
<1>2. OnceInv'
    BY DEF TypeOK, OnceInv, InMutex
<1>3. LockInv'
    BY DEF TypeOK, LockInv, InMutex
<1>4. CallInv'
    BY DEF TypeOK, LockInv, CallInv, InMutex, Known, Acceptable
<1>5. TableInv'
    BY DEF TypeOK, OnceInv, LockInv, CallInv, TableInv, InMutex, ID, Acceptable
<1>6. IssuedInv'
    BY DEF TypeOK, LockInv, CallInv, TableInv, IssuedInv, InMutex, ID, Acceptable
<1>7. InstanceInv'
    BY DEF TypeOK, CallInv, TableInv, InstanceInv, InMutex, ID
<1> QED BY <1>1, <1>2, <1>3, <1>4, <1>5, <1>6, <1>7 DEF IInv

\* PublishClass keeps the invariant.
LEMMA PublishClassInv == ASSUME IInv, NEW t \in Thread, PublishClass(t) PROVE IInv'
<1> USE ClassesNotNull, TableAssumption, ClassAssumption DEF IInv, PublishClass, Goto, shared, local, client
<1>1. TypeOK'
    BY DEF TypeOK, PC, CallInv, Known, InMutex, ID, Classes
<1>2. OnceInv'
    BY DEF TypeOK, OnceInv, InMutex
<1>3. LockInv'
    BY DEF TypeOK, LockInv, InMutex
<1>4. CallInv'
    BY DEF TypeOK, LockInv, CallInv, InMutex, Known, Acceptable
<1>5. TableInv'
    BY DEF TypeOK, OnceInv, LockInv, CallInv, TableInv, InMutex, ID, Acceptable
<1>6. IssuedInv'
    BY DEF TypeOK, LockInv, CallInv, TableInv, IssuedInv, InMutex, ID, Acceptable
<1>7. InstanceInv'
    BY DEF TypeOK, CallInv, TableInv, InstanceInv, InMutex, ID
<1> QED BY <1>1, <1>2, <1>3, <1>4, <1>5, <1>6, <1>7 DEF IInv

\* LeaveOnce keeps the invariant.
LEMMA LeaveOnceInv == ASSUME IInv, NEW t \in Thread, LeaveOnce(t) PROVE IInv'
<1> USE ClassesNotNull, TableAssumption, ClassAssumption DEF IInv, LeaveOnce, Body, Goto, shared, local, client
<1>1. TypeOK'
    BY DEF TypeOK, PC, CallInv, Known, InMutex, ID, Classes
<1>2. OnceInv'
    BY DEF TypeOK, OnceInv, InMutex
<1>3. LockInv'
    BY DEF TypeOK, LockInv, InMutex
<1>4. CallInv'
    BY DEF TypeOK, LockInv, CallInv, InMutex, Known, Acceptable
<1>5. TableInv'
    BY DEF TypeOK, OnceInv, LockInv, CallInv, TableInv, InMutex, ID, Acceptable
<1>6. IssuedInv'
    BY DEF TypeOK, LockInv, CallInv, TableInv, IssuedInv, InMutex, ID, Acceptable
<1>7. InstanceInv'
    BY DEF TypeOK, CallInv, TableInv, InstanceInv, InMutex, ID
<1> QED BY <1>1, <1>2, <1>3, <1>4, <1>5, <1>6, <1>7 DEF IInv

\* PassOnce keeps the invariant.
LEMMA PassOnceInv == ASSUME IInv, NEW t \in Thread, PassOnce(t) PROVE IInv'
<1> USE ClassesNotNull, TableAssumption, ClassAssumption DEF IInv, PassOnce, Body, Goto, shared, local, client
<1>1. TypeOK'
    BY DEF TypeOK, PC, CallInv, Known, InMutex, ID, Classes
<1>2. OnceInv'
    BY DEF TypeOK, OnceInv, InMutex
<1>3. LockInv'
    BY DEF TypeOK, LockInv, InMutex
<1>4. CallInv'
    BY DEF TypeOK, LockInv, CallInv, InMutex, Known, Acceptable
<1>5. TableInv'
    BY DEF TypeOK, OnceInv, LockInv, CallInv, TableInv, InMutex, ID, Acceptable
<1>6. IssuedInv'
    BY DEF TypeOK, LockInv, CallInv, TableInv, IssuedInv, InMutex, ID, Acceptable
<1>7. InstanceInv'
    BY DEF TypeOK, CallInv, TableInv, InstanceInv, InMutex, ID
<1> QED BY <1>1, <1>2, <1>3, <1>4, <1>5, <1>6, <1>7 DEF IInv

\* CheckFails keeps the invariant.
LEMMA CheckFailsInv == ASSUME IInv, NEW t \in Thread, CheckFails(t) PROVE IInv'
<1> USE ClassesNotNull, TableAssumption, ClassAssumption DEF IInv, CheckFails, Finish, Goto, shared, local, client
<1>1. TypeOK'
    BY DEF TypeOK, PC, CallInv, Known, InMutex, ID, Classes
<1>2. OnceInv'
    BY DEF TypeOK, OnceInv, InMutex
<1>3. LockInv'
    BY DEF TypeOK, LockInv, InMutex
<1>4. CallInv'
    BY DEF TypeOK, LockInv, CallInv, InMutex, Known, Acceptable
<1>5. TableInv'
    BY DEF TypeOK, OnceInv, LockInv, CallInv, TableInv, InMutex, ID, Acceptable
<1>6. IssuedInv'
    BY DEF TypeOK, LockInv, CallInv, TableInv, IssuedInv, InMutex, ID, Acceptable
<1>7. InstanceInv'
    BY DEF TypeOK, CallInv, TableInv, InstanceInv, InMutex, ID
<1> QED BY <1>1, <1>2, <1>3, <1>4, <1>5, <1>6, <1>7 DEF IInv

\* Lock keeps the invariant.
LEMMA LockStepInv == ASSUME IInv, NEW t \in Thread, Lock(t) PROVE IInv'
<1> USE ClassesNotNull, TableAssumption, ClassAssumption DEF IInv, Lock, Goto, shared, local, client
<1>1. TypeOK'
    BY DEF TypeOK, PC, CallInv, Known, InMutex, ID, Classes
<1>2. OnceInv'
    BY DEF TypeOK, OnceInv, InMutex
<1>3. LockInv'
    BY DEF TypeOK, LockInv, InMutex
<1>4. CallInv'
    BY DEF TypeOK, LockInv, CallInv, InMutex, Known, Acceptable
<1>5. TableInv'
    BY DEF TypeOK, OnceInv, LockInv, CallInv, TableInv, InMutex, ID, Acceptable
<1>6. IssuedInv'
    BY DEF TypeOK, LockInv, CallInv, TableInv, IssuedInv, InMutex, ID, Acceptable
<1>7. InstanceInv'
    BY DEF TypeOK, CallInv, TableInv, InstanceInv, InMutex, ID
<1> QED BY ONLY <1>1, <1>2, <1>3, <1>4, <1>5, <1>6, <1>7 DEF IInv

\* TableFull keeps the invariant.
LEMMA TableFullInv == ASSUME IInv, NEW t \in Thread, TableFull(t) PROVE IInv'
<1> USE ClassesNotNull, TableAssumption, ClassAssumption DEF IInv, TableFull, Full, Finish, Goto, shared, local, client
<1>1. TypeOK'
    BY DEF TypeOK, PC, CallInv, Known, InMutex, ID, Classes
<1>2. OnceInv'
    BY DEF TypeOK, OnceInv, InMutex
<1>3. LockInv'
    BY DEF TypeOK, LockInv, InMutex
<1>4. CallInv'
    BY DEF TypeOK, LockInv, CallInv, InMutex, Known, Acceptable
<1>5. TableInv'
    BY DEF TypeOK, OnceInv, LockInv, CallInv, TableInv, InMutex, ID, Acceptable
<1>6. IssuedInv'
    BY DEF TypeOK, LockInv, CallInv, TableInv, IssuedInv, InMutex, ID, Acceptable
<1>7. InstanceInv'
    BY DEF TypeOK, CallInv, TableInv, InstanceInv, InMutex, ID
<1> QED BY <1>1, <1>2, <1>3, <1>4, <1>5, <1>6, <1>7 DEF IInv

\* LoadNext keeps the invariant.
LEMMA LoadNextInv == ASSUME IInv, NEW t \in Thread, LoadNext(t) PROVE IInv'
<1> USE ClassesNotNull, TableAssumption, ClassAssumption DEF IInv, LoadNext, Full, Goto, shared, local, client
<1>1. TypeOK'
    BY DEF TypeOK, PC, CallInv, Known, InMutex, ID, Classes
<1>2. OnceInv'
    BY DEF TypeOK, OnceInv, InMutex
<1>3. LockInv'
    BY DEF TypeOK, LockInv, InMutex
<1>4. CallInv'
    BY DEF TypeOK, LockInv, CallInv, InMutex, Known, Acceptable
<1>5. TableInv'
    BY DEF TypeOK, OnceInv, LockInv, CallInv, TableInv, InMutex, ID, Acceptable
<1>6. IssuedInv'
    BY DEF TypeOK, LockInv, CallInv, TableInv, IssuedInv, InMutex, ID, Acceptable
<1>7. InstanceInv'
    BY DEF TypeOK, CallInv, TableInv, InstanceInv, InMutex, ID
<1> QED BY <1>1, <1>2, <1>3, <1>4, <1>5, <1>6, <1>7 DEF IInv

\* BumpNext keeps the invariant.
LEMMA BumpNextInv == ASSUME IInv, NEW t \in Thread, BumpNext(t) PROVE IInv'
<1> USE ClassesNotNull, TableAssumption, ClassAssumption DEF IInv, BumpNext, Full, Goto, shared, local, client
<1>1. TypeOK'
    BY DEF TypeOK, PC, CallInv, Known, InMutex, ID, Classes
<1>2. OnceInv'
    BY DEF TypeOK, OnceInv, InMutex
<1>3. LockInv'
    BY DEF TypeOK, LockInv, InMutex
<1>4. CallInv'
    BY DEF TypeOK, LockInv, CallInv, InMutex, Known, Acceptable
<1>5. TableInv'
    BY DEF TypeOK, OnceInv, LockInv, CallInv, TableInv, InMutex, ID, Acceptable
<1>6. IssuedInv'
    BY DEF TypeOK, LockInv, CallInv, TableInv, IssuedInv, InMutex, ID, Acceptable
<1>7. InstanceInv'
    BY DEF TypeOK, CallInv, TableInv, InstanceInv, InMutex, ID
<1> QED BY <1>1, <1>2, <1>3, <1>4, <1>5, <1>6, <1>7 DEF IInv

\* StoreClass keeps the invariant.
LEMMA StoreClassInv == ASSUME IInv, NEW t \in Thread, StoreClass(t) PROVE IInv'
<1> USE ClassesNotNull, TableAssumption, ClassAssumption DEF IInv, StoreClass, Goto, shared, local, client
<1>1. TypeOK'
    BY DEF TypeOK, PC, CallInv, Known, InMutex, ID, Classes
<1>2. OnceInv'
    BY DEF TypeOK, OnceInv, InMutex
<1>3. LockInv'
    BY DEF TypeOK, LockInv, InMutex
<1>4. CallInv'
    BY DEF TypeOK, LockInv, CallInv, InMutex, Known, Acceptable
<1>5. TableInv'
    BY DEF TypeOK, OnceInv, LockInv, CallInv, TableInv, InMutex, ID, Acceptable
<1>6. IssuedInv'
    BY DEF TypeOK, LockInv, CallInv, TableInv, IssuedInv, InMutex, ID, Acceptable
<1>7. InstanceInv'
    BY DEF TypeOK, CallInv, TableInv, InstanceInv, InMutex, ID
<1> QED BY <1>1, <1>2, <1>3, <1>4, <1>5, <1>6, <1>7 DEF IInv

\* Unlock keeps the invariant.
LEMMA UnlockInv == ASSUME IInv, NEW t \in Thread, Unlock(t) PROVE IInv'
<1> USE ClassesNotNull, TableAssumption, ClassAssumption DEF IInv, Unlock, Finish, Goto, shared, local, client
<1>1. TypeOK'
    BY DEF TypeOK, PC, CallInv, Known, InMutex, ID, Classes
<1>2. OnceInv'
    BY DEF TypeOK, OnceInv, InMutex
<1>3. LockInv'
    BY DEF TypeOK, LockInv, InMutex
<1>4. CallInv'
    BY DEF TypeOK, LockInv, CallInv, InMutex, Known, Acceptable
<1>5. TableInv'
    BY DEF TypeOK, OnceInv, LockInv, CallInv, TableInv, InMutex, ID, Acceptable
<1>6. IssuedInv'
    BY DEF TypeOK, LockInv, CallInv, TableInv, IssuedInv, InMutex, ID, Acceptable
<1>7. InstanceInv'
    BY DEF TypeOK, CallInv, TableInv, InstanceInv, InMutex, ID
<1> QED BY <1>1, <1>2, <1>3, <1>4, <1>5, <1>6, <1>7 DEF IInv

\* CreateInstance keeps the invariant.
LEMMA CreateInstanceInv == ASSUME IInv, NEW t \in Thread, CreateInstance(t) PROVE IInv'
<1> USE ClassesNotNull, TableAssumption, ClassAssumption DEF IInv, CreateInstance, Finish, Instantiable, Goto, shared, local, client
<1>1. TypeOK'
    BY DEF TypeOK, PC, CallInv, Known, InMutex, ID, Classes
<1>2. OnceInv'
    BY DEF TypeOK, OnceInv, InMutex
<1>3. LockInv'
    BY DEF TypeOK, LockInv, InMutex
<1>4. CallInv'
    BY DEF TypeOK, LockInv, CallInv, InMutex, Known, Acceptable
<1>5. TableInv'
    BY DEF TypeOK, OnceInv, LockInv, CallInv, TableInv, InMutex, ID, Acceptable
<1>6. IssuedInv'
    BY DEF TypeOK, LockInv, CallInv, TableInv, IssuedInv, InMutex, ID, Acceptable
<1>7. InstanceInv'
    BY DEF TypeOK, CallInv, TableInv, InstanceInv, InMutex, ID
<1> QED BY <1>1, <1>2, <1>3, <1>4, <1>5, <1>6, <1>7 DEF IInv

\* CallRegister keeps the invariant.
LEMMA CallRegisterInv == ASSUME IInv, NEW t \in Thread, CallRegister(t) PROVE IInv'
<1> USE ClassesNotNull, TableAssumption, ClassAssumption DEF IInv, CallRegister, Begin, Goto, shared, local, client
<1>1. TypeOK'
    BY DEF TypeOK, PC, CallInv, Known, InMutex, ID, Classes
<1>2. OnceInv'
    BY DEF TypeOK, OnceInv, InMutex
<1>3. LockInv'
    BY DEF TypeOK, LockInv, InMutex
<1>4. CallInv'
    BY DEF TypeOK, LockInv, CallInv, InMutex, Known, Acceptable
<1>5. TableInv'
    BY DEF TypeOK, OnceInv, LockInv, CallInv, TableInv, InMutex, ID, Acceptable
<1>6. IssuedInv'
    BY DEF TypeOK, LockInv, CallInv, TableInv, IssuedInv, InMutex, ID, Acceptable
<1>7. InstanceInv'
    BY DEF TypeOK, CallInv, TableInv, InstanceInv, InMutex, ID
<1> QED BY <1>1, <1>2, <1>3, <1>4, <1>5, <1>6, <1>7 DEF IInv

\* CallCreate keeps the invariant.
LEMMA CallCreateInv == ASSUME IInv, NEW t \in Thread, CallCreate(t) PROVE IInv'
<1> USE ClassesNotNull, TableAssumption, ClassAssumption DEF IInv, CallCreate, Begin, Goto, shared, local, client
<1>1. TypeOK'
    BY DEF TypeOK, PC, CallInv, Known, InMutex, ID, Classes
<1>2. OnceInv'
    BY DEF TypeOK, OnceInv, InMutex
<1>3. LockInv'
    BY DEF TypeOK, LockInv, InMutex
<1>4. CallInv'
    BY DEF TypeOK, LockInv, CallInv, InMutex, Known, Acceptable
<1>5. TableInv'
    BY DEF TypeOK, OnceInv, LockInv, CallInv, TableInv, InMutex, ID, Acceptable
<1>6. IssuedInv'
    BY DEF TypeOK, LockInv, CallInv, TableInv, IssuedInv, InMutex, ID, Acceptable
<1>7. InstanceInv'
    BY DEF TypeOK, CallInv, TableInv, InstanceInv, InMutex, ID
<1> QED BY <1>1, <1>2, <1>3, <1>4, <1>5, <1>6, <1>7 DEF IInv

\* Every step of every thread keeps the invariant.
LEMMA StepInv == IInv /\ [Next]_vars => IInv'
<1> SUFFICES ASSUME IInv, [Next]_vars PROVE IInv'
    OBVIOUS
<1>1. ASSUME NEW t \in Thread, Runtime(t) PROVE IInv'
    BY <1>1, EnterOnceInv, PublishClassInv, LeaveOnceInv, PassOnceInv,
       CheckFailsInv, LockStepInv, TableFullInv, LoadNextInv, BumpNextInv,
       StoreClassInv, UnlockInv, CreateInstanceInv
    DEF Runtime, Register
<1>2. ASSUME NEW t \in Thread, CallRegister(t) \/ CallCreate(t) PROVE IInv'
    BY <1>2, CallRegisterInv, CallCreateInv
<1>3. CASE UNCHANGED vars
    BY <1>3
    DEF vars, IInv, TypeOK, OnceInv, LockInv, CallInv, Known, TableInv, IssuedInv,
        InstanceInv
<1> QED BY <1>1, <1>2, <1>3 DEF Next

\* The inductive invariant holds in every reachable state.
THEOREM Inductive == Spec => []IInv
<1> QED BY InitInv, StepInv, PTL DEF Spec

\* The state of the class table, of the mutex and of every call is well typed.
THEOREM TypeCorrect == Spec => []TypeOK
<1>1. IInv => TypeOK BY DEF IInv
<1> QED BY Inductive, <1>1, PTL

\* _CFRuntimeRegisterClass never returns one ID twice, whatever the number of
\* threads and the size of the table.
THEOREM Unique == Spec => []IDsUnique
<1>1. IInv => IDsUnique BY DEF IInv, IssuedInv, IDsUnique
<1> QED BY Inductive, <1>1, PTL

\* A lock-free reader finds the class of every ID it can know.
THEOREM Resolve == Spec => []KnownIDsResolve
<1>1. IInv => KnownIDsResolve
    <2> SUFFICES ASSUME IInv, NEW t \in Thread, pc[t] = "lookup"
                 PROVE table[arg[t]] # NULL
        BY DEF KnownIDsResolve
    <2>1. arg[t] \in Known /\ unpublished = {}
        BY DEF IInv, CallInv, OnceInv
    <2>2. CASE arg[t] \in Builtin
        BY <2>1, <2>2, ClassAssumption DEF IInv, TableInv
    <2>3. CASE arg[t] \in ID /\ issued[arg[t]] > 0
        BY <2>3 DEF IInv, TypeOK, IssuedInv
    <2> QED BY <2>1, <2>2, <2>3 DEF Known
<1> QED BY Inductive, <1>1, PTL

\* CFGetTypeID accepts every instance for as long as the process runs.
THEOREM Accept == Spec => []InstancesAccepted
<1>1. IInv => InstancesAccepted BY DEF IInv, InstanceInv, InstancesAccepted, Accepted
<1> QED BY Inductive, <1>1, PTL

\* The table is what registrations and lock-free readers rely on.
THEOREM TableCorrect == Spec => []TableOK
<1> QED BY TypeCorrect, Unique, Resolve, Accept, PTL DEF TableOK

\* An entry of the table that is visible to readers never changes.
THEOREM Permanent == Spec => EntryPermanent
<1>1. IInv /\ [Next]_vars => [\A id \in ID : table[id] # NULL => table'[id] = table[id]]_vars
    <2> SUFFICES ASSUME IInv, Next, NEW id \in ID, table[id] # NULL
                 PROVE table'[id] = table[id]
        BY DEF vars
    <2>1. PICK t \in Thread : Runtime(t) \/ CallRegister(t) \/ CallCreate(t)
        BY DEF Next
    <2>2. CASE PublishClass(t)
        BY <2>2, ClassesNotNull DEF PublishClass, IInv, TableInv, TypeOK
    <2>3. CASE StoreClass(t)
        BY <2>3 DEF StoreClass, IInv, TableInv, TypeOK
    <2>4. CASE ~PublishClass(t) /\ ~StoreClass(t)
        BY <2>1, <2>4
        DEF Runtime, Register, EnterOnce, LeaveOnce, PassOnce, CheckFails, Lock,
            TableFull, LoadNext, BumpNext, Unlock, CreateInstance, CallRegister,
            CallCreate, Begin, shared
    <2> QED BY <2>2, <2>3, <2>4
<1> QED BY Inductive, <1>1, PTL DEF Spec, EntryPermanent
=============================================================================
