--------------------------- MODULE CFAllocatorProofs ---------------------------
(***************************************************************************)
(* Allocators give back what they were given: infos, instances and blocks  *)
(* are freed once, by the allocator they came from and while it is alive,  *)
(* for any number of allocators nested in any way.                         *)
(***************************************************************************)
EXTENDS CFAllocator, FiniteSetTheorems, TLAPS

-----------------------------------------------------------------------------
(* The inductive invariant.                                                *)

\* A context that is kept: its info is released if it was retained.
KeptContext == {c \in ContextType : c.info # NULL /\ c.retain # "none" => c.release}

Made == [parent : Static \cup Slot, context : KeptContext, block : Block, count : Nat]
Memory == [size : Nat, of : Static \cup Slot, stays : BOOLEAN]
Request == [want : Nat \ {0}, of : Static \cup Slot]

TypeOK ==
    /\ made \in [Slot -> {None} \cup Made]
    /\ heap \in [Block -> {Gone} \cup Memory]
    /\ infos \in [Info -> Nat] /\ mine \in [Info -> Nat]
    /\ default \in Static \cup Slot \cup {NULL}
    /\ strong \in [Slot -> Nat]
    /\ held \in [Block -> {NotHeld} \cup Request]
    /\ dying \in {Nobody} \cup [slot : Slot, stage : {"finalize", "free"}]

\* The allocators that are made in s, and the references to s.
Children(all, s) == {c \in Slot : all[c].parent = s}
Refs(all, st, def, s) ==
    st[s] + (IF def = s THEN 1 ELSE 0) + Cardinality(Children(all, s))

\* Each count is the references there are and the one that is being released.
\* What is referred to is alive, and what is alive is referred to or being released.
Counted(all, st, def, a) ==
    \A s \in Slot :
        /\ all[s] # None =>
            all[s].count = Refs(all, st, def, s) + (IF a = s THEN 1 ELSE 0)
        /\ all[s] # None <=> Refs(all, st, def, s) > 0 \/ a = s

\* The allocator that is being deallocated has no other references.
LastGone(all, st, def, d) == d.slot \in Slot => Refs(all, st, def, d.slot) = 0

CountsOK ==
    /\ Counted(made, strong, default, dying.slot)
    /\ LastGone(made, strong, default, dying)

\* The allocators that will release an info.
Holders(i) == {s \in Slot : Callable(s) /\ Context(s).info = i /\ Context(s).release}

InfosOK ==
    \A i \in Info : /\ infos[i] = mine[i] + Cardinality(Holders(i))
                    /\ Lent(i) => mine[i] > 0

\* An allocator that the client can use.
Kind(a) == a \in Static \/ (a \in Slot /\ (strong[a] > 0 \/ default = a))

Freed(b, a) == heap[b].stays <=> ~Context(a).deallocate

BlocksOK ==
    /\ \A b \in Block : held[b] # NotHeld =>
        /\ \A s \in Slot : Live(s) => made[s].block # b
        /\ heap[b] # Gone /\ heap[b].of = held[b].of /\ heap[b].size >= held[b].want
        /\ Kind(held[b].of) /\ Freed(b, held[b].of)
    /\ \A s \in Slot : Live(s) =>
        /\ heap[made[s].block] # Gone /\ Freed(made[s].block, made[s].parent)
        /\ \A t \in Slot : Live(t) /\ made[t].block = made[s].block => t = s
    /\ \A b \in Block :
        \/ heap[b] = Gone \/ held[b] # NotHeld \/ heap[b].stays
        \/ \E s \in Slot : Live(s) /\ made[s].block = b

IInv == TypeOK /\ CountsOK /\ InfosOK /\ BlocksOK

-----------------------------------------------------------------------------
(* Made allocators and references.                                         *)

\* A slot is used or not, and only a used one has a parent.
LEMMA MadeIs ==
    ASSUME ContextsOK, NEW x \in {None} \cup Made
    PROVE  /\ x # None => x \in Made /\ x.parent # NULL
           /\ x = None => x.parent = NULL
           /\ x \in Made => x # None
<1>1. None.parent = NULL
  BY DEF None
<1>2. x \in Made => x.parent \in Static \cup Slot
  BY DEF Made
<1>3. NULL \notin Static \cup Slot
  BY DEF ContextsOK
<1>. QED BY <1>1, <1>2, <1>3

\* The references to an allocator can be counted.
LEMMA RefsNat ==
    ASSUME ContextsOK, NEW all, NEW st \in [Slot -> Nat], NEW def, NEW s \in Slot
    PROVE  /\ IsFiniteSet(Children(all, s)) /\ Cardinality(Children(all, s)) \in Nat
           /\ Refs(all, st, def, s) \in Nat
           /\ st[s] > 0 \/ def = s \/ Children(all, s) # {} => Refs(all, st, def, s) > 0
           /\ Refs(all, st, def, s) > 0 => st[s] > 0 \/ def = s \/ Children(all, s) # {}
<1>1. Children(all, s) \subseteq Slot
  BY DEF Children
<1>2. IsFiniteSet(Slot)
  BY DEF ContextsOK
<1>3. IsFiniteSet(Children(all, s))
  BY <1>1, <1>2, FS_Subset
<1>4. PICK n \in Nat : n = Cardinality(Children(all, s)) /\ (n = 0 <=> Children(all, s) = {})
  BY <1>3, FS_CardinalityType, FS_EmptySet
<1>5. PICK m \in Nat : m = st[s]
  OBVIOUS
<1>6. Refs(all, st, def, s) = m + (IF def = s THEN 1 ELSE 0) + n
  BY <1>4, <1>5 DEF Refs
<1>. QED BY <1>3, <1>4, <1>5, <1>6

\* What two tables of allocators have in common when only counts differ.
Same(m, all) ==
    /\ m \in [Slot -> {None} \cup Made] /\ all \in [Slot -> {None} \cup Made]
    /\ \A s \in Slot : /\ m[s] = None <=> all[s] = None
                       /\ m[s].parent = all[s].parent /\ m[s].context = all[s].context
                       /\ m[s].block = all[s].block

LEMMA SameRefs ==
    ASSUME NEW m, NEW all, Same(m, all), NEW st, NEW def, NEW s \in Slot
    PROVE  Children(m, s) = Children(all, s) /\ Refs(m, st, def, s) = Refs(all, st, def, s)
<1>1. Children(m, s) = Children(all, s)
  BY DEF Same, Children
<1>. QED BY <1>1 DEF Refs

\* A count that changes leaves the rest as it is.
LEMMA CountChanges ==
    ASSUME ContextsOK, NEW all \in [Slot -> {None} \cup Made], NEW a \in Slot, all[a] # None,
           NEW n \in Nat
    PROVE  /\ Same([all EXCEPT ![a].count = n], all)
           /\ [all EXCEPT ![a].count = n][a].count = n
           /\ \A s \in Slot \ {a} : [all EXCEPT ![a].count = n][s] = all[s]
<1>. DEFINE m == [all EXCEPT ![a].count = n]
<1>1. all[a] \in Made
  OBVIOUS
<1>. DEFINE x == [all[a] EXCEPT !.count = n]
<1>2. /\ x \in Made /\ x.count = n
      /\ x.parent = all[a].parent /\ x.context = all[a].context /\ x.block = all[a].block
  BY <1>1 DEF Made
<1>3. m = [all EXCEPT ![a] = x]
  OBVIOUS
<1>. HIDE DEF m, x
<1>4. m[a] = x /\ \A s \in Slot \ {a} : m[s] = all[s]
  BY <1>3
<1>5. m \in [Slot -> {None} \cup Made]
  BY <1>2, <1>3
<1>6. x # None
  BY <1>2, MadeIs
<1>7. Same(m, all)
  BY <1>2, <1>4, <1>5, <1>6 DEF Same
<1>. QED BY <1>2, <1>4, <1>7 DEF m

\* The release of one reference to a, which is not counted any more: it was not the
\* last one, or it was and a begins to be deallocated.
LEMMA ReleaseCounts ==
    ASSUME ContextsOK, NEW all \in [Slot -> {None} \cup Made], NEW st \in [Slot -> Nat],
           NEW def, NEW a, Counted(all, st, def, a), ReleaseFrom(all, a)
    PROVE  /\ Same(made', all)
           /\ dying' = Nobody \/ (a \in Slot /\ dying' = [slot |-> a, stage |-> "finalize"])
           /\ Counted(made', st, def, dying'.slot)
           /\ LastGone(made', st, def, dying')
<1>1. CASE a \notin Slot
  <2>1. made' = all /\ dying' = Nobody
    BY <1>1 DEF ReleaseFrom
  <2>2. dying'.slot = NULL /\ NULL \notin Slot
    BY <2>1 DEF Nobody, ContextsOK
  <2>. QED BY <1>1, <2>1, <2>2 DEF Same, Counted, LastGone
<1>2. ASSUME a \in Slot
      PROVE  all[a] \in Made /\ all[a] # None /\ all[a].count = Refs(all, st, def, a) + 1
  BY <1>2 DEF Counted
<1>3. CASE a \in Slot /\ all[a].count > 1
  <2>1. PICK n \in Nat : n = all[a].count - 1 /\ n > 0 /\ all[a].count = n + 1
    <3>1. PICK k \in Nat : k = all[a].count
      BY <1>2, <1>3 DEF Made
    <3>2. k > 1
      BY <1>3, <3>1
    <3>. QED BY <3>1, <3>2
  <2>2. made' = [all EXCEPT ![a].count = n] /\ dying' = Nobody
    BY <1>3, <2>1 DEF ReleaseFrom
  <2>3. dying'.slot = NULL /\ NULL \notin Slot
    BY <2>2 DEF Nobody, ContextsOK
  <2>4. /\ Same(made', all) /\ made'[a].count = n
        /\ \A s \in Slot \ {a} : made'[s] = all[s]
    BY <1>2, <1>3, <2>2, CountChanges
  <2>5. Refs(all, st, def, a) = n
    <3>1. Refs(all, st, def, a) \in Nat
      BY <1>3, RefsNat
    <3>. QED BY <1>2, <1>3, <2>1, <3>1
  <2>6. ASSUME NEW s \in Slot
        PROVE  /\ made'[s] # None => made'[s].count = Refs(made', st, def, s)
               /\ made'[s] # None <=> Refs(made', st, def, s) > 0
    <3>1. Refs(made', st, def, s) = Refs(all, st, def, s) /\ Refs(all, st, def, s) \in Nat
      BY <2>4, SameRefs, RefsNat
    <3>2. CASE s = a
      BY <1>2, <1>3, <2>1, <2>4, <2>5, <3>1, <3>2 DEF Same
    <3>3. CASE s # a
      BY <2>4, <3>1, <3>3 DEF Counted
    <3>. QED BY <3>2, <3>3
  <2>7. ASSUME NEW s \in Slot PROVE Refs(made', st, def, s) \in Nat /\ s # NULL
    BY <2>3, RefsNat
  <2>8. Counted(made', st, def, NULL)
    BY <2>6, <2>7 DEF Counted
  <2>. QED BY <2>2, <2>3, <2>4, <2>8 DEF LastGone
<1>4. CASE a \in Slot /\ ~(all[a].count > 1)
  <2>1. made' = all /\ dying' = [slot |-> a, stage |-> "finalize"]
    BY <1>4 DEF ReleaseFrom
  <2>2. Refs(all, st, def, a) = 0
    BY <1>2, <1>4, RefsNat
  <2>. QED BY <1>4, <2>1, <2>2 DEF Same, LastGone
<1>. QED BY <1>1, <1>3, <1>4

-----------------------------------------------------------------------------
(* What a step leaves alone.                                               *)

\* Contexts do not change while the allocators are there.
LEMMA SameContexts ==
    ASSUME ContextsOK, Same(made', made)
    PROVE  /\ \A a \in Static \cup Slot : Context(a)' = Context(a)
           /\ \A s \in Slot : Live(s)' <=> Live(s)
BY DEF Same, Context, Live, StaticContext

LEMMA InfosFrame ==
    ASSUME ContextsOK, InfosOK, Same(made', made), UNCHANGED <<infos, mine>>,
           \A s \in Slot : dying' = [slot |-> s, stage |-> "free"] <=>
                           dying = [slot |-> s, stage |-> "free"]
    PROVE  InfosOK'
<1>1. \A s \in Slot : Context(s)' = Context(s) /\ (Live(s)' <=> Live(s))
  BY SameContexts
<1>2. \A s \in Slot : Callable(s)' <=> Callable(s)
  BY <1>1 DEF Callable
<1>3. \A i \in Info : Holders(i)' = Holders(i)
  BY <1>1, <1>2 DEF Holders
<1>4. \A i \in Info : Lent(i)' <=> Lent(i)
  BY <1>1 DEF Lent
<1>. QED BY <1>3, <1>4 DEF InfosOK

LEMMA BlocksFrame ==
    ASSUME ContextsOK, TypeOK, BlocksOK, Same(made', made), UNCHANGED <<heap, held>>,
           \A b \in Block : held[b] # NotHeld => Kind(held[b].of)'
    PROVE  BlocksOK'
<1>1. /\ \A a \in Static \cup Slot : Context(a)' = Context(a)
      /\ \A s \in Slot : Live(s)' <=> Live(s)
  BY SameContexts
<1>2. \A s \in Slot : made'[s].block = made[s].block /\ made'[s].parent = made[s].parent
  BY DEF Same
<1>3. \A s \in Slot : Live(s) => made[s] \in Made /\ made[s].parent \in Static \cup Slot
  BY DEF TypeOK, Live, Made
<1>4. \A b \in Block : held[b] # NotHeld => held[b].of \in Static \cup Slot
  BY DEF TypeOK, Request
<1>5. \A b \in Block, a \in Static \cup Slot : Freed(b, a)' <=> Freed(b, a)
  BY <1>1 DEF Freed
<1>6. \A s \in Slot : Live(s) => made[s].block \in Block
  BY <1>3 DEF Made
<1>7. \A b \in Block : held[b] # NotHeld =>
        /\ \A s \in Slot : Live(s)' => made'[s].block # b
        /\ heap'[b] # Gone /\ heap'[b].of = held'[b].of /\ heap'[b].size >= held'[b].want
        /\ Kind(held[b].of)' /\ Freed(b, held[b].of)'
  BY <1>1, <1>2, <1>4, <1>5 DEF BlocksOK
<1>8. \A s \in Slot : Live(s)' =>
        /\ heap'[made'[s].block] # Gone /\ Freed(made[s].block, made[s].parent)'
        /\ \A t \in Slot : Live(t)' /\ made'[t].block = made'[s].block => t = s
  BY <1>1, <1>2, <1>3, <1>5, <1>6 DEF BlocksOK
<1>9. \A b \in Block :
        \/ heap'[b] = Gone \/ held'[b] # NotHeld \/ heap'[b].stays
        \/ \E s \in Slot : Live(s)' /\ made'[s].block = b
  BY <1>1, <1>2 DEF BlocksOK
<1>. QED BY <1>2, <1>7, <1>8, <1>9 DEF BlocksOK, Freed

-----------------------------------------------------------------------------
(* Blocks.                                                                 *)

LEMMA UsableKinds ==
    ASSUME ContextsOK, TypeOK, NEW a \in Usable \cup {NULL}
    PROVE  Cast(a) \in Static \cup Slot /\ Kind(Cast(a))
BY DEF ContextsOK, TypeOK, Usable, Cast, Kind, Static

\* An allocator that is used is alive, and not being deallocated.
LEMMA KindLive ==
    ASSUME ContextsOK, TypeOK, CountsOK, NEW s \in Slot, Kind(s)
    PROVE  Live(s) /\ dying.slot # s /\ made[s] \in Made
<1>1. s \notin Static
  BY DEF ContextsOK
<1>2. Refs(made, strong, default, s) > 0
  BY <1>1, RefsNat DEF TypeOK, Kind
<1>3. made[s] # None
  BY <1>2 DEF CountsOK, Counted
<1>4. dying.slot # s
  BY <1>2 DEF CountsOK, LastGone
<1>. QED BY <1>3, <1>4 DEF Live, TypeOK

LEMMA NewBlockIs ==
    ASSUME NEW a \in Static \cup Slot, NEW n \in Nat \ {0}
    PROVE  /\ NewBlock(a, n) \in Memory /\ NewBlock(a, n) # Gone
           /\ NewBlock(a, n).of = a /\ NewBlock(a, n).size = n
           /\ NewBlock(a, n).stays <=> ~Context(a).deallocate
BY DEF NewBlock, Memory, Gone

LEMMA RequestIs ==
    ASSUME NEW a \in Static \cup Slot, NEW n \in Nat \ {0}
    PROVE  /\ [want |-> n, of |-> a] \in Request /\ [want |-> n, of |-> a] # NotHeld
           /\ [want |-> n, of |-> a].want = n /\ [want |-> n, of |-> a].of = a
BY DEF Request, NotHeld

\* A block that is granted is fresh or was the client's; one that is given back is
\* gone or stays.
LEMMA BlocksChange ==
    ASSUME ContextsOK, TypeOK, BlocksOK, UNCHANGED <<made, strong, default>>,
           \A b \in Block :
               \/ heap'[b] = heap[b] /\ held'[b] = held[b]
               \/ /\ held[b] # NotHeld /\ held'[b] = NotHeld
                  /\ heap'[b] = Gone \/ heap'[b].stays
               \/ /\ heap[b] = Gone \/ held[b] # NotHeld
                  /\ held'[b] # NotHeld /\ heap'[b] # Gone /\ heap'[b].of = held'[b].of
                  /\ heap'[b].size >= held'[b].want
                  /\ Kind(held'[b].of)
                  /\ heap'[b].stays <=> ~Context(held'[b].of).deallocate
    PROVE  BlocksOK'
<1>1. \A s \in Slot : Live(s)' <=> Live(s)
  BY DEF Live
<1>2. \A a : Context(a)' = Context(a) /\ (Kind(a)' <=> Kind(a))
  BY DEF Context, Kind
<1>3. \A s \in Slot : Live(s) => made[s].block \in Block
  BY DEF TypeOK, Live, Made
<1>4. \A s \in Slot : Live(s) =>
        held[made[s].block] = NotHeld /\ heap[made[s].block] # Gone
  BY <1>3 DEF BlocksOK
<1>5. \A s \in Slot : Live(s) =>
        heap'[made[s].block] = heap[made[s].block] /\ held'[made[s].block] = NotHeld
  BY <1>3, <1>4
<1>6. \A b \in Block : held'[b] # NotHeld =>
        /\ \A s \in Slot : Live(s)' => made'[s].block # b
        /\ heap'[b] # Gone /\ heap'[b].of = held'[b].of /\ heap'[b].size >= held'[b].want
        /\ Kind(held'[b].of)
        /\ heap'[b].stays <=> ~Context(held'[b].of).deallocate
  BY <1>1, <1>5 DEF BlocksOK, Freed
<1>7. \A s \in Slot : Live(s)' =>
        /\ heap'[made'[s].block] # Gone /\ Freed(made[s].block, made[s].parent)'
        /\ \A t \in Slot : Live(t)' /\ made'[t].block = made'[s].block => t = s
  BY <1>1, <1>2, <1>5 DEF BlocksOK, Freed
<1>8. \A b \in Block :
        \/ heap'[b] = Gone \/ held'[b] # NotHeld \/ heap'[b].stays
        \/ \E s \in Slot : Live(s)' /\ made'[s].block = b
  BY <1>1 DEF BlocksOK
<1>9. \A b \in Block : held'[b] # NotHeld => Kind(held[b].of)' /\ Freed(b, held[b].of)'
  BY <1>2, <1>6 DEF Kind, Freed
<1>. QED BY <1>6, <1>7, <1>8, <1>9 DEF BlocksOK

\* What the client asks for and gets: at least what it needs.
LEMMA SizeIs ==
    ASSUME NEW a, NEW n \in Int, NEW size \in {n, PreferredSize(a, n)}, CanAllocate(a, size)
    PROVE  size \in Nat \ {0} /\ n \in Nat \ {0} /\ size >= n
<1>1. size > 0
  BY DEF CanAllocate
<1>2. CASE n <= 0
  BY <1>1, <1>2 DEF PreferredSize
<1>3. CASE n > 0
  <2>1. PreferredSize(a, n) \in {n, n - 1, n + 1} /\ PreferredSize(a, n) >= n
    BY <1>3 DEF PreferredSize
  <2>. QED BY <1>3, <2>1
<1>. QED BY <1>2, <1>3

\* The counts and the infos are those of before.
LEMMA MadeUnchanged ==
    ASSUME ContextsOK, TypeOK, CountsOK, InfosOK,
           UNCHANGED <<made, infos, default, strong, mine, dying>>
    PROVE  CountsOK' /\ InfosOK'
<1>1. Same(made', made)
  BY DEF TypeOK, Same
<1>2. InfosOK'
  BY <1>1, InfosFrame
<1>. QED BY <1>2 DEF CountsOK

LEMMA AllocateKeeps ==
    ASSUME ContextsOK, IInv, NEW a \in Usable \cup {NULL}, NEW n \in Int, Allocate(a, n)
    PROVE  IInv'
<1>. DEFINE self == Cast(a)
<1>1. self \in Static \cup Slot /\ Kind(self)
  BY UsableKinds DEF IInv
<1>. HIDE DEF self
<1>2. PICK size \in {n, PreferredSize(self, n)}, b \in Free :
        /\ CanAllocate(self, size)
        /\ heap' = [heap EXCEPT ![b] = NewBlock(self, size)]
        /\ held' = [held EXCEPT ![b] = [want |-> n, of |-> self]]
  BY DEF Allocate, self
<1>3. size \in Nat \ {0} /\ n \in Nat \ {0} /\ size >= n
  BY <1>2, SizeIs
<1>4. PICK x : /\ x = NewBlock(self, size) /\ x \in Memory /\ x # Gone /\ x.of = self
               /\ x.size = size /\ (x.stays <=> ~Context(self).deallocate)
  BY <1>1, <1>3, NewBlockIs
<1>5. PICK y : /\ y = [want |-> n, of |-> self] /\ y \in Request /\ y # NotHeld
               /\ y.want = n /\ y.of = self
  BY <1>1, <1>3, RequestIs
<1>6. heap' = [heap EXCEPT ![b] = x] /\ held' = [held EXCEPT ![b] = y]
  BY <1>2, <1>4, <1>5
<1>7. b \in Block /\ heap[b] = Gone
  BY DEF Free
<1>8. UNCHANGED <<made, infos, default, strong, mine, dying>>
  BY DEF Allocate
<1>9. TypeOK'
  BY <1>4, <1>5, <1>6, <1>8 DEF IInv, TypeOK
<1>10. heap'[b] = x /\ held'[b] = y /\ \A c \in Block \ {b} : heap'[c] = heap[c] /\ held'[c] = held[c]
  BY <1>6, <1>7 DEF IInv, TypeOK
<1>11. BlocksOK'
  BY <1>1, <1>3, <1>4, <1>5, <1>7, <1>8, <1>10, BlocksChange DEF IInv
<1>. QED BY <1>8, <1>9, <1>11, MadeUnchanged DEF IInv

LEMMA DeallocateKeeps ==
    ASSUME ContextsOK, IInv, NEW a, NEW b \in Block, Deallocate(a, b)
    PROVE  IInv'
<1>1. /\ held[b] # NotHeld /\ held[b].of = Cast(a)
      /\ heap' = IF Context(Cast(a)).deallocate THEN Dropped(heap, b) ELSE heap
      /\ held' = [held EXCEPT ![b] = NotHeld]
      /\ UNCHANGED <<made, infos, default, strong, mine, dying>>
  BY DEF Deallocate
<1>2. heap[b].stays <=> ~Context(Cast(a)).deallocate
  BY <1>1 DEF IInv, BlocksOK, Freed
<1>3. /\ held'[b] = NotHeld /\ (heap'[b] = Gone \/ heap'[b].stays)
      /\ \A c \in Block \ {b} : heap'[c] = heap[c] /\ held'[c] = held[c]
  BY <1>1, <1>2 DEF IInv, TypeOK, Dropped
<1>4. TypeOK'
  BY <1>1 DEF IInv, TypeOK, Dropped
<1>5. BlocksOK'
  BY <1>1, <1>3, BlocksChange DEF IInv
<1>. QED BY <1>1, <1>4, <1>5, MadeUnchanged DEF IInv

LEMMA ReallocateKeeps ==
    ASSUME ContextsOK, IInv, NEW a \in Usable \cup {NULL}, NEW b \in Block, NEW n \in Int,
           Reallocate(a, b, n)
    PROVE  IInv'
<1>1. CASE n <= 0 /\ Deallocate(a, b)
  BY <1>1, DeallocateKeeps
<1>2. CASE ~(n <= 0 /\ Deallocate(a, b))
  <2>. DEFINE self == Cast(a)
  <2>1. self \in Static \cup Slot /\ Kind(self)
    BY UsableKinds DEF IInv
  <2>. HIDE DEF self
  <2>2. /\ held[b] # NotHeld /\ n > 0
        /\ UNCHANGED <<made, infos, default, strong, mine, dying>>
    BY <1>2 DEF Reallocate
  <2>3. PICK c \in Free \cup {b} :
        /\ heap' = [Dropped(heap, b) EXCEPT ![c] = NewBlock(self, n)]
        /\ held' = [held EXCEPT ![b] = NotHeld, ![c] = [want |-> n, of |-> self]]
    BY <1>2 DEF Reallocate, self
  <2>4. n \in Nat \ {0}
    BY <2>2
  <2>5. PICK x : /\ x = NewBlock(self, n) /\ x \in Memory /\ x # Gone /\ x.of = self
                 /\ x.size = n /\ (x.stays <=> ~Context(self).deallocate)
    BY <2>1, <2>4, NewBlockIs
  <2>6. PICK y : /\ y = [want |-> n, of |-> self] /\ y \in Request /\ y # NotHeld
                 /\ y.want = n /\ y.of = self
    BY <2>1, <2>4, RequestIs
  <2>7. /\ heap' = [[heap EXCEPT ![b] = Gone] EXCEPT ![c] = x]
        /\ held' = [[held EXCEPT ![b] = NotHeld] EXCEPT ![c] = y]
    BY <2>3, <2>5, <2>6 DEF Dropped
  <2>8. c \in Block /\ (heap[c] = Gone \/ held[c] # NotHeld)
    BY <2>2 DEF Free
  <2>9. TypeOK'
    BY <2>2, <2>5, <2>6, <2>7 DEF IInv, TypeOK
  <2>10. heap'[c] = x /\ held'[c] = y
    BY <2>7, <2>8 DEF IInv, TypeOK
  <2>11. c # b => heap'[b] = Gone /\ held'[b] = NotHeld
    BY <2>7 DEF IInv, TypeOK
  <2>12. \A d \in Block \ {b, c} : heap'[d] = heap[d] /\ held'[d] = held[d]
    BY <2>7 DEF IInv, TypeOK
  <2>13. x.size >= y.want
    BY <2>4, <2>5, <2>6
  <2>14. BlocksOK'
    BY <2>1, <2>2, <2>5, <2>6, <2>8, <2>10, <2>11, <2>12, <2>13, BlocksChange DEF IInv
  <2>. QED BY <2>2, <2>9, <2>14, MadeUnchanged DEF IInv
<1>. QED BY <1>1, <1>2

-----------------------------------------------------------------------------
(* Retains and releases.                                                   *)

LEMMA RetainedIs ==
    ASSUME ContextsOK, NEW all \in [Slot -> {None} \cup Made], NEW a \in Static \cup Slot,
           a \in Slot => all[a] # None
    PROVE  /\ Same(Retained(all, a), all)
           /\ \A s \in Slot : all[s] # None =>
                Retained(all, a)[s].count = all[s].count + (IF a = s THEN 1 ELSE 0)
<1>1. CASE a \notin Slot
  <2>1. Retained(all, a) = all
    BY <1>1 DEF Retained
  <2>2. \A s \in Slot : all[s] # None => all[s].count \in Nat
    BY DEF Made
  <2>. QED BY <1>1, <2>1, <2>2 DEF Same
<1>2. CASE a \in Slot
  <2>1. PICK n \in Nat : n = all[a].count + 1 /\ all[a].count \in Nat
    BY <1>2 DEF Made
  <2>2. Retained(all, a) = [all EXCEPT ![a].count = n]
    BY <1>2, <2>1 DEF Retained
  <2>3. \A s \in Slot : all[s] # None => all[s].count \in Nat
    BY DEF Made
  <2>4. PICK m : m = Retained(all, a)
    OBVIOUS
  <2>5. Same(m, all) /\ m[a].count = n /\ \A s \in Slot \ {a} : m[s] = all[s]
    <3>1. a \in Slot /\ all[a] # None
      BY <1>2
    <3>2. /\ Same([all EXCEPT ![a].count = n], all)
          /\ [all EXCEPT ![a].count = n][a].count = n
          /\ \A s \in Slot \ {a} : [all EXCEPT ![a].count = n][s] = all[s]
      BY <3>1, CountChanges, Zenon
    <3>3. m = [all EXCEPT ![a].count = n]
      BY <2>2, <2>4
    <3>. QED BY <3>2, <3>3, Zenon
  <2>6. ASSUME NEW s \in Slot, all[s] # None
        PROVE  m[s].count = all[s].count + (IF a = s THEN 1 ELSE 0)
    BY <2>1, <2>3, <2>5, <2>6
  <2>. QED BY <2>4, <2>5, <2>6
<1>. QED BY <1>1, <1>2

\* Idle means that no allocator is being deallocated.
LEMMA IdleIs ==
    ASSUME ContextsOK, TypeOK, CountsOK, Idle
    PROVE  /\ dying.slot = NULL
           /\ \A s \in Slot : dying.slot # s /\ dying # [slot |-> s, stage |-> "free"]
           /\ \A s \in Slot : /\ Live(s) <=> Refs(made, strong, default, s) > 0
                              /\ Live(s) => made[s].count = Refs(made, strong, default, s)
<1>1. dying.slot = NULL /\ NULL \notin Slot
  BY DEF Idle, Nobody, ContextsOK
<1>2. \A s \in Slot : dying.slot # s /\ dying # [slot |-> s, stage |-> "free"]
  BY <1>1
<1>3. ASSUME NEW s \in Slot
      PROVE  /\ Live(s) <=> Refs(made, strong, default, s) > 0
             /\ Live(s) => made[s].count = Refs(made, strong, default, s) + 0
  BY <1>2 DEF CountsOK, Counted, Live
<1>4. ASSUME NEW s \in Slot PROVE Refs(made, strong, default, s) + 0 = Refs(made, strong, default, s)
  <2>1. Refs(made, strong, default, s) \in Nat
    BY RefsNat DEF TypeOK
  <2>. QED BY <2>1
<1>. QED BY <1>1, <1>2, <1>3, <1>4

LEMMA RetainKeeps ==
    ASSUME ContextsOK, IInv, NEW s \in Slot, Retain(s)
    PROVE  IInv'
<1>1. /\ Idle /\ strong[s] > 0 /\ made' = Retained(made, s)
      /\ strong' = [strong EXCEPT ![s] = @ + 1]
      /\ UNCHANGED <<heap, infos, default, mine, held, dying>>
  BY DEF Retain, ContextsOK
<1>2. Live(s) /\ s \notin Static
  BY <1>1, KindLive DEF Kind, IInv, ContextsOK
<1>3. /\ Same(made', made)
      /\ \A t \in Slot : Live(t) =>
            made'[t].count = made[t].count + (IF s = t THEN 1 ELSE 0)
  BY <1>1, <1>2, RetainedIs DEF IInv, TypeOK, Live
<1>4. \A t \in Slot : strong'[t] = strong[t] + (IF s = t THEN 1 ELSE 0) /\ strong[t] \in Nat
  BY <1>1 DEF IInv, TypeOK
<1>5. TypeOK'
  <2>1. strong' \in [Slot -> Nat]
    BY <1>1 DEF IInv, TypeOK
  <2>2. made' \in [Slot -> {None} \cup Made]
    BY <1>3 DEF Same
  <2>. QED BY <1>1, <2>1, <2>2 DEF IInv, TypeOK
<1>6. ASSUME NEW t \in Slot
      PROVE  /\ Refs(made', strong', default', t) =
                    Refs(made, strong, default, t) + (IF s = t THEN 1 ELSE 0)
             /\ Refs(made, strong, default, t) \in Nat
  <2>1. Children(made', t) = Children(made, t) /\ Cardinality(Children(made, t)) \in Nat
    BY <1>3, SameRefs, RefsNat DEF IInv, TypeOK
  <2>2. PICK n \in Nat, m \in Nat : n = Cardinality(Children(made, t)) /\ m = strong[t]
    BY <2>1, <1>4
  <2>. QED BY <1>1, <1>4, <2>1, <2>2 DEF Refs
<1>7. ASSUME NEW t \in Slot
      PROVE  /\ made'[t] # None => made'[t].count = Refs(made', strong', default', t)
             /\ made'[t] # None <=> Refs(made', strong', default', t) > 0
  <2>1. /\ Live(t) <=> Refs(made, strong, default, t) > 0
        /\ Live(t) => made[t].count = Refs(made, strong, default, t)
    BY <1>1, IdleIs DEF IInv
  <2>2. made'[t] # None <=> Live(t)
    BY <1>3 DEF Same, Live
  <2>. QED BY <1>2, <1>3, <1>6, <2>1, <2>2
<1>8. dying'.slot = NULL /\ NULL \notin Slot
  BY <1>1, IdleIs DEF IInv, ContextsOK
<1>9. CountsOK'
  <2>1. \A t \in Slot : Refs(made', strong', default', t) \in Nat
    BY <1>5, RefsNat DEF TypeOK
  <2>. QED BY <1>7, <1>8, <2>1 DEF CountsOK, Counted, LastGone
<1>10. InfosOK'
  BY <1>1, <1>3, InfosFrame DEF IInv
<1>11. BlocksOK'
  <2>1. \A b \in Block : held[b] # NotHeld => Kind(held[b].of)'
    BY <1>1, <1>4 DEF IInv, BlocksOK, Kind
  <2>. QED BY <1>1, <1>3, <2>1, BlocksFrame DEF IInv
<1>. QED BY <1>5, <1>9, <1>10, <1>11 DEF IInv

\* A reference is given up and its allocator released.
LEMMA ReleaseFromKeeps ==
    ASSUME ContextsOK, TypeOK, InfosOK, BlocksOK, Idle,
           NEW all, Same(all, made), NEW a, ReleaseFrom(all, a), Counted(all, strong', default', a),
           strong' \in [Slot -> Nat], default' \in Static \cup Slot \cup {NULL},
           UNCHANGED <<heap, infos, mine, held>>,
           \A b \in Block : held[b] # NotHeld => Kind(held[b].of)'
    PROVE  IInv'
<1>1. /\ Same(made', all)
      /\ dying' = Nobody \/ (a \in Slot /\ dying' = [slot |-> a, stage |-> "finalize"])
      /\ CountsOK'
  BY ReleaseCounts DEF Same, CountsOK
<1>2. Same(made', made)
  BY <1>1 DEF Same
<1>3. TypeOK'
  BY <1>1, <1>2 DEF TypeOK, Same
<1>4. \A s \in Slot : /\ dying # [slot |-> s, stage |-> "free"]
                      /\ dying' # [slot |-> s, stage |-> "free"]
  BY <1>1 DEF Idle, Nobody
<1>5. InfosOK'
  BY <1>2, <1>4, InfosFrame
<1>6. BlocksOK'
  BY <1>2, BlocksFrame
<1>. QED BY <1>1, <1>3, <1>5, <1>6 DEF IInv

LEMMA ReleaseKeeps ==
    ASSUME ContextsOK, IInv, NEW s \in Slot, Release(s)
    PROVE  IInv'
<1>1. /\ Idle /\ strong[s] > 0 /\ (strong[s] = 1 => ~Needed(s))
      /\ strong' = [strong EXCEPT ![s] = @ - 1] /\ ReleaseFrom(made, s)
      /\ UNCHANGED <<heap, infos, default, mine, held>>
  BY DEF Release
<1>2. /\ strong' \in [Slot -> Nat]
      /\ \A t \in Slot : strong[t] = strong'[t] + (IF s = t THEN 1 ELSE 0) /\ strong'[t] \in Nat
  BY <1>1 DEF IInv, TypeOK
<1>3. Live(s)
  BY <1>1, KindLive DEF Kind, IInv
<1>4. ASSUME NEW t \in Slot
      PROVE  /\ Refs(made, strong, default, t) =
                    Refs(made, strong', default', t) + (IF s = t THEN 1 ELSE 0)
             /\ Refs(made, strong', default', t) \in Nat
  <2>1. PICK n \in Nat, m \in Nat : n = Cardinality(Children(made, t)) /\ m = strong'[t]
    BY <1>2, RefsNat
  <2>. QED BY <1>1, <1>2, <2>1 DEF Refs
<1>5. Counted(made, strong', default', s)
  <2>1. ASSUME NEW t \in Slot
        PROVE  /\ made[t] # None => made[t].count =
                      Refs(made, strong', default', t) + (IF s = t THEN 1 ELSE 0)
               /\ made[t] # None <=> Refs(made, strong', default', t) > 0 \/ s = t
    <3>1. /\ Live(t) <=> Refs(made, strong, default, t) > 0
          /\ Live(t) => made[t].count = Refs(made, strong, default, t)
      BY <1>1, IdleIs DEF IInv
    <3>. QED BY <1>3, <1>4, <3>1 DEF Live
  <2>. QED BY <2>1 DEF Counted
<1>6. \A b \in Block : held[b] # NotHeld => Kind(held[b].of)'
  <2>1. ASSUME NEW b \in Block, held[b] # NotHeld PROVE Kind(held[b].of)'
    <3>1. Kind(held[b].of)
      BY <2>1 DEF IInv, BlocksOK
    <3>2. held[b].of = s => strong[s] # 1
      BY <1>1, <2>1 DEF Needed
    <3>3. held[b].of = s => strong'[s] > 0
      BY <1>1, <1>2, <3>2
    <3>. QED BY <1>1, <1>2, <3>1, <3>3 DEF Kind
  <2>. QED BY <2>1
<1>7. Same(made, made) /\ default' \in Static \cup Slot \cup {NULL}
  BY <1>1 DEF IInv, TypeOK, Same
<1>. QED BY <1>1, <1>2, <1>5, <1>6, <1>7, ReleaseFromKeeps DEF IInv

LEMMA SetDefaultKeeps ==
    ASSUME ContextsOK, IInv, NEW a \in Usable \cup {NULL}, SetDefault(a)
    PROVE  IInv'
<1>1. PICK new : /\ new = (IF a = NULL THEN "system" ELSE a)
                 /\ default' = new /\ ReleaseFrom(Retained(made, new), default)
  BY DEF SetDefault
<1>2. /\ Idle /\ (default \in Slot => strong[default] > 0 \/ ~Needed(default))
      /\ UNCHANGED <<heap, infos, strong, mine, held>>
  BY DEF SetDefault
<1>3. new \in Static \cup Slot /\ Kind(new)
  BY <1>1 DEF Usable, Static, Kind, IInv, TypeOK
<1>4. new \in Slot => Live(new)
  BY <1>3, KindLive DEF IInv
<1>5. PICK all : all = Retained(made, new)
  OBVIOUS
<1>6. /\ Same(all, made)
      /\ \A s \in Slot : Live(s) =>
            all[s].count = made[s].count + (IF new = s THEN 1 ELSE 0)
  BY <1>3, <1>4, <1>5, RetainedIs DEF IInv, TypeOK, Live
<1>7. ASSUME NEW s \in Slot
      PROVE  /\ Refs(all, strong, new, s) + (IF default = s THEN 1 ELSE 0) =
                    Refs(made, strong, default, s) + (IF new = s THEN 1 ELSE 0)
             /\ Refs(all, strong, new, s) \in Nat /\ Refs(made, strong, default, s) \in Nat
  <2>1. Children(all, s) = Children(made, s)
    BY <1>6, SameRefs
  <2>2. PICK n \in Nat, m \in Nat : n = Cardinality(Children(made, s)) /\ m = strong[s]
    BY RefsNat DEF IInv, TypeOK
  <2>. QED BY <2>1, <2>2 DEF Refs
<1>8. ASSUME NEW s \in Slot
      PROVE  /\ all[s] # None => all[s].count =
                    Refs(all, strong, new, s) + (IF default = s THEN 1 ELSE 0)
             /\ all[s] # None <=> Refs(all, strong, new, s) > 0 \/ default = s
  <2>1. /\ Live(s) <=> Refs(made, strong, default, s) > 0
        /\ Live(s) => made[s].count = Refs(made, strong, default, s)
    BY <1>2, IdleIs DEF IInv
  <2>2. all[s] # None <=> Live(s)
    BY <1>6 DEF Same, Live
  <2>3. Live(s) => all[s].count = made[s].count + (IF new = s THEN 1 ELSE 0)
    BY <1>6
  <2>4. PICK n \in Nat, m \in Nat : n = Refs(all, strong, new, s) /\ m = Refs(made, strong, default, s)
    BY <1>7
  <2>5. n + (IF default = s THEN 1 ELSE 0) = m + (IF new = s THEN 1 ELSE 0)
    BY <1>7, <2>4
  <2>6. new = s => Live(s)
    BY <1>4
  <2>7. default = s => Live(s)
    BY <1>2, KindLive DEF Kind, IInv
  <2>. QED BY <2>1, <2>2, <2>3, <2>4, <2>5, <2>6, <2>7
<1>9. Counted(all, strong', default', default)
  BY <1>1, <1>2, <1>8 DEF Counted
<1>10. \A b \in Block : held[b] # NotHeld => Kind(held[b].of)'
  <2>1. ASSUME NEW b \in Block, held[b] # NotHeld PROVE Kind(held[b].of)'
    <3>1. Kind(held[b].of)
      BY <2>1 DEF IInv, BlocksOK
    <3>2. held[b].of \in Slot => strong[held[b].of] > 0
      BY <1>2, <2>1, <3>1 DEF Needed, Kind, ContextsOK
    <3>. QED BY <1>2, <3>1, <3>2 DEF Kind
  <2>. QED BY <2>1
<1>11. strong' \in [Slot -> Nat] /\ default' \in Static \cup Slot \cup {NULL}
  BY <1>1, <1>2, <1>3 DEF IInv, TypeOK
<1>. QED BY <1>1, <1>2, <1>5, <1>6, <1>9, <1>10, <1>11, ReleaseFromKeeps DEF IInv

-----------------------------------------------------------------------------
(* The infos and the ends of allocators.                                   *)

LEMMA HoldersFinite ==
    ASSUME ContextsOK, NEW i
    PROVE  /\ IsFiniteSet(Holders(i)) /\ Cardinality(Holders(i)) \in Nat
           /\ \A s \in Holders(i) : Cardinality(Holders(i)) >= 1
<1>1. Holders(i) \subseteq Slot /\ IsFiniteSet(Slot)
  BY DEF Holders, ContextsOK
<1>2. IsFiniteSet(Holders(i))
  BY <1>1, FS_Subset
<1>3. PICK n \in Nat : n = Cardinality(Holders(i)) /\ (n = 0 <=> Holders(i) = {})
  BY <1>2, FS_CardinalityType, FS_EmptySet
<1>. QED BY <1>2, <1>3

LEMMA DropInfoKeeps ==
    ASSUME ContextsOK, IInv, NEW i \in Info, DropInfo(i)
    PROVE  IInv'
<1>1. /\ mine[i] > 0 /\ ~Lent(i)
      /\ mine' = [mine EXCEPT ![i] = @ - 1] /\ infos' = [infos EXCEPT ![i] = @ - 1]
      /\ UNCHANGED <<made, heap, default, strong, held, dying>>
  BY DEF DropInfo
<1>2. \A j \in Info : mine[j] \in Nat /\ infos[j] \in Nat
  BY DEF IInv, TypeOK
<1>3. \A j \in Info : /\ Holders(j)' = Holders(j) /\ (Lent(j)' <=> Lent(j))
                      /\ Cardinality(Holders(j)) \in Nat
  BY <1>1, HoldersFinite DEF Holders, Lent, Callable, Live, Context
<1>4. \A j \in Info : infos[j] = mine[j] + Cardinality(Holders(j)) /\ (Lent(j) => mine[j] > 0)
  BY DEF IInv, InfosOK
<1>5. infos[i] > 0
  BY <1>1, <1>2, <1>3, <1>4
<1>6. mine' \in [Info -> Nat] /\ infos' \in [Info -> Nat]
  BY <1>1, <1>2, <1>5 DEF IInv, TypeOK
<1>7. TypeOK'
  BY <1>1, <1>6 DEF IInv, TypeOK
<1>8. ASSUME NEW j \in Info
      PROVE  /\ infos'[j] = mine'[j] + Cardinality(Holders(j))
             /\ Lent(j) => mine'[j] > 0
  <2>1. /\ j # i => mine'[j] = mine[j] /\ infos'[j] = infos[j]
        /\ mine'[i] = mine[i] - 1 /\ infos'[i] = infos[i] - 1
    BY <1>1 DEF IInv, TypeOK
  <2>2. PICK n \in Nat : n = Cardinality(Holders(j))
    BY <1>3
  <2>. QED BY <1>1, <1>2, <1>4, <2>1, <2>2
<1>9. InfosOK'
  BY <1>3, <1>8 DEF InfosOK
<1>10. CountsOK'
  BY <1>1 DEF IInv, CountsOK
<1>11. Same(made', made)
  BY <1>1 DEF IInv, TypeOK, Same
<1>12. BlocksOK'
  BY <1>1, <1>11, BlocksFrame DEF IInv, BlocksOK, Kind
<1>. QED BY <1>7, <1>9, <1>10, <1>12 DEF IInv

\* The allocator that is being deallocated is there, and nobody else refers to it.
LEMMA DyingIs ==
    ASSUME ContextsOK, IInv, dying # Nobody
    PROVE  /\ dying.slot \in Slot /\ dying.stage \in {"finalize", "free"}
           /\ dying = [slot |-> dying.slot, stage |-> dying.stage]
           /\ Live(dying.slot) /\ made[dying.slot] \in Made
           /\ strong[dying.slot] = 0 /\ default # dying.slot
           /\ Children(made, dying.slot) = {}
<1>1. dying \in [slot : Slot, stage : {"finalize", "free"}]
  BY DEF IInv, TypeOK
<1>2. PICK s \in Slot : s = dying.slot
  BY <1>1
<1>3. made[s] # None
  BY <1>2 DEF IInv, CountsOK, Counted
<1>4. Refs(made, strong, default, s) = 0
  BY <1>2 DEF IInv, CountsOK, LastGone
<1>5. /\ strong[s] \in Nat /\ ~(strong[s] > 0) /\ default # s /\ Children(made, s) = {}
  <2>1. strong \in [Slot -> Nat]
    BY DEF IInv, TypeOK
  <2>2. strong[s] > 0 \/ default = s \/ Children(made, s) # {} =>
            Refs(made, strong, default, s) > 0
    BY <2>1, RefsNat
  <2>. QED BY <1>4, <2>1, <2>2
<1>. QED BY <1>1, <1>2, <1>3, <1>5 DEF IInv, TypeOK, Live

LEMMA FinalizeKeeps ==
    ASSUME ContextsOK, IInv, Finalize
    PROVE  IInv'
<1>1. /\ dying.stage = "finalize"
      /\ UNCHANGED <<made, heap, default, strong, mine, held>>
      /\ dying' = [dying EXCEPT !.stage = "free"]
  BY DEF Finalize
<1>2. PICK s \in Slot : s = dying.slot
  BY <1>1, DyingIs DEF Nobody
<1>3. PICK c : c = Context(s)
  OBVIOUS
<1>4. infos' = IF c.release /\ c.info # NULL THEN [infos EXCEPT ![c.info] = @ - 1] ELSE infos
  BY <1>2, <1>3 DEF Finalize
<1>5. /\ dying = [slot |-> s, stage |-> "finalize"] /\ Live(s) /\ made[s] \in Made
  BY <1>1, <1>2, DyingIs DEF Nobody
<1>6. dying' = [slot |-> s, stage |-> "free"]
  BY <1>1, <1>5
<1>7. dying'.slot = s
  BY <1>6
<1>8. c = made[s].context /\ c \in ContextType /\ c.info \in Info \cup {NULL}
  BY <1>3, <1>5 DEF Context, ContextsOK, Made, KeptContext, ContextType
<1>9. Callable(s) /\ ~Callable(s)'
  BY <1>5, <1>6 DEF Callable
<1>10. ASSUME NEW t \in Slot, t # s PROVE Callable(t)' <=> Callable(t)
  <2>1. dying # [slot |-> t, stage |-> "free"] /\ dying' # [slot |-> t, stage |-> "free"]
    BY <1>5, <1>6, <1>10
  <2>. QED BY <1>1, <2>1 DEF Callable, Live
<1>11. \A t \in Slot : Context(t)' = Context(t)
  BY <1>1 DEF Context
<1>12. ASSUME NEW i \in Info PROVE Holders(i)' = Holders(i) \ {s}
  BY <1>9, <1>10, <1>11 DEF Holders
<1>13. \A i \in Info : /\ s \in Holders(i) <=> c.release /\ c.info = i
                       /\ infos[i] = mine[i] + Cardinality(Holders(i))
                       /\ infos[i] \in Nat /\ mine[i] \in Nat
                       /\ NULL # i
  BY <1>3, <1>9 DEF Holders, IInv, InfosOK, TypeOK, ContextsOK
<1>14. ASSUME NEW i \in Info
       PROVE  infos'[i] = mine[i] + Cardinality(Holders(i) \ {s}) /\ infos'[i] \in Nat
  <2>1. PICK n \in Nat : n = Cardinality(Holders(i))
    BY HoldersFinite
  <2>2. CASE s \in Holders(i)
    <3>1. Cardinality(Holders(i) \ {s}) = n - 1 /\ n >= 1
      BY <2>1, <2>2, HoldersFinite, FS_RemoveElement
    <3>2. infos'[i] = infos[i] - 1
      BY <1>4, <1>13, <2>2 DEF IInv, TypeOK
    <3>. QED BY <1>13, <2>1, <3>1, <3>2
  <2>3. CASE s \notin Holders(i)
    <3>1. Holders(i) \ {s} = Holders(i)
      BY <2>3
    <3>2. infos'[i] = infos[i]
      BY <1>4, <1>8, <1>13, <2>3 DEF IInv, TypeOK
    <3>. QED BY <1>13, <3>1, <3>2
  <2>. QED BY <2>2, <2>3
<1>15. InfosOK'
  <2>1. \A i \in Info : (Lent(i)' <=> Lent(i)) /\ (Lent(i) => mine[i] > 0)
    BY <1>1, <1>11 DEF Lent, Live, IInv, InfosOK
  <2>. QED BY <1>1, <1>12, <1>14, <2>1 DEF InfosOK
<1>16. TypeOK'
  <2>1. infos' \in [Info -> Nat]
    <3>1. infos' = [i \in Info |-> infos'[i]]
      BY <1>4 DEF IInv, TypeOK
    <3>. QED BY <1>14, <3>1
  <2>2. dying' \in [slot : Slot, stage : {"finalize", "free"}]
    BY <1>6
  <2>. QED BY <1>1, <2>1, <2>2 DEF IInv, TypeOK
<1>17. CountsOK'
  BY <1>1, <1>2, <1>7 DEF IInv, CountsOK, LastGone
<1>18. Same(made', made)
  BY <1>1 DEF IInv, TypeOK, Same
<1>19. BlocksOK'
  BY <1>1, <1>18, BlocksFrame DEF IInv, BlocksOK, Kind
<1>. QED BY <1>15, <1>16, <1>17, <1>19 DEF IInv

LEMMA FreeInstanceKeeps ==
    ASSUME ContextsOK, IInv, FreeInstance
    PROVE  IInv'
<1>1. PICK s \in Slot : /\ s = dying.slot /\ dying = [slot |-> s, stage |-> "free"]
                        /\ Live(s) /\ made[s] \in Made /\ strong[s] = 0 /\ default # s
                        /\ Children(made, s) = {}
  BY DyingIs DEF FreeInstance, Nobody
<1>2. PICK p \in Static \cup Slot, d \in Block : p = made[s].parent /\ d = made[s].block
  BY <1>1 DEF Made
<1>3. PICK m : m = [made EXCEPT ![s] = None]
  OBVIOUS
<1>4. /\ heap' = IF Context(p).deallocate THEN Dropped(heap, d) ELSE heap
      /\ ReleaseFrom(m, p) /\ UNCHANGED <<infos, default, strong, mine, held>>
  BY <1>1, <1>2, <1>3 DEF FreeInstance
<1>5. p # s
  BY <1>1, <1>2 DEF Children
<1>6. /\ m \in [Slot -> {None} \cup Made] /\ m[s] = None
      /\ \A t \in Slot \ {s} : m[t] = made[t]
  BY <1>3 DEF IInv, TypeOK
<1>7. None.parent = NULL /\ NULL \notin Slot /\ strong \in [Slot -> Nat]
  BY DEF None, ContextsOK, IInv, TypeOK
<1>8. ASSUME NEW t \in Slot, t # s
      PROVE  /\ Refs(made, strong, default, t) =
                    Refs(m, strong, default, t) + (IF p = t THEN 1 ELSE 0)
             /\ Refs(m, strong, default, t) \in Nat
  <2>1. Children(m, t) = Children(made, t) \ {s} /\ (s \in Children(made, t) <=> p = t)
    BY <1>2, <1>6, <1>7 DEF Children
  <2>2. PICK n \in Nat, k \in Nat : n = Cardinality(Children(made, t)) /\ k = strong[t]
    BY <1>7, RefsNat
  <2>3. Cardinality(Children(m, t)) = n - (IF p = t THEN 1 ELSE 0)
    <3>1. IsFiniteSet(Children(made, t))
      BY <1>7, RefsNat
    <3>2. CASE p = t
      BY <2>1, <2>2, <3>1, <3>2, FS_RemoveElement
    <3>3. CASE p # t
      <4>1. Children(m, t) = Children(made, t)
        BY <2>1, <3>3
      <4>. QED BY <2>2, <3>3, <4>1
    <3>. QED BY <3>2, <3>3
  <2>4. Refs(m, strong, default, t) \in Nat
    BY <1>7, RefsNat
  <2>. QED BY <2>2, <2>3, <2>4 DEF Refs
<1>9. Refs(m, strong, default, s) = 0
  <2>1. Children(m, s) = {}
    BY <1>1, <1>6, <1>7 DEF Children
  <2>. QED BY <1>1, <2>1, FS_EmptySet DEF Refs
<1>10. Counted(m, strong, default, p)
  <2>1. ASSUME NEW t \in Slot
        PROVE  /\ m[t] # None => m[t].count =
                      Refs(m, strong, default, t) + (IF p = t THEN 1 ELSE 0)
               /\ m[t] # None <=> Refs(m, strong, default, t) > 0 \/ p = t
    <3>1. CASE t = s
      BY <1>5, <1>6, <1>9, <3>1
    <3>2. CASE t # s
      <4>1. /\ made[t] # None => made[t].count = Refs(made, strong, default, t) + 0
            /\ made[t] # None <=> Refs(made, strong, default, t) > 0
        BY <1>1, <3>2 DEF IInv, CountsOK, Counted
      <4>2. PICK n \in Nat : n = Refs(m, strong, default, t)
        BY <1>8, <3>2
      <4>3. Refs(made, strong, default, t) = n + (IF p = t THEN 1 ELSE 0)
        BY <1>8, <3>2, <4>2
      <4>. QED BY <1>6, <3>2, <4>1, <4>2, <4>3
    <3>. QED BY <3>1, <3>2
  <2>. QED BY <2>1 DEF Counted
<1>11. /\ Same(made', m) /\ CountsOK'
       /\ dying' = Nobody \/ (p \in Slot /\ dying' = [slot |-> p, stage |-> "finalize"])
  BY <1>4, <1>6, <1>7, <1>10, ReleaseCounts DEF CountsOK
<1>12. /\ made' \in [Slot -> {None} \cup Made] /\ made'[s] = None
       /\ \A t \in Slot \ {s} :
              /\ made'[t] = None <=> made[t] = None
              /\ made'[t].parent = made[t].parent /\ made'[t].context = made[t].context
              /\ made'[t].block = made[t].block
  BY <1>6, <1>11 DEF Same
<1>13. \A t \in Slot : dying' # [slot |-> t, stage |-> "free"]
  BY <1>11 DEF Nobody
<1>14. TypeOK'
  <2>1. heap' \in [Block -> {Gone} \cup Memory]
    BY <1>4 DEF IInv, TypeOK, Dropped
  <2>2. dying' \in {Nobody} \cup [slot : Slot, stage : {"finalize", "free"}]
    BY <1>11
  <2>. QED BY <1>4, <1>12, <2>1, <2>2 DEF IInv, TypeOK
<1>15. /\ ~Live(s)' /\ \A t \in Slot \ {s} : Live(t)' <=> Live(t)
       /\ \A a \in (Static \cup Slot) \ {s} : Context(a)' = Context(a)
  BY <1>12 DEF Live, Context
<1>16. InfosOK'
  <2>1. ASSUME NEW t \in Slot PROVE Callable(t)' <=> Callable(t)
    <3>1. CASE t = s
      BY <1>1, <1>15, <3>1 DEF Callable
    <3>2. CASE t # s
      <4>1. dying # [slot |-> t, stage |-> "free"]
        BY <1>1, <3>2
      <4>. QED BY <1>13, <1>15, <3>2, <4>1 DEF Callable
    <3>. QED BY <3>1, <3>2
  <2>2. ~Callable(s)
    BY <1>1 DEF Callable
  <2>3. \A i \in Info : Holders(i)' = Holders(i)
    BY <1>15, <2>1, <2>2 DEF Holders
  <2>4. \A i \in Info : Lent(i)' => Lent(i)
    BY <1>15 DEF Lent
  <2>. QED BY <1>4, <2>3, <2>4 DEF IInv, InfosOK
<1>17. BlocksOK'
  <2>1. heap[d].stays <=> ~Context(p).deallocate
    BY <1>1, <1>2 DEF IInv, BlocksOK, Freed
  <2>2. /\ heap'[d] = Gone \/ (heap'[d] = heap[d] /\ heap[d].stays)
        /\ \A b \in Block \ {d} : heap'[b] = heap[b]
    BY <1>4, <2>1 DEF IInv, TypeOK, Dropped
  <2>3. \A t \in Slot : Live(t) => made[t] \in Made /\ made[t].block \in Block
                                  /\ made[t].parent \in Static \cup Slot
    BY DEF IInv, TypeOK, Live, Made
  <2>4. \A t \in Slot \ {s} : Live(t) => made[t].block # d /\ made[t].parent # s
    BY <1>1, <1>2, <2>3 DEF IInv, BlocksOK, Children
  <2>5. held[d] = NotHeld
    BY <1>1, <1>2 DEF IInv, BlocksOK
  <2>6. s \notin Static
    BY DEF ContextsOK
  <2>7. \A b \in Block : held[b] # NotHeld =>
            /\ b # d /\ held[b].of \in (Static \cup Slot) \ {s}
            /\ Kind(held[b].of) /\ Freed(b, held[b].of)
    BY <1>1, <2>5, <2>6 DEF IInv, BlocksOK, Kind
  <2>8. \A b \in Block : held[b] # NotHeld =>
        /\ \A t \in Slot : Live(t)' => made'[t].block # b
        /\ heap'[b] # Gone /\ heap'[b].of = held'[b].of /\ heap'[b].size >= held'[b].want
    BY <1>4, <1>12, <1>15, <2>2, <2>7 DEF IInv, BlocksOK
  <2>9. \A b \in Block : held[b] # NotHeld => Kind(held[b].of)' /\ Freed(b, held[b].of)'
    BY <1>4, <1>15, <2>2, <2>7 DEF Kind, Freed
  <2>10. \A t \in Slot : Live(t)' =>
        /\ heap'[made'[t].block] # Gone
        /\ \A u \in Slot : Live(u)' /\ made'[u].block = made'[t].block => u = t
    BY <1>12, <1>15, <2>2, <2>3, <2>4 DEF IInv, BlocksOK
  <2>11. ASSUME NEW t \in Slot, Live(t)' PROVE Freed(made[t].block, made[t].parent)'
    <3>1. t # s /\ Live(t) /\ made'[t].block = made[t].block /\ made'[t].parent = made[t].parent
      BY <1>12, <1>15, <2>11
    <3>2. /\ made[t].block \in Block \ {d} /\ made[t].parent \in (Static \cup Slot) \ {s}
          /\ Freed(made[t].block, made[t].parent)
      BY <2>3, <2>4, <3>1 DEF IInv, BlocksOK
    <3>. QED BY <1>15, <2>2, <3>1, <3>2 DEF Freed
  <2>12. \A b \in Block :
        \/ heap'[b] = Gone \/ held'[b] # NotHeld \/ heap'[b].stays
        \/ \E t \in Slot : Live(t)' /\ made'[t].block = b
    BY <1>2, <1>4, <1>12, <1>15, <2>2 DEF IInv, BlocksOK
  <2>. QED BY <1>4, <2>8, <2>9, <2>10, <2>11, <2>12 DEF BlocksOK
<1>. QED BY <1>11, <1>14, <1>16, <1>17 DEF IInv

-----------------------------------------------------------------------------
(* New allocators.                                                         *)

\* The context that is kept, and what its info is counted for.
LEMMA KeptIs ==
    ASSUME ContextsOK, NEW c \in Contexts
    PROVE  /\ c.info \in Info \cup {NULL} /\ c.retain \in {"same", "nothing", "none"}
           /\ Kept(c) \in KeptContext
           /\ c.retain = "nothing" => Kept(c).info = NULL
           /\ c.retain # "nothing" => Kept(c) = c
           /\ c.info # NULL /\ c.retain # "none" => c.release
<1>1. c \in ContextType
  BY DEF ContextsOK
<1>2. [c EXCEPT !.info = NULL] \in ContextType /\ [c EXCEPT !.info = NULL].info = NULL
  BY <1>1 DEF ContextType
<1>3. c.info # NULL /\ c.retain # "none" => c.release
  BY DEF ContextsOK
<1>. QED BY <1>1, <1>2, <1>3 DEF Kept, KeptContext, ContextType

\* What the retain or the client's gift of a reference is worth is what the new
\* allocator will release.
LEMMA CreateInfos ==
    ASSUME ContextsOK, IInv, NEW c \in Contexts, NEW i \in Info,
           MayUse(c), Given(c) => ~Lent(c.info),
           infos' = IF c.info # NULL /\ c.retain = "same"
                    THEN [infos EXCEPT ![c.info] = @ + 1] ELSE infos,
           mine' = IF Given(c) THEN [mine EXCEPT ![c.info] = @ - 1] ELSE mine
    PROVE  /\ mine'[i] \in Nat /\ infos'[i] \in Nat
           /\ infos'[i] - mine'[i] = infos[i] - mine[i] +
                (IF Kept(c).info = i /\ Kept(c).release THEN 1 ELSE 0)
           /\ mine'[i] # mine[i] => ~Lent(i) /\ Kept(c).release
           /\ Kept(c).info = i /\ ~Kept(c).release => c.retain = "none" /\ mine'[i] > 0
<1>1. /\ c.info \in Info \cup {NULL} /\ c.retain \in {"same", "nothing", "none"}
      /\ c.retain = "nothing" => Kept(c).info = NULL
      /\ c.retain # "nothing" => Kept(c) = c
      /\ c.info # NULL /\ c.retain # "none" => c.release
  BY KeptIs
<1>2. PICK n \in Nat, k \in Nat : n = infos[i] /\ k = mine[i]
  BY DEF IInv, TypeOK
<1>3. i # NULL /\ infos \in [Info -> Nat] /\ mine \in [Info -> Nat]
  BY DEF ContextsOK, IInv, TypeOK
<1>4. CASE c.info # i \/ c.retain = "nothing"
  <2>1. infos'[i] = n /\ mine'[i] = k
    BY <1>1, <1>2, <1>3, <1>4 DEF Given
  <2>2. ~(Kept(c).info = i)
    BY <1>1, <1>3, <1>4
  <2>. QED BY <1>2, <2>1, <2>2
<1>5. CASE c.info = i /\ c.retain = "same"
  <2>1. infos'[i] = n + 1 /\ mine'[i] = k /\ Kept(c) = c /\ c.release
    BY <1>1, <1>2, <1>3, <1>5 DEF Given
  <2>. QED BY <1>2, <1>5, <2>1
<1>6. CASE c.info = i /\ c.retain = "none" /\ c.release
  <2>1. Given(c) /\ ~Lent(i)
    BY <1>3, <1>6 DEF Given
  <2>2. k > 0
    BY <1>2, <1>3, <1>6 DEF MayUse
  <2>3. infos'[i] = n /\ mine'[i] = k - 1 /\ Kept(c) = c
    BY <1>1, <1>2, <1>3, <1>6, <2>1
  <2>4. k - 1 \in Nat /\ n - (k - 1) = n - k + 1
    BY <2>2
  <2>. QED BY <1>2, <1>6, <2>1, <2>3, <2>4
<1>7. CASE c.info = i /\ c.retain = "none" /\ ~c.release
  <2>1. k > 0
    BY <1>2, <1>3, <1>7 DEF MayUse
  <2>2. infos'[i] = n /\ mine'[i] = k /\ Kept(c) = c
    BY <1>1, <1>2, <1>7 DEF Given
  <2>. QED BY <1>2, <1>7, <2>1, <2>2
<1>. QED BY <1>1, <1>4, <1>5, <1>6, <1>7

\* The counts after a creation: the parent has one more reference, the client has the
\* only one to the new allocator.
LEMMA CreateCounts ==
    ASSUME ContextsOK, IInv, Idle, NEW s \in Slot, ~Live(s),
           NEW p \in Static \cup Slot, p \in Slot => Live(p),
           NEW all, Same(all, made),
           \A t \in Slot : Live(t) => all[t].count = made[t].count + (IF p = t THEN 1 ELSE 0),
           NEW r \in Made, r.parent = p, r.count = 1,
           made' = [all EXCEPT ![s] = r], strong' = [strong EXCEPT ![s] = 1],
           UNCHANGED <<default, dying>>
    PROVE  CountsOK'
<1>1. /\ all \in [Slot -> {None} \cup Made] /\ made \in [Slot -> {None} \cup Made]
      /\ strong \in [Slot -> Nat] /\ strong' \in [Slot -> Nat]
  BY DEF Same, IInv, TypeOK
<1>2. /\ made'[s] = r /\ \A t \in Slot \ {s} : made'[t] = all[t]
      /\ strong'[s] = 1 /\ \A t \in Slot \ {s} : strong'[t] = strong[t]
  BY <1>1
<1>3. /\ None.parent = NULL /\ NULL \notin Slot /\ r # None
      /\ all[s] = None /\ made[s] = None /\ p # s
  <2>1. all[s] = None /\ made[s] = None
    BY DEF Same, Live
  <2>. QED BY <2>1, MadeIs DEF ContextsOK, None
<1>4. Refs(made, strong, default, s) \in Nat /\ ~(Refs(made, strong, default, s) > 0)
  BY <1>1, RefsNat, IdleIs DEF IInv
<1>5. default # s /\ Children(made, s) = {}
  BY <1>1, <1>4, RefsNat
<1>6. Refs(made', strong', default', s) = 1
  <2>1. Children(made', s) = {}
    BY <1>2, <1>3, <1>5 DEF Children, Same
  <2>2. Cardinality(Children(made', s)) = 0
    BY <2>1, FS_EmptySet
  <2>3. default' # s /\ strong'[s] = 1
    BY <1>2, <1>5
  <2>. QED BY <2>2, <2>3 DEF Refs
<1>7. ASSUME NEW t \in Slot, t # s
      PROVE  /\ Refs(made', strong', default', t) =
                    Refs(made, strong, default, t) + (IF p = t THEN 1 ELSE 0)
             /\ Refs(made, strong, default, t) \in Nat
  <2>1. /\ s \notin Children(made, t)
        /\ Children(made', t) = IF p = t THEN Children(made, t) \cup {s} ELSE Children(made, t)
    BY <1>2, <1>3 DEF Children, Same
  <2>2. PICK n \in Nat, k \in Nat : n = Cardinality(Children(made, t)) /\ k = strong[t]
    BY <1>1, RefsNat
  <2>3. Cardinality(Children(made', t)) = n + (IF p = t THEN 1 ELSE 0)
    <3>1. IsFiniteSet(Children(made, t))
      BY <1>1, RefsNat
    <3>2. CASE p = t
      BY <2>1, <2>2, <3>1, <3>2, FS_AddElement
    <3>3. CASE p # t
      BY <2>1, <2>2, <3>3
    <3>. QED BY <3>2, <3>3
  <2>4. strong'[t] = k
    BY <1>2, <1>7, <2>2
  <2>. QED BY <2>2, <2>3, <2>4 DEF Refs
<1>8. ASSUME NEW t \in Slot
      PROVE  /\ made'[t] # None => made'[t].count = Refs(made', strong', default', t)
             /\ made'[t] # None <=> Refs(made', strong', default', t) > 0
  <2>1. CASE t = s
    BY <1>2, <1>3, <1>6, <2>1
  <2>2. CASE t # s
    <3>1. /\ Live(t) => made[t].count = Refs(made, strong, default, t)
          /\ Live(t) <=> Refs(made, strong, default, t) > 0
      BY IdleIs DEF IInv
    <3>2. PICK n \in Nat : n = Refs(made, strong, default, t)
      BY <1>7, <2>2
    <3>3. Refs(made', strong', default', t) = n + (IF p = t THEN 1 ELSE 0)
      BY <1>7, <2>2, <3>2
    <3>4. made'[t] = all[t] /\ (made'[t] # None <=> Live(t))
      BY <1>2, <2>2 DEF Same, Live
    <3>5. Live(t) => made'[t].count = made[t].count + (IF p = t THEN 1 ELSE 0)
      BY <3>4
    <3>. QED BY <3>1, <3>2, <3>3, <3>4, <3>5
  <2>. QED BY <2>1, <2>2
<1>9. dying'.slot = NULL
  BY IdleIs DEF IInv
<1>10. \A t \in Slot : Refs(made', strong', default', t) \in Nat
  BY <1>1, RefsNat
<1>11. Counted(made', strong', default', NULL)
  <2>1. ASSUME NEW t \in Slot
        PROVE  /\ made'[t] # None => made'[t].count =
                      Refs(made', strong', default', t) + (IF NULL = t THEN 1 ELSE 0)
               /\ made'[t] # None <=> Refs(made', strong', default', t) > 0 \/ NULL = t
    <3>1. PICK n \in Nat : n = Refs(made', strong', default', t)
      BY <1>10
    <3>2. NULL # t
      BY <1>3
    <3>3. /\ made'[t] # None => made'[t].count = n
          /\ made'[t] # None <=> n > 0
      BY <1>8, <3>1
    <3>4. n + (IF NULL = t THEN 1 ELSE 0) = n
      BY <3>2
    <3>. QED BY <3>1, <3>2, <3>3, <3>4
  <2>. QED BY <2>1 DEF Counted
<1>. QED BY <1>3, <1>9, <1>11 DEF CountsOK, LastGone

LEMMA CreateKeeps ==
    ASSUME ContextsOK, IInv, NEW a \in Usable \cup {NULL}, NEW c \in Contexts, NEW s \in Slot,
           Create(a, c, s)
    PROVE  IInv'
<1>1. /\ Idle /\ ~Live(s) /\ MayUse(c) /\ (Given(c) => ~Lent(c.info))
      /\ infos' = IF c.info # NULL /\ c.retain = "same"
                  THEN [infos EXCEPT ![c.info] = @ + 1] ELSE infos
      /\ mine' = IF Given(c) THEN [mine EXCEPT ![c.info] = @ - 1] ELSE mine
      /\ strong' = [strong EXCEPT ![s] = 1]
      /\ UNCHANGED <<default, held, dying>>
  BY DEF Create
<1>2. PICK p : p = Cast(a)
  OBVIOUS
<1>3. p \in Static \cup Slot /\ Kind(p)
  BY <1>2, UsableKinds DEF IInv
<1>4. p \in Slot => Live(p)
  BY <1>3, KindLive DEF IInv
<1>5. PICK b \in Free :
        /\ heap' = [heap EXCEPT ![b] = NewBlock(p, 1)]
        /\ made' = [Retained(made, p) EXCEPT ![s] =
                [parent |-> p, context |-> Kept(c), block |-> b, count |-> 1]]
  BY <1>2 DEF Create
<1>. DEFINE r == [parent |-> p, context |-> Kept(c), block |-> b, count |-> 1]
<1>6. b \in Block /\ heap[b] = Gone /\ Kept(c) \in KeptContext
  BY KeptIs DEF Free
<1>7. /\ r \in Made /\ r # None /\ r.parent = p /\ r.context = Kept(c) /\ r.block = b
      /\ r.count = 1
  <2>1. r \in Made
    BY <1>3, <1>5, <1>6 DEF Made
  <2>. QED BY <1>5, <2>1, MadeIs
<1>. HIDE DEF r
<1>8. PICK all : all = Retained(made, p)
  OBVIOUS
<1>9. /\ Same(all, made)
      /\ \A t \in Slot : Live(t) => all[t].count = made[t].count + (IF p = t THEN 1 ELSE 0)
  BY <1>3, <1>4, <1>8, RetainedIs DEF IInv, TypeOK, Live
<1>10. made' = [all EXCEPT ![s] = r]
  BY <1>5, <1>8 DEF r
<1>11. CountsOK'
  BY <1>1, <1>3, <1>4, <1>7, <1>9, <1>10, CreateCounts
<1>12. /\ made' \in [Slot -> {None} \cup Made] /\ made'[s] = r
       /\ \A t \in Slot \ {s} :
              /\ made'[t] = None <=> made[t] = None
              /\ made'[t].parent = made[t].parent /\ made'[t].context = made[t].context
              /\ made'[t].block = made[t].block
  BY <1>7, <1>9, <1>10 DEF Same
<1>13. /\ Live(s)' /\ \A t \in Slot \ {s} : Live(t)' <=> Live(t)
       /\ \A t \in (Static \cup Slot) \ {s} : Context(t)' = Context(t)
       /\ Context(s)' = Kept(c)
  BY <1>7, <1>12 DEF Live, Context, ContextsOK
<1>14. PICK x : /\ x = NewBlock(p, 1) /\ x \in Memory /\ x # Gone
                /\ (x.stays <=> ~Context(p).deallocate)
  BY <1>3, NewBlockIs
<1>15. /\ heap' \in [Block -> {Gone} \cup Memory] /\ heap'[b] = x
       /\ \A d \in Block \ {b} : heap'[d] = heap[d]
  BY <1>5, <1>6, <1>14 DEF IInv, TypeOK
<1>16. ASSUME NEW i \in Info
       PROVE  /\ mine'[i] \in Nat /\ infos'[i] \in Nat
              /\ infos'[i] - mine'[i] = infos[i] - mine[i] +
                     (IF Kept(c).info = i /\ Kept(c).release THEN 1 ELSE 0)
              /\ mine'[i] # mine[i] => ~Lent(i) /\ Kept(c).release
              /\ Kept(c).info = i /\ ~Kept(c).release => c.retain = "none" /\ mine'[i] > 0
  BY <1>1, CreateInfos
<1>17. TypeOK'
  <2>1. infos' = [i \in Info |-> infos'[i]] /\ mine' = [i \in Info |-> mine'[i]]
    BY <1>1 DEF IInv, TypeOK
  <2>2. infos' \in [Info -> Nat] /\ mine' \in [Info -> Nat]
    BY <1>16, <2>1
  <2>3. strong' \in [Slot -> Nat]
    BY <1>1 DEF IInv, TypeOK
  <2>. QED BY <1>1, <1>12, <1>15, <2>2, <2>3 DEF IInv, TypeOK
<1>18. \A t \in Slot : dying # [slot |-> t, stage |-> "free"]
  BY <1>1, IdleIs DEF IInv
<1>19. InfosOK'
  <2>1. Callable(s)' /\ ~Callable(s) /\ \A t \in Slot \ {s} : Callable(t)' <=> Callable(t)
    BY <1>1, <1>13, <1>18 DEF Callable
  <2>2. ASSUME NEW i \in Info
        PROVE  infos'[i] = mine'[i] + Cardinality(Holders(i)')
    <3>1. /\ s \notin Holders(i)
          /\ Holders(i)' = IF Kept(c).info = i /\ Kept(c).release
                           THEN Holders(i) \cup {s} ELSE Holders(i)
      BY <1>13, <2>1 DEF Holders
    <3>2. PICK n \in Nat : n = Cardinality(Holders(i)) /\ IsFiniteSet(Holders(i))
      BY HoldersFinite
    <3>3. Cardinality(Holders(i)') =
                n + (IF Kept(c).info = i /\ Kept(c).release THEN 1 ELSE 0)
      <4>1. CASE Kept(c).info = i /\ Kept(c).release
        <5>1. Holders(i)' = Holders(i) \cup {s} /\ s \notin Holders(i)
          BY <3>1, <4>1
        <5>2. Cardinality(Holders(i) \cup {s}) = n + 1
          BY <3>2, <5>1, FS_AddElement
        <5>. QED BY <4>1, <5>1, <5>2
      <4>2. CASE ~(Kept(c).info = i /\ Kept(c).release)
        BY <3>1, <3>2, <4>2
      <4>. QED BY <4>1, <4>2
    <3>4. infos[i] = mine[i] + n /\ infos[i] \in Nat /\ mine[i] \in Nat
      BY <3>2 DEF IInv, InfosOK, TypeOK
    <3>. QED BY <1>16, <3>3, <3>4
  <2>3. ASSUME NEW i \in Info, Lent(i)'
        PROVE  mine'[i] > 0
    <3>1. CASE Kept(c).info = i /\ ~Kept(c).release
      BY <1>16, <3>1
    <3>2. CASE ~(Kept(c).info = i /\ ~Kept(c).release)
      <4>1. Lent(i)
        BY <1>13, <2>3, <3>2 DEF Lent
      <4>2. mine[i] > 0 /\ mine'[i] = mine[i]
        BY <1>16, <4>1 DEF IInv, InfosOK
      <4>. QED BY <4>2
    <3>. QED BY <3>1, <3>2
  <2>. QED BY <2>2, <2>3 DEF InfosOK
<1>20. BlocksOK'
  <2>1. /\ strong[s] \in Nat /\ ~(strong[s] > 0) /\ default # s /\ Children(made, s) = {}
    <3>1. strong \in [Slot -> Nat] /\ ~(Refs(made, strong, default, s) > 0)
      BY <1>1, IdleIs DEF IInv, TypeOK
    <3>2. strong[s] > 0 \/ default = s \/ Children(made, s) # {} =>
              Refs(made, strong, default, s) > 0
      BY <3>1, RefsNat
    <3>. QED BY <3>1, <3>2
  <2>2. s \notin Static /\ p # s
    BY <1>1, <1>4 DEF ContextsOK
  <2>3. \A t \in Slot : Live(t) => made[t] \in Made /\ made[t].block \in Block
                                  /\ made[t].parent \in Static \cup Slot
    BY DEF IInv, TypeOK, Live, Made
  <2>4. \A t \in Slot : Live(t) => /\ made[t].block # b /\ made[t].parent # s
                                  /\ Freed(made[t].block, made[t].parent)
    BY <1>6, <2>1 DEF IInv, BlocksOK, Children
  <2>5. \A d \in Block : held[d] # NotHeld =>
            /\ d # b /\ held[d].of \in (Static \cup Slot) \ {s}
            /\ Kind(held[d].of) /\ Freed(d, held[d].of)
    BY <1>6, <2>1, <2>2 DEF IInv, BlocksOK, Kind
  <2>6. \A d \in Block : held[d] # NotHeld =>
        /\ \A t \in Slot : Live(t)' => made'[t].block # d
        /\ heap'[d] # Gone /\ heap'[d].of = held'[d].of /\ heap'[d].size >= held'[d].want
    BY <1>1, <1>7, <1>12, <1>13, <1>15, <2>5 DEF IInv, BlocksOK
  <2>7. \A d \in Block : held[d] # NotHeld => Kind(held[d].of)' /\ Freed(d, held[d].of)'
    <3>1. \A t \in Slot \ {s} : strong'[t] = strong[t]
      BY <1>1 DEF IInv, TypeOK
    <3>. QED BY <1>1, <1>13, <1>15, <2>5, <3>1 DEF Kind, Freed
  <2>8. \A t \in Slot : Live(t)' =>
        /\ heap'[made'[t].block] # Gone
        /\ \A u \in Slot : Live(u)' /\ made'[u].block = made'[t].block => u = t
    BY <1>7, <1>12, <1>13, <1>14, <1>15, <2>3, <2>4 DEF IInv, BlocksOK
  <2>9. ASSUME NEW t \in Slot, Live(t)' PROVE Freed(made[t].block, made[t].parent)'
    <3>1. CASE t = s
      <4>1. made'[t].block = b /\ made'[t].parent = p /\ Context(p)' = Context(p)
        BY <1>3, <1>7, <1>12, <1>13, <2>2, <3>1
      <4>2. heap'[b].stays <=> ~Context(p)'.deallocate
        BY <1>14, <1>15, <4>1
      <4>. QED BY <1>13, <1>14, <1>15, <3>1, <4>1, <4>2 DEF Freed, Context
    <3>2. CASE t # s
      <4>1. Live(t) /\ made'[t].block = made[t].block /\ made'[t].parent = made[t].parent
        BY <1>12, <1>13, <2>9, <3>2
      <4>2. /\ made[t].block \in Block \ {b} /\ made[t].parent \in (Static \cup Slot) \ {s}
            /\ Freed(made[t].block, made[t].parent)
        BY <2>3, <2>4, <4>1
      <4>. QED BY <1>13, <1>15, <4>1, <4>2 DEF Freed
    <3>. QED BY <3>1, <3>2
  <2>10. \A d \in Block :
        \/ heap'[d] = Gone \/ held'[d] # NotHeld \/ heap'[d].stays
        \/ \E t \in Slot : Live(t)' /\ made'[t].block = d
    BY <1>1, <1>7, <1>12, <1>13, <1>15 DEF IInv, BlocksOK
  <2>. QED BY <1>1, <2>6, <2>7, <2>8, <2>9, <2>10 DEF BlocksOK
<1>. QED BY <1>11, <1>17, <1>19, <1>20 DEF IInv

-----------------------------------------------------------------------------
(* The theorems.                                                           *)

LEMMA InitIInv == ContextsOK /\ Init => IInv
<1>. SUFFICES ASSUME ContextsOK, Init PROVE IInv
  OBVIOUS
<1>1. \A s \in Slot : ~Live(s) /\ ~Callable(s) /\ made[s].parent = NULL /\ strong[s] = 0
  BY DEF Init, Live, Callable, None
<1>2. TypeOK
  BY DEF Init, TypeOK
<1>3. NULL \notin Slot /\ dying.slot = NULL /\ default = NULL
  BY DEF Init, Nobody, ContextsOK
<1>4. CountsOK
  <2>1. ASSUME NEW s \in Slot PROVE Refs(made, strong, default, s) = 0
    <3>1. Children(made, s) = {}
      BY <1>1, <1>3 DEF Children
    <3>2. Cardinality(Children(made, s)) = 0
      BY <3>1, FS_EmptySet
    <3>. QED BY <1>1, <1>3, <3>2 DEF Refs
  <2>2. Counted(made, strong, default, NULL)
    BY <1>1, <1>3, <2>1 DEF Counted, Live
  <2>. QED BY <1>3, <2>2 DEF CountsOK, LastGone
<1>5. InfosOK
  <2>1. \A i \in Info : Holders(i) = {} /\ ~Lent(i)
    BY <1>1 DEF Holders, Lent
  <2>2. Cardinality({}) = 0
    BY FS_EmptySet
  <2>3. \A i \in Info : infos[i] = 1 /\ mine[i] = 1
    BY DEF Init
  <2>. QED BY <2>1, <2>2, <2>3 DEF InfosOK
<1>6. BlocksOK
  BY <1>1 DEF Init, BlocksOK
<1>. QED BY <1>2, <1>4, <1>5, <1>6 DEF IInv

LEMMA NextIInv == ContextsOK /\ IInv /\ [Next]_vars => IInv'
<1>. SUFFICES ASSUME ContextsOK, IInv, [Next]_vars PROVE IInv'
  OBVIOUS
<1>. USE DEF ContextsOK
<1>1. ASSUME NEW a \in Usable \cup {NULL}, NEW n \in Sizes, Allocate(a, n) PROVE IInv'
  BY <1>1, AllocateKeeps
<1>2. ASSUME NEW a \in Usable \cup {NULL}, NEW n \in Sizes, NEW b \in Block,
             Reallocate(a, b, n)
      PROVE  IInv'
  BY <1>2, ReallocateKeeps
<1>3. ASSUME NEW a \in Usable \cup {NULL}, NEW b \in Block, Deallocate(a, b) PROVE IInv'
  BY <1>3, DeallocateKeeps
<1>4. ASSUME NEW a \in Usable \cup {NULL}, NEW c \in Contexts, NEW s \in Slot, Create(a, c, s)
      PROVE  IInv'
  BY <1>4, CreateKeeps
<1>5. ASSUME NEW a \in Usable \cup {NULL}, SetDefault(a) PROVE IInv'
  BY <1>5, SetDefaultKeeps
<1>6. ASSUME NEW s \in Slot, Retain(s) PROVE IInv'
  BY <1>6, RetainKeeps
<1>7. ASSUME NEW s \in Slot, Release(s) PROVE IInv'
  BY <1>7, ReleaseKeeps
<1>8. ASSUME Finalize PROVE IInv'
  BY <1>8, FinalizeKeeps
<1>9. ASSUME FreeInstance PROVE IInv'
  BY <1>9, FreeInstanceKeeps
<1>10. ASSUME NEW i \in Info, DropInfo(i) PROVE IInv'
  BY <1>10, DropInfoKeeps
<1>11. ASSUME UNCHANGED vars PROVE IInv'
  <2>1. UNCHANGED <<made, heap, infos, default, strong, mine, held, dying>>
    BY <1>11 DEF vars
  <2>2. TypeOK' /\ CountsOK'
    BY <2>1 DEF IInv, TypeOK, CountsOK
  <2>3. Same(made', made)
    BY <2>1 DEF IInv, TypeOK, Same
  <2>4. InfosOK'
    BY <2>1, <2>3, InfosFrame DEF IInv
  <2>5. BlocksOK'
    BY <2>1, <2>3, BlocksFrame DEF IInv, BlocksOK, Kind
  <2>. QED BY <2>2, <2>4, <2>5 DEF IInv
<1>. QED BY <1>1, <1>2, <1>3, <1>4, <1>5, <1>6, <1>7, <1>8, <1>9, <1>10, <1>11 DEF Next

LEMMA IInvBalanced == ContextsOK /\ IInv => AllocatorsBalanced
<1>. SUFFICES ASSUME ContextsOK, IInv PROVE AllocatorsBalanced
  OBVIOUS
<1>1. ASSUME NEW s \in Slot, Live(s)
      PROVE  /\ made[s] \in Made /\ made[s].block \in Block
             /\ Context(s) = made[s].context /\ Context(s).info \in Info \cup {NULL}
             /\ Context(s).info # NULL /\ Context(s).retain # "none" => Context(s).release
  BY <1>1 DEF IInv, TypeOK, Live, Made, Context, ContextsOK, KeptContext, ContextType
<1>2. InfosBalanced
  <2>1. ASSUME NEW s \in Slot, Callable(s), Context(s).info # NULL
        PROVE  infos[Context(s).info] > 0
    <3>1. PICK i \in Info : i = Context(s).info
      BY <1>1, <2>1 DEF Callable
    <3>2. PICK n \in Nat, m \in Nat : n = Cardinality(Holders(i)) /\ m = mine[i]
      BY HoldersFinite DEF IInv, TypeOK
    <3>3. infos[i] = m + n
      BY <3>2 DEF IInv, InfosOK
    <3>4. CASE Context(s).release
      <4>1. s \in Holders(i)
        BY <2>1, <3>1, <3>4 DEF Holders
      <4>2. n >= 1
        BY <3>2, <4>1, HoldersFinite
      <4>. QED BY <3>1, <3>2, <3>3, <4>2
    <3>5. CASE ~Context(s).release
      <4>1. Lent(i)
        BY <1>1, <2>1, <3>1, <3>5 DEF Lent, Callable
      <4>2. m > 0
        BY <3>2, <4>1 DEF IInv, InfosOK
      <4>. QED BY <3>1, <3>2, <3>3, <4>2
    <3>. QED BY <3>4, <3>5
  <2>2. \A i \in Info : infos[i] = mine[i] + Cardinality({s \in Slot :
                        Callable(s) /\ Context(s).info = i /\ Context(s).release})
    BY DEF IInv, InfosOK, Holders
  <2>. QED BY <2>1, <2>2 DEF InfosBalanced
<1>3. ParentsLive
  <2>1. ASSUME NEW s \in Slot, Live(s), NEW p \in Slot, made[s].parent = p
        PROVE  Live(p) /\ Callable(p)
    <3>1. s \in Children(made, p)
      BY <2>1 DEF Children
    <3>2. Refs(made, strong, default, p) > 0
      BY <3>1, RefsNat DEF IInv, TypeOK
    <3>3. Live(p) /\ dying.slot # p
      BY <3>2 DEF IInv, CountsOK, Counted, LastGone, Live
    <3>4. dying # [slot |-> p, stage |-> "free"]
      BY <3>3
    <3>. QED BY <3>3, <3>4 DEF Callable
  <2>. QED BY <2>1 DEF ParentsLive
<1>4. BlocksBalanced
  BY <1>1 DEF IInv, BlocksOK, BlocksBalanced, Free
<1>. QED BY <1>2, <1>3, <1>4 DEF AllocatorsBalanced

\* At every step the count of an allocator is the references there are to it, the one
\* that is being released included; what is referred to is alive, and what is alive is
\* referred to or being deallocated: no allocator leaks.
THEOREM CountsExact ==
    ASSUME ContextsOK
    PROVE  Spec => []CountsOK
<1>1. Init => IInv
  BY InitIInv
<1>2. IInv /\ [Next]_vars => IInv'
  BY NextIInv
<1>3. IInv => CountsOK
  BY DEF IInv
<1>. QED BY <1>1, <1>2, <1>3, PTL DEF Spec

\* CFAllocatorCreate, __CFAllocatorFinalize and CFRelease: an info is released as often
\* as it was retained or given and is there for every callback that may get it, a parent
\* outlives what is allocated in it, and every block is freed once by the allocator that
\* made it, which is alive then.
THEOREM Balanced ==
    ASSUME ContextsOK
    PROVE  Spec => []AllocatorsBalanced
<1>1. Init => IInv
  BY InitIInv
<1>2. IInv /\ [Next]_vars => IInv'
  BY NextIInv
<1>3. IInv => AllocatorsBalanced
  BY IInvBalanced
<1>. QED BY <1>1, <1>2, <1>3, PTL DEF Spec
================================================================================
