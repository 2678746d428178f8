----------------------------- MODULE BPlistProofs -----------------------------
(***************************************************************************)
(* The binary property lists of CFBinaryPList.c.                           *)
(*                                                                         *)
(* The parser, for every document, however large, shared or cyclic:        *)
(* between any two of its steps every count is the number of references    *)
(* there are, and the activations on the stack are a path through the      *)
(* document that meets no entry twice; exactly the well-formed documents   *)
(* are parsed; when a call ends, what exists is its result and what that   *)
(* contains, and its caller can tell how it ended.  For every width of     *)
(* words: what it reads lies inside the data.                              *)
(*                                                                         *)
(* The writer, for every graph of objects: exactly the property lists are  *)
(* written, each as itself, and the caller can tell.                       *)
(*                                                                         *)
(* And both: what has been written is read again as what it was.           *)
(***************************************************************************)
EXTENDS BPlistRoundTrip, BPlistSizes, FiniteSetTheorems, SequenceTheorems, TLAPS

-----------------------------------------------------------------------------
(* Sequences.                                                              *)

LEMMA SeqIs ==
    ASSUME NEW X, NEW s \in Seq(X)
    PROVE  Len(s) \in Nat /\ DOMAIN s = 1..Len(s) /\ \A k \in DOMAIN s : s[k] \in X
BY LenProperties

LEMMA SeqInto ==
    ASSUME NEW X, NEW Y, NEW s \in Seq(X), \A k \in DOMAIN s : s[k] \in Y
    PROVE  s \in Seq(Y)
<1>1. PICK n \in Nat : s \in [1..n -> X]
  BY SeqDef
<1>2. s \in [1..n -> Y]
  BY <1>1
<1>. QED BY <1>2, SeqDef

\* The occurrences of something in a sequence can be counted.
LEMMA OccNat ==
    ASSUME NEW X, NEW s \in Seq(X), NEW i
    PROVE  /\ IsFiniteSet(At(s, i)) /\ Occurrences(s, i) \in Nat
           /\ Occurrences(s, i) > 0 <=> \E k \in DOMAIN s : s[k] = i
<1>1. IsFiniteSet(1..Len(s)) /\ DOMAIN s = 1..Len(s)
  BY SeqIs, FS_Interval
<1>2. At(s, i) \in SUBSET (1..Len(s))
  BY <1>1 DEF At
<1>3. IsFiniteSet(At(s, i))
  BY <1>1, <1>2, FS_Subset
<1>4. PICK n \in Nat : n = Cardinality(At(s, i)) /\ (n = 0 <=> At(s, i) = {})
  BY <1>3, FS_CardinalityType, FS_EmptySet
<1>. QED BY <1>3, <1>4 DEF Occurrences, At

LEMMA OccEmpty == ASSUME NEW i PROVE Occurrences(<<>>, i) = 0
<1>1. At(<<>>, i) = {}
  BY DEF At
<1>. QED BY <1>1, FS_EmptySet DEF Occurrences

\* A sequence is its first element and the rest.
LEMMA OccTail ==
    ASSUME NEW X, NEW s \in Seq(X), s # <<>>, NEW i
    PROVE  Occurrences(s, i) = Occurrences(Tail(s), i) + (IF Head(s) = i THEN 1 ELSE 0)
<1>1. /\ Tail(s) \in Seq(X) /\ Len(Tail(s)) = Len(s) - 1 /\ Len(s) \in Nat \ {0}
      /\ \A k \in 1..Len(Tail(s)) : Tail(s)[k] = s[k + 1]
      /\ Head(s) = s[1] /\ DOMAIN s = 1..Len(s)
  BY HeadTailProperties, SeqIs, EmptySeq
<1>2. DOMAIN Tail(s) = 1..(Len(s) - 1)
  BY <1>1, SeqIs
<1>. DEFINE A == At(Tail(s), i)
            B == At(s, i) \ {1}
            f == [k \in A |-> k + 1]
<1>3. IsFiniteSet(A) /\ IsFiniteSet(At(s, i))
  BY <1>1, OccNat
<1>4. \A k \in A : k + 1 \in B /\ k \in Int
  BY <1>1, <1>2 DEF At
<1>5. \A l \in B : l - 1 \in A /\ l \in Int
  BY <1>1, <1>2 DEF At
<1>6. ExistsBijection(A, B)
  <2>. HIDE DEF A, B
  <2>1. f \in [A -> B] /\ \A l \in B : \E k \in A : f[k] = l
    <3>1. ASSUME NEW l \in B PROVE \E k \in A : f[k] = l
      <4>1. l - 1 \in A /\ f[l - 1] = l
        BY <1>5
      <4>. QED BY <4>1
    <3>. QED BY <1>4, <3>1
  <2>2. \A k, l \in A : f[k] = f[l] => k = l
    BY <1>4
  <2>. QED BY <2>1, <2>2 DEF ExistsBijection, Bijection, Injection, Surjection, IsInjective
<1>7. Cardinality(A) = Cardinality(B)
  BY <1>3, <1>6, FS_Bijection
<1>8. Cardinality(B) = IF 1 \in At(s, i) THEN Cardinality(At(s, i)) - 1 ELSE Cardinality(At(s, i))
  BY <1>3, FS_RemoveElement
<1>9. 1 \in At(s, i) <=> Head(s) = i
  BY <1>1 DEF At
<1>10. Cardinality(At(s, i)) \in Nat
  BY <1>3, FS_CardinalityType
<1>. QED BY <1>7, <1>8, <1>9, <1>10 DEF Occurrences

LEMMA OccConcat ==
    ASSUME NEW X, NEW s \in Seq(X), NEW t \in Seq(X), NEW i
    PROVE  /\ s \o t \in Seq(X)
           /\ Occurrences(s \o t, i) = Occurrences(s, i) + Occurrences(t, i)
<1>. DEFINE n == Len(s)
            m == Len(t)
            u == s \o t
            A == At(s, i)
            B == At(t, i)
            C == {k \in At(u, i) : k > n}
            f == [k \in B |-> k + n]
<1>1. /\ n \in Nat /\ m \in Nat /\ DOMAIN s = 1..n /\ DOMAIN t = 1..m
      /\ u \in Seq(X) /\ DOMAIN u = 1..(n + m)
      /\ \A k \in 1..(n + m) : u[k] = IF k <= n THEN s[k] ELSE t[k - n]
  BY SeqIs, ConcatProperties
<1>2. IsFiniteSet(A) /\ IsFiniteSet(B) /\ IsFiniteSet(At(u, i))
  BY <1>1, OccNat
<1>3. At(u, i) = A \cup C /\ A \cap C = {}
  BY <1>1 DEF At
<1>4. \A k \in B : k + n \in C /\ k \in Int
  BY <1>1 DEF At
<1>5. \A l \in C : l - n \in B /\ l \in Int
  BY <1>1 DEF At
<1>6. ExistsBijection(B, C)
  <2>. HIDE DEF n, B, C
  <2>1. f \in [B -> C]
    BY <1>4
  <2>2. ASSUME NEW l \in C PROVE \E k \in B : f[k] = l
    <3>1. l - n \in B /\ f[l - n] = l
      BY <1>1, <1>5
    <3>. QED BY <3>1
  <2>3. \A k, l \in B : f[k] = f[l] => k = l
    BY <1>1, <1>4
  <2>. QED BY <2>1, <2>2, <2>3 DEF ExistsBijection, Bijection, Injection, Surjection, IsInjective
<1>7. IsFiniteSet(C) /\ Cardinality(C) = Cardinality(B)
  BY <1>2, <1>6, FS_Bijection
<1>8. Cardinality(At(u, i)) = Cardinality(A) + Cardinality(C) - Cardinality(A \cap C)
  BY <1>2, <1>3, <1>7, FS_Union
<1>9. Cardinality(A) \in Nat /\ Cardinality(B) \in Nat /\ Cardinality(A \cap C) = 0
  BY <1>2, <1>3, FS_CardinalityType, FS_EmptySet
<1>. QED BY <1>1, <1>7, <1>8, <1>9 DEF Occurrences

\* In ascending order each number of a finite set has its place, and only one.
LEMMA AscendingIs ==
    ASSUME NEW S \in SUBSET Int, IsFiniteSet(S)
    PROVE  /\ Cardinality(S) \in Nat /\ Ascending(S) \in [1..Cardinality(S) -> S]
           /\ \A x \in S : \E k \in 1..Cardinality(S) : Ascending(S)[k] = x
           /\ \A k, l \in 1..Cardinality(S) : Ascending(S)[k] = Ascending(S)[l] => k = l
<1>. DEFINE n == Cardinality(S)
            Below(x) == {y \in S : y <= x}
            rank == [x \in S |-> Cardinality(Below(x))]
<1>1. n \in Nat
  BY FS_CardinalityType
<1>2. ASSUME NEW x \in S
      PROVE  IsFiniteSet(Below(x)) /\ rank[x] \in 1..n
  <2>1. Below(x) \in SUBSET S /\ Below(x) # {}
    OBVIOUS
  <2>2. IsFiniteSet(Below(x)) /\ Cardinality(Below(x)) <= n
    BY <2>1, FS_Subset
  <2>3. Cardinality(Below(x)) \in Nat /\ Cardinality(Below(x)) # 0
    BY <2>1, <2>2, FS_CardinalityType, FS_EmptySet
  <2>. QED BY <1>1, <2>2, <2>3
<1>3. ASSUME NEW x \in S, NEW y \in S, rank[x] = rank[y] PROVE x = y
  <2>1. Below(x) \in SUBSET Below(y) \/ Below(y) \in SUBSET Below(x)
    <3>1. \A z \in S : z \in Int
      OBVIOUS
    <3>2. x <= y \/ y <= x
      BY <3>1
    <3>3. CASE x <= y
      <4>1. \A z \in S : z <= x => z <= y
        BY <3>1, <3>3
      <4>. QED BY <4>1
    <3>4. CASE y <= x
      <4>1. \A z \in S : z <= y => z <= x
        BY <3>1, <3>4
      <4>. QED BY <4>1
    <3>. QED BY <3>2, <3>3, <3>4
  <2>2. Below(x) = Below(y)
    BY <1>2, <1>3, <2>1, FS_Subset
  <2>. QED BY <2>2
<1>4. rank \in Injection(S, 1..n)
  <2>1. rank \in [S -> 1..n]
    BY <1>2
  <2>. HIDE DEF rank
  <2>. QED BY <1>3, <2>1 DEF Injection, IsInjective
<1>5. IsFiniteSet(1..n) /\ Cardinality(1..n) = n
  BY <1>1, FS_Interval
<1>6. rank \in Surjection(S, 1..n)
  BY <1>4, <1>5, FS_Injection
<1>7. \A k \in 1..n : \E x \in S : rank[x] = k
  BY <1>6 DEF Surjection
<1>8. ASSUME NEW k \in 1..n
      PROVE  Ascending(S)[k] \in S /\ Cardinality(Below(Ascending(S)[k])) = k
  <2>1. \E x \in S : Cardinality(Below(x)) = k
    BY <1>7
  <2>2. Ascending(S)[k] = CHOOSE x \in S : Cardinality(Below(x)) = k
    BY DEF Ascending
  <2>. QED BY <2>1, <2>2
<1>9. \A k \in 1..n : Ascending(S)[k] \in S /\ rank[Ascending(S)[k]] = k
  BY <1>8
<1>. HIDE DEF rank
<1>10. Ascending(S) \in [1..n -> S]
  <2>. HIDE DEF n
  <2>1. \A k \in 1..n : Ascending(S)[k] \in S
    BY <1>9
  <2>2. Ascending(S) = [k \in 1..n |-> Ascending(S)[k]]
    BY DEF Ascending, n
  <2>. QED BY <2>1, <2>2
<1>11. ASSUME NEW x \in S PROVE \E k \in 1..n : Ascending(S)[k] = x
  <2>1. rank[x] \in 1..n
    BY <1>2
  <2>2. rank[Ascending(S)[rank[x]]] = rank[x] /\ Ascending(S)[rank[x]] \in S
    BY <1>9, <2>1
  <2>. QED BY <1>3, <2>1, <2>2
<1>12. \A k, l \in 1..n : Ascending(S)[k] = Ascending(S)[l] => k = l
  BY <1>9
<1>. QED BY <1>1, <1>10, <1>11, <1>12

\* So the cleanup releases each element of the cache once.
LEMMA OccAscending ==
    ASSUME NEW S \in SUBSET Int, IsFiniteSet(S), NEW i
    PROVE  /\ Ascending(S) \in Seq(S)
           /\ Occurrences(Ascending(S), i) = IF i \in S THEN 1 ELSE 0
<1>1. PICK n \in Nat : /\ n = Cardinality(S) /\ Ascending(S) \in [1..n -> S]
                       /\ \A x \in S : \E k \in 1..n : Ascending(S)[k] = x
                       /\ \A k, l \in 1..n : Ascending(S)[k] = Ascending(S)[l] => k = l
  BY AscendingIs
<1>2. Ascending(S) \in Seq(S) /\ DOMAIN Ascending(S) = 1..n
  BY <1>1, SeqDef
<1>3. CASE i \notin S
  <2>1. At(Ascending(S), i) = {}
    BY <1>1, <1>2, <1>3 DEF At
  <2>. QED BY <1>2, <1>3, <2>1, FS_EmptySet DEF Occurrences
<1>4. CASE i \in S
  <2>1. PICK k \in 1..n : Ascending(S)[k] = i
    BY <1>1, <1>4
  <2>2. At(Ascending(S), i) = {k}
    BY <1>1, <1>2, <2>1 DEF At
  <2>. QED BY <1>2, <1>4, <2>2, FS_Singleton DEF Occurrences
<1>. QED BY <1>3, <1>4

-----------------------------------------------------------------------------
(* The activations of ParseArray and ParseDictionary on the C stack.       *)

Numbered(d) == 0..(Len(d.table) - 1)
Item(d, o) == d.table[o + 1]
IsDict(d, o) == Item(d, o).kind = "dictionary"
Half(d, o) == Len(Item(d, o).refs) \div 2
Rounds(d, o) == IF IsDict(d, o) THEN Half(d, o) ELSE Len(Item(d, o).refs)

Activation(d) ==
    [object : Numbered(d), at : Nat \ {0}, key : Numbered(d) \cup {NULL}, onValue : BOOLEAN]

\* The reference that an activation is following.
Asked(d, f) ==
    Item(d, f.object).refs[
        (IF IsDict(d, f.object) /\ f.onValue THEN Half(d, f.object) ELSE 0) + f.at]

\* What an activation has parsed so far is in the cache, the key of its pair included.
FrameOK(d, c, f) ==
    /\ Item(d, f.object).kind \in Containers
    /\ f.at <= Rounds(d, f.object) + 1
    /\ \A k \in 1..(f.at - 1) :
        /\ Item(d, f.object).refs[k] \in c
        /\ IsDict(d, f.object) => Item(d, f.object).refs[Half(d, f.object) + k] \in c
    /\ f.onValue =>
        /\ IsDict(d, f.object) /\ f.at <= Rounds(d, f.object)
        /\ f.key # NULL => f.key = Item(d, f.object).refs[f.at] /\ f.key \in c

\* What the activation f is told, or does, fits what it has done.
TopOK(d, f, ct) ==
    IF ct.op = "loop" THEN ~f.onValue
    ELSE f.at <= Rounds(d, f.object) /\ ct.arg \in {Asked(d, f), NULL}

\* Each activation is the one its caller has asked for, and has its flag.
StackOK(d, c, ip, fr, ct) ==
    /\ fr \in Seq(Activation(d))
    /\ \A k \in 1..Len(fr) : FrameOK(d, c, fr[k])
    /\ \A k, l \in 1..Len(fr) : fr[k].object = fr[l].object => k = l
    /\ \A k \in 1..(Len(fr) - 1) :
        fr[k].at <= Rounds(d, fr[k].object) /\ Asked(d, fr[k]) = fr[k + 1].object
    /\ ip = {fr[k].object : k \in 1..Len(fr)}
    /\ IsFiniteSet(ip) /\ Cardinality(ip) = Len(fr)
    /\ ip \cap c = {}
    /\ ct.op = "return" => ct.arg \in c \cup {NULL}
    /\ Len(fr) # 0 => TopOK(d, fr[Len(fr)], ct)

\* A cache that grows leaves every activation right.
LEMMA FrameKept ==
    ASSUME NEW d, NEW c, NEW e, c \subseteq e, NEW f, FrameOK(d, c, f)
    PROVE  FrameOK(d, e, f)
BY DEF FrameOK

\* Control passes between the innermost activation and what it has called.
LEMMA StackControl ==
    ASSUME NEW d, NEW c, NEW e, c \subseteq e, NEW ip, ip \cap e = {}, NEW fr, NEW ct, NEW cu,
           StackOK(d, c, ip, fr, ct),
           cu.op = "return" => cu.arg \in e \cup {NULL},
           Len(fr) # 0 => TopOK(d, fr[Len(fr)], cu)
    PROVE  StackOK(d, e, ip, fr, cu)
<1>1. \A k \in 1..Len(fr) : FrameOK(d, e, fr[k])
  BY FrameKept DEF StackOK
<1>. QED BY <1>1 DEF StackOK

\* ParseArray or ParseDictionary is entered.
LEMMA StackPush ==
    ASSUME NEW d, NEW c, NEW ip, NEW fr, NEW ct, StackOK(d, c, ip, fr, ct),
           NEW o \in Numbered(d), o \notin c, o \notin ip, o # NULL,
           Item(d, o).kind \in Containers, Rounds(d, o) \in Nat,
           ct.op = "call", ct.arg = o,
           NEW f, f = [object |-> o, at |-> 1, key |-> NULL, onValue |-> FALSE]
    PROVE  StackOK(d, c, ip \cup {o}, Append(fr, f), [op |-> "loop"])
<1>. DEFINE fs == Append(fr, f)
<1>1. f \in Activation(d) /\ FrameOK(d, c, f) /\ TopOK(d, f, [op |-> "loop"])
  BY DEF Activation, FrameOK, TopOK
<1>2. PICK n \in Nat : n = Len(fr)
  BY SeqIs DEF StackOK
<1>3. /\ fs \in Seq(Activation(d)) /\ Len(fs) = n + 1
      /\ \A k \in 1..n : fs[k] = fr[k]
      /\ fs[n + 1] = f
  BY <1>1, <1>2, AppendProperties DEF StackOK
<1>. HIDE DEF fs
<1>4. \A k \in 1..(n + 1) : k \in 1..n \/ k = n + 1
  BY <1>2
<1>5. \A k \in 1..n : fr[k].object # o
  BY <1>2 DEF StackOK
<1>6. \A k \in 1..(n + 1) : FrameOK(d, c, fs[k])
  BY <1>1, <1>2, <1>3, <1>4 DEF StackOK
<1>7. \A k, l \in 1..(n + 1) : fs[k].object = fs[l].object => k = l
  <2>1. f.object = o
    OBVIOUS
  <2>2. \A k, l \in 1..n : fr[k].object = fr[l].object => k = l
    BY <1>2 DEF StackOK
  <2>. QED BY <1>3, <1>4, <1>5, <2>1, <2>2
<1>8. ASSUME NEW k \in 1..n
      PROVE  fs[k].at <= Rounds(d, fs[k].object) /\ Asked(d, fs[k]) = fs[k + 1].object
  <2>1. CASE k = n
    <3>1. TopOK(d, fr[n], ct)
      BY <1>2, <2>1 DEF StackOK
    <3>2. fr[n].at <= Rounds(d, fr[n].object) /\ Asked(d, fr[n]) = o
      BY <3>1 DEF TopOK
    <3>. QED BY <1>3, <2>1, <3>2
  <2>2. CASE k # n
    <3>1. k \in 1..(n - 1) /\ k + 1 \in 1..n
      BY <1>2, <2>2
    <3>2. fr[k].at <= Rounds(d, fr[k].object) /\ Asked(d, fr[k]) = fr[k + 1].object
      BY <1>2, <3>1 DEF StackOK
    <3>. QED BY <1>3, <3>1, <3>2
  <2>. QED BY <2>1, <2>2
<1>9. ip \cup {o} = {fs[k].object : k \in 1..(n + 1)}
  <2>1. ip = {fr[k].object : k \in 1..n}
    BY <1>2 DEF StackOK
  <2>2. n + 1 \in 1..(n + 1) /\ 1..n \subseteq 1..(n + 1) /\ fs[n + 1].object = o
    BY <1>2, <1>3
  <2>. QED BY <1>3, <1>4, <2>1, <2>2
<1>10. IsFiniteSet(ip \cup {o}) /\ Cardinality(ip \cup {o}) = n + 1
  BY <1>2, FS_AddElement DEF StackOK
<1>11. (ip \cup {o}) \cap c = {}
  BY DEF StackOK
<1>12. n + 1 - 1 = n
  BY <1>2
<1>. DEFINE cu == [op |-> "loop"]
<1>13. cu.op # "return" /\ TopOK(d, fs[n + 1], cu)
  BY <1>1, <1>3
<1>. HIDE DEF cu
<1>14. StackOK(d, c, ip \cup {o}, fs, cu)
  BY <1>3, <1>6, <1>7, <1>8, <1>9, <1>10, <1>11, <1>12, <1>13 DEF StackOK
<1>. QED BY <1>14 DEF fs, cu

\* The innermost activation goes on.
LEMMA StackSetTop ==
    ASSUME NEW d, NEW c, NEW ip, NEW fr, NEW ct, StackOK(d, c, ip, fr, ct), Len(fr) # 0,
           NEW f \in Activation(d), f.object = fr[Len(fr)].object, FrameOK(d, c, f),
           NEW cu, cu.op = "return" => cu.arg \in c \cup {NULL}, TopOK(d, f, cu)
    PROVE  StackOK(d, c, ip, [fr EXCEPT ![Len(fr)] = f], cu)
<1>. DEFINE fs == [fr EXCEPT ![Len(fr)] = f]
<1>1. PICK n \in Nat \ {0} : n = Len(fr)
  BY SeqIs DEF StackOK
<1>2. fs \in Seq(Activation(d)) /\ Len(fs) = n
  BY <1>1, ExceptSeq DEF StackOK
<1>3. fs[n] = f /\ \A k \in 1..n : k # n => fs[k] = fr[k]
  BY <1>1, SeqIs DEF StackOK
<1>. HIDE DEF fs
<1>4. \A k \in 1..n : fs[k].object = fr[k].object
  BY <1>1, <1>3
<1>5. \A k \in 1..n : FrameOK(d, c, fs[k])
  BY <1>1, <1>3 DEF StackOK
<1>6. \A k, l \in 1..n : fs[k].object = fs[l].object => k = l
  BY <1>1, <1>4 DEF StackOK
<1>7. ASSUME NEW k \in 1..(n - 1)
      PROVE  fs[k].at <= Rounds(d, fs[k].object) /\ Asked(d, fs[k]) = fs[k + 1].object
  <2>1. k \in 1..n /\ k # n /\ k + 1 \in 1..n
    BY <1>1
  <2>2. fr[k].at <= Rounds(d, fr[k].object) /\ Asked(d, fr[k]) = fr[k + 1].object
    BY <1>1 DEF StackOK
  <2>. QED BY <1>3, <1>4, <2>1, <2>2
<1>8. ip = {fs[k].object : k \in 1..n}
  BY <1>1, <1>4 DEF StackOK
<1>9. IsFiniteSet(ip) /\ Cardinality(ip) = n /\ ip \cap c = {}
  BY <1>1 DEF StackOK
<1>. QED BY <1>2, <1>3, <1>5, <1>6, <1>7, <1>8, <1>9 DEF StackOK, fs

\* The innermost activation ends; it returns nothing or its object, which is now
\* in the cache.
LEMMA StackPop ==
    ASSUME NEW d, NEW c, NEW ip, NEW fr, NEW ct, StackOK(d, c, ip, fr, ct), Len(fr) # 0,
           NEW o, o = fr[Len(fr)].object,
           NEW e, NEW r, \/ e = c /\ r = NULL
                         \/ e = c \cup {o} /\ r = o
    PROVE  StackOK(d, e, ip \ {o}, Front(fr), [op |-> "return", arg |-> r])
<1>. DEFINE fs == Front(fr)
<1>1. PICK n \in Nat \ {0} : n = Len(fr)
  BY SeqIs DEF StackOK
<1>2. /\ fs \in Seq(Activation(d)) /\ Len(fs) = n - 1
      /\ \A k \in 1..(n - 1) : fs[k] = fr[k]
  BY <1>1, SubSeqProperties DEF StackOK, Front
<1>. HIDE DEF fs
<1>3. c \subseteq e /\ (ip \ {o}) \cap e = {}
  BY DEF StackOK
<1>4. \A k \in 1..(n - 1) : FrameOK(d, e, fs[k])
  BY <1>1, <1>2, <1>3, FrameKept DEF StackOK
<1>5. \A k, l \in 1..(n - 1) : fs[k].object = fs[l].object => k = l
  BY <1>1, <1>2 DEF StackOK
<1>6. ASSUME NEW k \in 1..(n - 1 - 1)
      PROVE  fs[k].at <= Rounds(d, fs[k].object) /\ Asked(d, fs[k]) = fs[k + 1].object
  <2>1. k \in 1..(n - 1) /\ k + 1 \in 1..(n - 1)
    BY <1>1
  <2>2. fr[k].at <= Rounds(d, fr[k].object) /\ Asked(d, fr[k]) = fr[k + 1].object
    BY <1>1, <2>1 DEF StackOK
  <2>. QED BY <1>2, <2>1, <2>2
<1>7. ip \ {o} = {fs[k].object : k \in 1..(n - 1)}
  <2>1. ip = {fr[k].object : k \in 1..n} /\ o = fr[n].object
    BY <1>1 DEF StackOK
  <2>2. \A k \in 1..(n - 1) : k \in 1..n /\ fr[k].object # o
    BY <1>1, <2>1 DEF StackOK
  <2>3. \A k \in 1..n : fr[k].object # o => k \in 1..(n - 1)
    BY <1>1, <2>1
  <2>4. \A x \in ip : x # o => \E k \in 1..(n - 1) : x = fs[k].object
    BY <1>2, <2>1, <2>3
  <2>5. \A k \in 1..(n - 1) : fs[k].object \in ip /\ fs[k].object # o
    BY <1>2, <2>1, <2>2
  <2>. QED BY <2>4, <2>5
<1>8. o \in ip
  BY <1>1 DEF StackOK
<1>9. IsFiniteSet(ip \ {o}) /\ Cardinality(ip \ {o}) = n - 1
  <2>1. IsFiniteSet(ip) /\ Cardinality(ip) = n
    BY <1>1 DEF StackOK
  <2>. QED BY <1>8, <2>1, FS_RemoveElement
<1>10. ASSUME n - 1 # 0
       PROVE  TopOK(d, fs[n - 1], [op |-> "return", arg |-> r])
  <2>1. n - 1 \in 1..(n - 1)
    BY <1>1, <1>10
  <2>2. fr[n - 1].at <= Rounds(d, fr[n - 1].object) /\ Asked(d, fr[n - 1]) = fr[n - 1 + 1].object
    BY <1>1, <2>1 DEF StackOK
  <2>3. fr[n - 1 + 1].object = o
    BY <1>1
  <2>. QED BY <1>2, <2>1, <2>2, <2>3 DEF TopOK
<1>11. r \in e \cup {NULL}
  OBVIOUS
<1>. QED BY <1>2, <1>3, <1>4, <1>5, <1>6, <1>7, <1>9, <1>10, <1>11 DEF StackOK, fs

-----------------------------------------------------------------------------
(* Reference counts.  st has what each object would hold, of the objects   *)
(* in N those with a count in r exist.                                     *)

Contents == [o \in Numbers |-> Stored(o)]

PlacesOf(st, j, i) == {j} \X At(st[j], i)
Held(st, L, i) == Cardinality(UNION {PlacesOf(st, j, i) : j \in L})
Alive(r) == {n \in DOMAIN r : r[n] > 0}

\* The references of the cache, or of what is left to release.
Due(ph, c, td, i) ==
    CASE ph = "parse" -> IF i \in c THEN 1 ELSE 0
      [] ph = "cleanup" -> Occurrences(td, i)
      [] OTHER -> 0

CountsOK(st, r, res, ph, c, td) ==
    \A i \in DOMAIN r :
        r[i] = Held(st, Alive(r), i) + (IF res = i THEN 1 ELSE 0) + Due(ph, c, td, i)

\* What the cache has is there with all it holds, and nothing else is.
CountedOK(N, st, r, res, ph, c, td) ==
    /\ r \in [N -> Nat] /\ c \subseteq N /\ td \in Seq(N)
    /\ \A i \in N : r[i] > 0 => i \in c
    /\ \A o \in c : \A k \in DOMAIN st[o] : st[o][k] \in c
    /\ ph = "cleanup" => \A k \in DOMAIN td : td[k] \in c
    /\ ph \in {"idle", "load"} => c = {}
    /\ ph \in {"idle", "load", "parse"} => res = NULL
    /\ CountsOK(st, r, res, ph, c, td)

LEMMA HeldEmpty == ASSUME NEW st, NEW i PROVE Held(st, {}, i) = 0
<1>1. UNION {PlacesOf(st, j, i) : j \in {}} = {}
  OBVIOUS
<1>. QED BY <1>1, FS_EmptySet DEF Held

\* The references to i from finitely many objects are finitely many.
LEMMA HeldFinite ==
    ASSUME NEW N, IsFiniteSet(N), NEW st \in [N -> Seq(Nat)], NEW L \in SUBSET N, NEW i
    PROVE  /\ IsFiniteSet(UNION {PlacesOf(st, j, i) : j \in L})
           /\ Held(st, L, i) \in Nat
<1>. DEFINE S == {PlacesOf(st, j, i) : j \in L}
            f == [j \in L |-> PlacesOf(st, j, i)]
<1>1. IsFiniteSet(L)
  BY FS_Subset
<1>2. IsFiniteSet(S)
  <2>1. f \in Surjection(L, S)
    <3>1. f \in [L -> S] /\ \A y \in S : \E j \in L : f[j] = y
      OBVIOUS
    <3>. QED BY <3>1 DEF Surjection
  <2>. HIDE DEF f, S
  <2>. QED BY <1>1, <2>1, FS_Surjection
<1>3. ASSUME NEW j \in L PROVE IsFiniteSet(PlacesOf(st, j, i))
  <2>1. IsFiniteSet(At(st[j], i)) /\ IsFiniteSet({j})
    BY OccNat, FS_Singleton
  <2>. QED BY <2>1, FS_Product DEF PlacesOf
<1>4. \A x \in S : IsFiniteSet(x)
  BY <1>3
<1>5. IsFiniteSet(UNION S)
  <2>. HIDE DEF S
  <2>. QED BY <1>2, <1>4, FS_UNION
<1>. QED BY <1>5, FS_CardinalityType DEF Held

\* An object more holds what it has stored.
LEMMA HeldAdd ==
    ASSUME NEW N, IsFiniteSet(N), NEW st \in [N -> Seq(Nat)], NEW L \in SUBSET N,
           NEW o \in N, o \notin L, NEW i
    PROVE  Held(st, L \cup {o}, i) = Held(st, L, i) + Occurrences(st[o], i)
<1>. DEFINE A == UNION {PlacesOf(st, j, i) : j \in L}
            B == PlacesOf(st, o, i)
            C == UNION {PlacesOf(st, j, i) : j \in L \cup {o}}
            f == [k \in At(st[o], i) |-> <<o, k>>]
<1>1. C = A \cup B
  OBVIOUS
<1>2. A \cap B = {}
  BY DEF PlacesOf
<1>3. IsFiniteSet(A) /\ Cardinality(A) = Held(st, L, i) /\ Held(st, L, i) \in Nat
  <2>1. IsFiniteSet(A) /\ Held(st, L, i) \in Nat
    BY HeldFinite
  <2>. QED BY <2>1 DEF Held
<1>4. IsFiniteSet(At(st[o], i)) /\ Occurrences(st[o], i) \in Nat
  BY OccNat
<1>5. ExistsBijection(At(st[o], i), B)
  <2>1. f \in [At(st[o], i) -> B] /\ \A y \in B : \E k \in At(st[o], i) : f[k] = y
    BY DEF PlacesOf
  <2>2. \A k, l \in At(st[o], i) : f[k] = f[l] => k = l
    OBVIOUS
  <2>. HIDE DEF f, B
  <2>. QED BY <2>1, <2>2 DEF ExistsBijection, Bijection, Injection, Surjection, IsInjective
<1>6. IsFiniteSet(B) /\ Cardinality(B) = Occurrences(st[o], i)
  BY <1>4, <1>5, FS_Bijection DEF Occurrences
<1>7. Cardinality(C) = Held(st, L, i) + Occurrences(st[o], i)
  <2>. HIDE DEF A, B, C
  <2>1. Cardinality(A \cup B) = Cardinality(A) + Cardinality(B) - Cardinality(A \cap B)
    BY <1>3, <1>6, FS_Union
  <2>2. Cardinality(A \cap B) = 0
    BY <1>2, FS_EmptySet
  <2>. QED BY <1>1, <1>3, <1>4, <1>6, <2>1, <2>2
<1>. QED BY <1>7 DEF Held

\* With o, the objects of K hold m + n references to i.
Grown(st, L, K, o, i) ==
    \E m, n \in Nat : /\ m = Held(st, L, i) /\ n = Occurrences(st[o], i)
                     /\ Held(st, K, i) = m + n

LEMMA HeldMore ==
    ASSUME NEW N, IsFiniteSet(N), NEW st \in [N -> Seq(Nat)], NEW L \in SUBSET N,
           NEW o \in N, o \notin L, NEW K, K = L \cup {o}, NEW i
    PROVE  Grown(st, L, K, o, i)
<1>1. Held(st, K, i) = Held(st, L, i) + Occurrences(st[o], i)
  BY HeldAdd
<1>2. Held(st, L, i) \in Nat /\ Occurrences(st[o], i) \in Nat
  BY HeldFinite, OccNat
<1>. QED BY <1>1, <1>2 DEF Grown

\* CFArrayCreate, CFDictionaryCreate or the creation of a leaf: the new object holds
\* what it stores, and the cache holds the new object.
LEMMA CountedCreate ==
    ASSUME NEW N, IsFiniteSet(N), NEW st \in [N -> Seq(Nat)], NEW r, NEW c, NEW td,
           CountedOK(N, st, r, NULL, "parse", c, td), NULL \notin N,
           NEW o \in N, o \notin c, \A k \in DOMAIN st[o] : st[o][k] \in c,
           NEW s \in [N -> Int],
           \A i \in N : s[i] = (IF i = o THEN 1 ELSE r[i]) + Occurrences(st[o], i)
    PROVE  CountedOK(N, st, s, NULL, "parse", c \cup {o}, td)
<1>1. /\ r \in [N -> Nat] /\ c \subseteq N /\ td \in Seq(N)
      /\ \A i \in N : r[i] > 0 => i \in c
      /\ \A i \in N : r[i] = Held(st, Alive(r), i) + (IF i \in c THEN 1 ELSE 0)
  <2>1. \A i \in N : Due("parse", c, td, i) = IF i \in c THEN 1 ELSE 0
    BY DEF Due
  <2>2. \A i \in N : Held(st, Alive(r), i) \in Nat
    BY HeldFinite DEF CountedOK, Alive
  <2>. QED BY <2>1, <2>2 DEF CountedOK, CountsOK
<1>2. \A i \in N : Occurrences(st[o], i) \in Nat /\ (Occurrences(st[o], i) > 0 => i \in c)
  BY OccNat
<1>3. s \in [N -> Nat] /\ \A i \in N : s[i] = (IF i = o THEN 1 ELSE r[i]) + Occurrences(st[o], i)
  <2>1. ASSUME NEW i \in N PROVE s[i] \in Nat
    <3>1. r[i] \in Nat /\ Occurrences(st[o], i) \in Nat
      BY <1>1, <1>2
    <3>. QED BY <3>1
  <2>. QED BY <2>1
<1>4. \A i \in N : Held(st, Alive(r), i) \in Nat
  BY <1>1, HeldFinite DEF Alive
<1>5. r[o] = 0
  BY <1>1
<1>6. Alive(r) \in SUBSET N /\ o \notin Alive(r)
  BY <1>1, <1>5 DEF Alive
<1>7. Alive(s) = Alive(r) \cup {o}
  <2>1. \A i \in c : r[i] > 0
    BY <1>1, <1>4
  <2>2. ASSUME NEW i \in N PROVE s[i] > 0 <=> r[i] > 0 \/ i = o
    BY <1>1, <1>2, <1>3, <2>1
  <2>. QED BY <1>1, <1>3, <2>2 DEF Alive
<1>8. ASSUME NEW i \in N
      PROVE  s[i] = Held(st, Alive(s), i) + (IF i \in c \cup {o} THEN 1 ELSE 0)
  <2>1. PICK h \in Nat, m \in Nat : /\ h = Held(st, Alive(r), i) /\ m = Occurrences(st[o], i)
                                   /\ Held(st, Alive(s), i) = h + m
    <3>1. Grown(st, Alive(r), Alive(s), o, i)
      BY <1>6, <1>7, HeldMore
    <3>. QED BY <3>1 DEF Grown
  <2>2. r[i] = h + (IF i \in c THEN 1 ELSE 0)
    BY <1>1, <2>1
  <2>. QED BY <1>3, <1>5, <2>1, <2>2
<1>9. ASSUME NEW i \in N
      PROVE  s[i] = Held(st, Alive(s), i) + (IF NULL = i THEN 1 ELSE 0)
                    + Due("parse", c \cup {o}, td, i)
  <2>1. Held(st, Alive(s), i) \in Nat /\ NULL # i
    BY <1>3, HeldFinite DEF Alive
  <2>. QED BY <1>8, <2>1 DEF Due
<1>10. DOMAIN s = N
  BY <1>3
<1>11. \A i \in N : s[i] > 0 => i \in c \cup {o}
  BY <1>1, <1>2, <1>3
<1>12. \A p \in c \cup {o} : \A k \in DOMAIN st[p] : st[p][k] \in c \cup {o}
  BY DEF CountedOK
<1>. HIDE DEF Due
<1>. QED BY <1>1, <1>3, <1>9, <1>10, <1>11, <1>12 DEF CountedOK, CountsOK

\* The cleanup starts; what it has to release is what the cache holds.  The top
\* object has a reference more, which is the caller's.
LEMMA CountedCleanup ==
    ASSUME NEW N \in SUBSET Int, IsFiniteSet(N), NEW st \in [N -> Seq(Nat)], NEW r, NEW c, NEW td,
           CountedOK(N, st, r, NULL, "parse", c, td), NULL \notin N,
           NEW o \in c \cup {NULL},
           NEW s \in [N -> Int], \A i \in N : s[i] = IF i = o THEN r[i] + 1 ELSE r[i]
    PROVE  CountedOK(N, st, s, o, "cleanup", c, Ascending(c))
<1>1. /\ r \in [N -> Nat] /\ c \in SUBSET N
      /\ \A i \in N : r[i] > 0 => i \in c
      /\ \A i \in N : r[i] = Held(st, Alive(r), i) + (IF i \in c THEN 1 ELSE 0)
  <2>1. \A i \in N : Due("parse", c, td, i) = IF i \in c THEN 1 ELSE 0
    BY DEF Due
  <2>2. \A i \in N : Held(st, Alive(r), i) \in Nat
    BY HeldFinite DEF CountedOK, Alive
  <2>. QED BY <2>1, <2>2 DEF CountedOK, CountsOK
<1>2. \A i \in N : Held(st, Alive(r), i) \in Nat
  BY <1>1, HeldFinite DEF Alive
<1>3. s \in [N -> Nat] /\ \A i \in N : s[i] = IF i = o THEN r[i] + 1 ELSE r[i]
  BY <1>1
<1>4. \A i \in c : r[i] > 0
  BY <1>1, <1>2
<1>5. Alive(s) = Alive(r)
  <2>1. ASSUME NEW i \in N PROVE s[i] > 0 <=> r[i] > 0
    BY <1>1, <1>3, <1>4
  <2>. QED BY <1>1, <1>3, <2>1 DEF Alive
<1>6. IsFiniteSet(c) /\ c \in SUBSET Int
  BY <1>1, FS_Subset
<1>7. /\ Ascending(c) \in Seq(c)
      /\ \A i \in N : Occurrences(Ascending(c), i) = IF i \in c THEN 1 ELSE 0
  BY <1>6, OccAscending
<1>8. ASSUME NEW i \in N
      PROVE  s[i] = Held(st, Alive(s), i) + (IF o = i THEN 1 ELSE 0)
                    + Due("cleanup", c, Ascending(c), i)
  <2>1. Due("cleanup", c, Ascending(c), i) = IF i \in c THEN 1 ELSE 0
    BY <1>7 DEF Due
  <2>. QED BY <1>1, <1>2, <1>3, <1>5, <2>1
<1>9. \A k \in DOMAIN Ascending(c) : Ascending(c)[k] \in c
  BY <1>7, SeqIs
<1>10. Ascending(c) \in Seq(N)
  <2>1. \A k \in DOMAIN Ascending(c) : Ascending(c)[k] \in N
    BY <1>1, <1>9
  <2>. QED BY <1>7, <2>1, SeqInto
<1>11. DOMAIN s = N /\ \A i \in N : s[i] > 0 => i \in c
  BY <1>1, <1>3
<1>12. \A p \in c : \A k \in DOMAIN st[p] : st[p][k] \in c
  BY DEF CountedOK
<1>. QED BY <1>1, <1>3, <1>8, <1>9, <1>10, <1>11, <1>12 DEF CountedOK, CountsOK

\* CFRelease: a reference that was due is gone, and with the last one the object,
\* whose own references are due then.
LEMMA CountedRelease ==
    ASSUME NEW N, IsFiniteSet(N), NEW st \in [N -> Seq(Nat)], NEW r, NEW c, NEW td, NEW res,
           CountedOK(N, st, r, res, "cleanup", c, td), td # <<>>,
           NEW s \in [N -> Int],
           \A i \in N : s[i] = IF i = Head(td) THEN r[i] - 1 ELSE r[i],
           NEW tl, tl = (IF r[Head(td)] = 1 THEN st[Head(td)] ELSE <<>>) \o Tail(td)
    PROVE  CountedOK(N, st, s, res, "cleanup", c, tl)
<1>1. /\ r \in [N -> Nat] /\ c \in SUBSET N /\ td \in Seq(N)
      /\ \A i \in N : r[i] > 0 => i \in c
      /\ \A p \in c : \A k \in DOMAIN st[p] : st[p][k] \in c
      /\ \A k \in DOMAIN td : td[k] \in c
      /\ \A i \in N : r[i] = Held(st, Alive(r), i) + (IF res = i THEN 1 ELSE 0) + Occurrences(td, i)
  <2>1. \A i \in N : Due("cleanup", c, td, i) = Occurrences(td, i)
    BY DEF Due
  <2>. QED BY <2>1 DEF CountedOK, CountsOK
<1>2. PICK h \in c : h = Head(td)
  <2>1. Head(td) = td[1] /\ 1 \in DOMAIN td
    BY <1>1, HeadTailProperties, SeqIs, EmptySeq
  <2>. QED BY <1>1, <2>1
<1>. DEFINE own == IF r[h] = 1 THEN st[h] ELSE <<>>
<1>3. /\ Tail(td) \in Seq(N) /\ Tail(td) \in Seq(c)
      /\ \A i : Occurrences(Tail(td), i) \in Nat
      /\ \A i : Occurrences(td, i) = Occurrences(Tail(td), i) + (IF h = i THEN 1 ELSE 0)
  <2>1. td \in Seq(c)
    BY <1>1, SeqInto
  <2>2. Tail(td) \in Seq(N) /\ Tail(td) \in Seq(c)
    BY <1>1, <2>1, HeadTailProperties
  <2>3. \A i : Occurrences(Tail(td), i) \in Nat
    BY <2>2, OccNat
  <2>4. \A i : Occurrences(td, i) = Occurrences(Tail(td), i) + (IF h = i THEN 1 ELSE 0)
    BY <1>1, <1>2, OccTail
  <2>. QED BY <2>2, <2>3, <2>4
<1>4. own \in Seq(c) /\ \A i : Occurrences(own, i) \in Nat
  <2>1. st[h] \in Seq(c)
    <3>1. st[h] \in Seq(Nat) /\ \A k \in DOMAIN st[h] : st[h][k] \in c
      BY <1>1
    <3>. QED BY <3>1, SeqInto
  <2>2. own \in Seq(c)
    BY <2>1, EmptySeq
  <2>. HIDE DEF own
  <2>. QED BY <2>2, OccNat
<1>5. tl = own \o Tail(td)
  BY <1>2
<1>6. tl \in Seq(c) /\ \A i : Occurrences(tl, i) = Occurrences(own, i) + Occurrences(Tail(td), i)
  <2>. HIDE DEF own
  <2>1. own \o Tail(td) \in Seq(c)
    BY <1>3, <1>4, OccConcat
  <2>2. ASSUME NEW i
        PROVE  Occurrences(own \o Tail(td), i) = Occurrences(own, i) + Occurrences(Tail(td), i)
    <3>1. PICK a \in Seq(c), b \in Seq(c) : a = own /\ b = Tail(td)
      BY <1>3, <1>4
    <3>2. Occurrences(a \o b, i) = Occurrences(a, i) + Occurrences(b, i)
      BY OccConcat
    <3>. QED BY <3>1, <3>2
  <2>. QED BY <1>5, <2>1, <2>2
<1>7. Alive(r) \in SUBSET N /\ Alive(s) \in SUBSET N /\ DOMAIN s = N
  BY <1>1 DEF Alive
<1>8. \A i \in N : Held(st, Alive(r), i) \in Nat /\ Held(st, Alive(s), i) \in Nat
  BY <1>7, HeldFinite
<1>9. r[h] \in Nat \ {0}
  <2>1. h \in N /\ Occurrences(td, h) = Occurrences(Tail(td), h) + 1
    BY <1>1, <1>3
  <2>2. PICK m \in Nat : m = Occurrences(Tail(td), h)
    BY <1>3
  <2>3. PICK n \in Nat : n = Held(st, Alive(r), h)
    BY <1>8, <2>1
  <2>4. r[h] = n + (IF res = h THEN 1 ELSE 0) + (m + 1)
    BY <1>1, <2>1, <2>2, <2>3
  <2>. QED BY <2>4
<1>10. s \in [N -> Nat] /\ \A i \in N : s[i] = IF i = h THEN r[h] - 1 ELSE r[i]
  <2>1. \A i \in N : s[i] = IF i = h THEN r[h] - 1 ELSE r[i]
    BY <1>2
  <2>2. ASSUME NEW i \in N PROVE s[i] \in Nat
    <3>1. r[i] \in Nat /\ r[h] - 1 \in Nat
      BY <1>1, <1>9
    <3>. QED BY <2>1, <3>1
  <2>. QED BY <2>1, <2>2
<1>11. ASSUME NEW i \in N
       PROVE  Held(st, Alive(r), i) = Held(st, Alive(s), i) + Occurrences(own, i)
  <2>1. CASE r[h] = 1
    <3>1. Alive(r) = Alive(s) \cup {h} /\ h \notin Alive(s)
      <4>1. \A j \in N : s[j] > 0 <=> r[j] > 0 /\ j # h
        BY <1>1, <1>10, <2>1
      <4>. QED BY <1>1, <1>7, <1>9, <4>1 DEF Alive
    <3>2. own = st[h]
      BY <2>1
    <3>3. Alive(s) \in SUBSET N /\ h \in N
      BY <1>1, <1>7
    <3>4. PICK m \in Nat, n \in Nat : /\ m = Held(st, Alive(s), i) /\ n = Occurrences(st[h], i)
                                     /\ Held(st, Alive(r), i) = m + n
      <4>1. Grown(st, Alive(s), Alive(r), h, i)
        BY <3>1, <3>3, HeldMore
      <4>. QED BY <4>1 DEF Grown
    <3>. QED BY <3>2, <3>4
  <2>2. CASE r[h] # 1
    <3>1. Alive(r) = Alive(s)
      <4>1. ASSUME NEW j \in N PROVE s[j] > 0 <=> r[j] > 0
        <5>1. r[h] - 1 > 0 /\ r[h] > 0
          BY <1>9, <2>2
        <5>2. CASE j = h
          BY <1>10, <5>1, <5>2
        <5>3. CASE j # h
          BY <1>10, <5>3
        <5>. QED BY <5>2, <5>3
      <4>. QED BY <1>1, <1>7, <4>1 DEF Alive
    <3>2. own = <<>>
      BY <2>2
    <3>3. Occurrences(own, i) = 0
      <4>. HIDE DEF own
      <4>. QED BY <3>2, OccEmpty
    <3>4. PICK n \in Nat : n = Held(st, Alive(s), i)
      BY <1>8
    <3>. QED BY <3>1, <3>3, <3>4
  <2>. QED BY <2>1, <2>2
<1>12. ASSUME NEW i \in N
       PROVE  s[i] = Held(st, Alive(s), i) + (IF res = i THEN 1 ELSE 0) + Occurrences(tl, i)
  <2>1. PICK m \in Nat : m = Occurrences(Tail(td), i)
    BY <1>3
  <2>2. PICK n \in Nat : n = Held(st, Alive(s), i)
    BY <1>8
  <2>3. PICK x \in Nat : x = Occurrences(own, i)
    BY <1>4
  <2>4. r[i] = (n + x) + (IF res = i THEN 1 ELSE 0) + (m + (IF h = i THEN 1 ELSE 0))
    BY <1>1, <1>3, <1>11, <2>1, <2>2, <2>3
  <2>5. s[i] = IF i = h THEN r[i] - 1 ELSE r[i]
    BY <1>10
  <2>6. Occurrences(tl, i) = x + m
    BY <1>6, <2>1, <2>3
  <2>7. PICK y \in Nat : y = IF res = i THEN 1 ELSE 0
    OBVIOUS
  <2>8. CASE i = h
    <3>1. r[i] = (n + x) + y + (m + 1) /\ s[i] = r[i] - 1
      BY <2>4, <2>5, <2>7, <2>8
    <3>2. s[i] = n + y + (x + m)
      BY <3>1
    <3>. QED BY <2>2, <2>6, <2>7, <3>2
  <2>9. CASE i # h
    <3>1. r[i] = (n + x) + y + (m + 0) /\ s[i] = r[i]
      BY <2>4, <2>5, <2>7, <2>9
    <3>2. s[i] = n + y + (x + m)
      BY <3>1
    <3>. QED BY <2>2, <2>6, <2>7, <3>2
  <2>. QED BY <2>8, <2>9
<1>13. ASSUME NEW i \in N
       PROVE  s[i] = Held(st, Alive(s), i) + (IF res = i THEN 1 ELSE 0) + Due("cleanup", c, tl, i)
  BY <1>12 DEF Due
<1>14. \A i \in N : s[i] > 0 => i \in c
  BY <1>1, <1>9, <1>10
<1>15. tl \in Seq(N) /\ \A k \in DOMAIN tl : tl[k] \in c
  <2>1. \A k \in DOMAIN tl : tl[k] \in c
    BY <1>6, SeqIs
  <2>2. \A k \in DOMAIN tl : tl[k] \in N
    BY <1>1, <2>1
  <2>. QED BY <1>6, <2>1, <2>2, SeqInto
<1>. QED BY <1>1, <1>7, <1>10, <1>13, <1>14, <1>15 DEF CountedOK, CountsOK

\* Nothing is due before the first object or after the last release.
LEMMA CountedPhase ==
    ASSUME NEW N, NEW st, NEW r, NEW c, NEW td, NEW res, NEW ph, NEW ps,
           CountedOK(N, st, r, res, ph, c, td),
           \/ ph \in {"idle", "load"} /\ ps \in {"load", "parse", "done", "rejected"}
           \/ ph = "cleanup" /\ td = <<>> /\ ps = "done"
    PROVE  CountedOK(N, st, r, res, ps, c, td)
<1>1. ASSUME NEW i PROVE Due(ps, c, td, i) = Due(ph, c, td, i)
  BY OccEmpty DEF Due, CountedOK
<1>2. CountsOK(st, r, res, ps, c, td)
  BY <1>1 DEF CountedOK, CountsOK
<1>3. /\ ps = "load" => c = {} /\ res = NULL
      /\ ps = "parse" => res = NULL
      /\ ps # "cleanup" /\ ps # "idle"
  BY DEF CountedOK
<1>. QED BY <1>2, <1>3 DEF CountedOK

-----------------------------------------------------------------------------
(* Documents.                                                              *)

LEMMA HalfOf ==
    ASSUME NEW n \in Nat
    PROVE  n \div 2 \in Nat /\ (n % 2 = 0 => n = n \div 2 + n \div 2)
BY SMT

\* What a document has at each number.
LEMMA ItemIs ==
    ASSUME NEW d, DocumentOK(d), NEW o \in Numbered(d)
    PROVE  /\ Item(d, o).kind \in Kinds /\ Item(d, o).refs \in Seq(Nat)
           /\ Len(Item(d, o).refs) \in Nat /\ Half(d, o) \in Nat /\ Rounds(d, o) \in Nat
           /\ DOMAIN Item(d, o).refs = 1..Len(Item(d, o).refs)
           /\ IsDict(d, o) => Len(Item(d, o).refs) = Half(d, o) + Half(d, o)
           /\ Item(d, o).kind \notin Containers => Item(d, o).refs = <<>>
<1>1. o + 1 \in DOMAIN d.table
  BY DEF DocumentOK, Numbered
<1>2. /\ Item(d, o).kind \in Kinds /\ Item(d, o).refs \in Seq(Nat)
      /\ Item(d, o).kind = "dictionary" => Len(Item(d, o).refs) % 2 = 0
      /\ Item(d, o).kind \notin Containers => Item(d, o).refs = <<>>
  BY <1>1 DEF DocumentOK, Item
<1>3. PICK n \in Nat : n = Len(Item(d, o).refs) /\ DOMAIN Item(d, o).refs = 1..n
  BY <1>2, SeqIs
<1>4. n \div 2 \in Nat /\ (n % 2 = 0 => n = n \div 2 + n \div 2)
  BY HalfOf
<1>. QED BY <1>2, <1>3, <1>4 DEF Half, Rounds, IsDict

LEMMA NumberedIs ==
    ASSUME NEW d, DocumentOK(d)
    PROVE  Numbered(d) \in SUBSET Nat /\ IsFiniteSet(Numbered(d)) /\ NULL \notin Numbered(d)
<1>1. Len(d.table) \in Nat \ {0}
  BY DEF DocumentOK
<1>. QED BY <1>1, FS_Interval, NullIsNoNumber DEF Numbered

\* The references of the picked places are references of the sequence.
LEMMA PickedIs ==
    ASSUME NEW s \in Seq(Nat), NEW from \in Nat, NEW P \in SUBSET Nat, IsFiniteSet(P),
           \A l \in P : from + l \in DOMAIN s
    PROVE  /\ Picked(s, P, from) \in Seq(Nat)
           /\ \A k \in DOMAIN Picked(s, P, from) :
                \E l \in DOMAIN s : Picked(s, P, from)[k] = s[l]
<1>1. PICK m \in Nat : m = Cardinality(P) /\ Ascending(P) \in [1..m -> P]
  <2>1. P \in SUBSET Int
    OBVIOUS
  <2>. QED BY <2>1, AscendingIs
<1>2. Picked(s, P, from) = [k \in 1..m |-> s[from + Ascending(P)[k]]]
  BY <1>1 DEF Picked
<1>3. \A k \in 1..m : from + Ascending(P)[k] \in DOMAIN s
  BY <1>1
<1>4. \A l \in DOMAIN s : s[l] \in Nat
  BY SeqIs
<1>5. Picked(s, P, from) \in [1..m -> Nat]
  BY <1>2, <1>3, <1>4
<1>6. \A k \in 1..m : Picked(s, P, from)[k] = s[from + Ascending(P)[k]]
  BY <1>2
<1>7. DOMAIN Picked(s, P, from) = 1..m
  BY <1>2
<1>8. Picked(s, P, from) \in Seq(Nat)
  BY <1>5, SeqDef
<1>. QED BY <1>3, <1>6, <1>7, <1>8

\* An object stores nothing but what its entry refers to.
LEMMA StoredIs ==
    ASSUME DocumentOK(doc), NEW o \in Numbers
    PROVE  /\ Stored(o) \in Seq(Nat)
           /\ \A k \in DOMAIN Stored(o) :
                \E l \in DOMAIN Entry(o).refs : Stored(o)[k] = Entry(o).refs[l]
           /\ Entry(o).kind \notin Containers => Stored(o) = <<>>
<1>1. Numbers = Numbered(doc) /\ Entry(o) = Item(doc, o)
  BY DEF Numbers, NumObjects, Numbered, Entry, Item
<1>2. Entry(o).kind \notin Containers => Entry(o).refs = <<>>
  BY <1>1, ItemIs
<1>3. CASE Entry(o).kind # "dictionary"
  <2>1. Stored(o) = Entry(o).refs /\ Entry(o).refs \in Seq(Nat)
    BY <1>1, <1>3, ItemIs DEF Stored
  <2>. QED BY <1>2, <2>1
<1>4. CASE Entry(o).kind = "dictionary"
  <2>1. PICK s \in Seq(Nat), n \in Nat :
            /\ s = Entry(o).refs /\ n = Pairs(o)
            /\ Len(s) = n + n /\ DOMAIN s = 1..(n + n)
    BY <1>1, <1>4, ItemIs DEF IsDict, Half, Pairs
  <2>2. ASSUME NEW P \in SUBSET (1..n) PROVE IsFiniteSet(P) /\ P \in SUBSET Nat
    <3>1. PICK T : T = 1..n
      OBVIOUS
    <3>2. IsFiniteSet(T) /\ P \in SUBSET T
      BY <3>1, FS_Interval
    <3>3. IsFiniteSet(P)
      BY <3>2, FS_Subset
    <3>. QED BY <3>3
  <2>3. KeptKeys(o) \in SUBSET (1..n) /\ KeptValues(o) \in SUBSET (1..n)
    BY <2>1 DEF KeptKeys, KeptValues
  <2>. DEFINE keys == Picked(s, KeptKeys(o), 0)
              vals == Picked(s, KeptValues(o), n)
  <2>4. \A l \in 1..n : 0 + l \in DOMAIN s /\ n + l \in DOMAIN s
    BY <2>1
  <2>5. Stored(o) = keys \o vals
    BY <1>4, <2>1 DEF Stored
  <2>6. keys \in Seq(Nat) /\ \A k \in DOMAIN keys : \E l \in DOMAIN s : keys[k] = s[l]
    BY <2>2, <2>3, <2>4, PickedIs
  <2>7. vals \in Seq(Nat) /\ \A k \in DOMAIN vals : \E l \in DOMAIN s : vals[k] = s[l]
    BY <2>2, <2>3, <2>4, PickedIs
  <2>. HIDE DEF keys, vals
  <2>8. /\ keys \o vals \in Seq(Nat) /\ DOMAIN (keys \o vals) = 1..(Len(keys) + Len(vals))
        /\ Len(keys) \in Nat /\ Len(vals) \in Nat
        /\ DOMAIN keys = 1..Len(keys) /\ DOMAIN vals = 1..Len(vals)
        /\ \A k \in 1..(Len(keys) + Len(vals)) :
            (keys \o vals)[k] = IF k <= Len(keys) THEN keys[k] ELSE vals[k - Len(keys)]
    BY <2>6, <2>7, SeqIs, ConcatProperties
  <2>9. \A k \in DOMAIN (keys \o vals) : \E l \in DOMAIN s : (keys \o vals)[k] = s[l]
    <3>. SUFFICES ASSUME NEW k \in 1..(Len(keys) + Len(vals))
                  PROVE  \E l \in DOMAIN s : (keys \o vals)[k] = s[l]
      BY <2>8
    <3>1. CASE k <= Len(keys)
      <4>1. k \in DOMAIN keys /\ (keys \o vals)[k] = keys[k]
        BY <2>8, <3>1
      <4>. QED BY <2>6, <4>1
    <3>2. CASE ~(k <= Len(keys))
      <4>1. k - Len(keys) \in DOMAIN vals
        BY <2>8, <3>2
      <4>2. (keys \o vals)[k] = vals[k - Len(keys)]
        BY <2>8, <3>2
      <4>. QED BY <2>7, <4>1, <4>2
    <3>. QED BY <3>1, <3>2
  <2>. QED BY <1>4, <2>1, <2>5, <2>8, <2>9 DEF Containers
<1>. QED BY <1>3, <1>4

-----------------------------------------------------------------------------
(* The inductive invariant.                                                *)

\* The types of what the stack and the counts say nothing of.
RestOK ==
    /\ DocumentOK(doc) /\ wants \in BOOLEAN
    /\ phase \in {"idle", "load", "parse", "cleanup", "done", "rejected"}
    /\ control \in Control
    /\ arrays \subseteq inProgress /\ tables \in BOOLEAN
    /\ format \in {"stale", "none", "binary"}
    /\ error \in {"none", "stale", "read"} /\ made \in Nat /\ refused \in BOOLEAN
    /\ result \in Numbers \cup {NULL}
    /\ phase \in {"idle", "load"} => frames = <<>> /\ control = [op |-> "loop"]

IInv ==
    /\ RestOK
    /\ StackOK(doc, cache, inProgress, frames, control)
    /\ CountedOK(Numbers, Contents, rc, result, phase, cache, todo)

\* The document stays what it is, and so does what its entries hold.
LEMMA SameDoc ==
    ASSUME doc' = doc
    PROVE  Numbers' = Numbers /\ Contents' = Contents
<1>1. Numbers' = Numbers
  BY DEF Numbers, NumObjects
<1>2. \A o : Pairs(o)' = Pairs(o)
  BY DEF Pairs, Entry
<1>3. \A o : KeptKeys(o)' = KeptKeys(o)
  BY <1>2 DEF KeptKeys, Same, Entry
<1>4. \A o : KeptValues(o)' = KeptValues(o)
  BY <1>2 DEF KeptValues, Same, Entry
<1>5. \A o : Stored(o)' = Stored(o)
  BY <1>2, <1>3, <1>4 DEF Stored, Entry
<1>. QED BY <1>1, <1>5 DEF Contents

LEMMA Facts ==
    ASSUME IInv
    PROVE  /\ DocumentOK(doc) /\ Numbers = Numbered(doc)
           /\ Numbers \in SUBSET Nat /\ Numbers \in SUBSET Int
           /\ IsFiniteSet(Numbers) /\ NULL \notin Numbers /\ NULL \notin Nat
           /\ Contents \in [Numbers -> Seq(Nat)]
           /\ \A i : Entry(i) = Item(doc, i)
<1>1. DocumentOK(doc)
  BY DEF IInv, RestOK
<1>2. Numbers = Numbered(doc) /\ \A i : Entry(i) = Item(doc, i)
  BY DEF Numbers, NumObjects, Numbered, Entry, Item
<1>3. Numbers \in SUBSET Nat /\ IsFiniteSet(Numbers) /\ NULL \notin Numbers
  BY <1>1, <1>2, NumberedIs
<1>4. Contents \in [Numbers -> Seq(Nat)]
  BY <1>1, StoredIs DEF Contents
<1>. QED BY <1>1, <1>2, <1>3, <1>4, NullIsNoNumber

\* What is to be shown of a step that leaves the document alone.
LEMMA Kept ==
    ASSUME IInv, doc' = doc, RestOK',
           StackOK(doc, cache', inProgress', frames', control'),
           CountedOK(Numbers, Contents, rc', result', phase', cache', todo')
    PROVE  IInv'
<1>1. Numbers' = Numbers /\ Contents' = Contents
  BY SameDoc
<1>. QED BY <1>1 DEF IInv

LEMMA ErrorTypes ==
    ASSUME IInv, NEW out \in BOOLEAN, SetError(out)
    PROVE  error' \in {"none", "stale", "read"} /\ made' \in Nat /\ refused' \in BOOLEAN
<1>1. error \in {"none", "stale", "read"} /\ made \in Nat /\ refused \in BOOLEAN /\ wants \in BOOLEAN
  BY DEF IInv, RestOK
<1>2. error' \in {"none", "stale", "read"} /\ made' \in Nat
  <2>1. (error' = "read" /\ made' = made + 1) \/ UNCHANGED <<error, made>>
    BY DEF SetError
  <2>. QED BY <1>1, <2>1
<1>3. refused' \in BOOLEAN
  <2>1. refused' \in {refused \/ out, TRUE} \/ refused' = (refused \/ out \/ (wants /\ error = "none"))
    BY DEF SetError
  <2>2. (refused \/ out) \in BOOLEAN /\ (refused \/ out \/ (wants /\ error = "none")) \in BOOLEAN
    BY Zenon
  <2>. QED BY <2>1, <2>2, Zenon
<1>. QED BY <1>2, <1>3

-----------------------------------------------------------------------------
(* Steps that only go on to another phase.                                 *)

LEMMA PhaseIInv ==
    ASSUME IInv,
           CreateWithDataRefuses \/ CreateWithData \/ LoadRefuses \/ LoadNoMemory \/ CleanupFree
    PROVE  IInv'
<1>1. /\ UNCHANGED <<doc, wants, frames, control, cache, rc, inProgress, todo, arrays, result>>
      /\ \/ phase \in {"idle", "load"} /\ phase' \in {"load", "done", "rejected"}
         \/ phase = "cleanup" /\ todo = <<>> /\ phase' = "done"
  BY DEF CreateWithDataRefuses, CreateWithData, LoadRefuses, LoadNoMemory, CleanupFree, call, heap
<1>2. /\ error' \in {"none", "stale", "read"} /\ made' \in Nat /\ refused' \in BOOLEAN
      /\ format' \in {"stale", "none", "binary"} /\ tables' \in BOOLEAN
  <2>1. CASE CreateWithDataRefuses
    <3>1. /\ error' \in IF wants THEN {"read", "none"} ELSE {error}
          /\ made' = IF error' = "read" THEN 1 ELSE 0
          /\ format' = "none" /\ tables' = tables
      BY <2>1 DEF CreateWithDataRefuses
    <3>2. refused' \in BOOLEAN
      <4>1. refused' = (wants /\ error' # "read")
        BY <2>1 DEF CreateWithDataRefuses
      <4>2. (wants /\ error' # "read") \in BOOLEAN
        BY Zenon
      <4>. QED BY <4>1, <4>2, Zenon
    <3>3. error \in {"none", "stale", "read"} /\ tables \in BOOLEAN /\ wants \in BOOLEAN
      BY DEF IInv, RestOK
    <3>4. error' \in {"none", "stale", "read"}
      BY <3>1, <3>3
    <3>5. made' \in Nat
      BY <3>1
    <3>. QED BY <3>1, <3>2, <3>3, <3>4, <3>5
  <2>2. CASE CreateWithData \/ CleanupFree
    BY <2>2 DEF CreateWithData, CleanupFree, outcome, IInv, RestOK
  <2>3. CASE LoadRefuses
    BY <2>3, ErrorTypes DEF LoadRefuses, IInv, RestOK
  <2>4. CASE LoadNoMemory
    BY <2>4, ErrorTypes DEF LoadNoMemory, IInv, RestOK
  <2>. QED BY <2>1, <2>2, <2>3, <2>4
<1>3. RestOK'
  <2>1. Numbers' = Numbers
    BY <1>1, SameDoc
  <2>. QED BY <1>1, <1>2, <2>1 DEF IInv, RestOK, Control
<1>4. StackOK(doc, cache', inProgress', frames', control')
  BY <1>1 DEF IInv
<1>5. CountedOK(Numbers, Contents, rc', result', phase', cache', todo')
  BY <1>1, CountedPhase DEF IInv
<1>. QED BY <1>1, <1>3, <1>4, <1>5, Kept

-----------------------------------------------------------------------------
(* ParseObjectAtIndex.                                                     *)

LEMMA LoadIInv == ASSUME IInv, Load PROVE IInv'
<1>1. /\ phase = "load" /\ phase' = "parse" /\ tables' = TRUE
      /\ control' = [op |-> "call", arg |-> doc.top]
      /\ UNCHANGED <<doc, wants, frames, cache, rc, inProgress, todo, arrays, format, error,
                     made, refused, result>>
  BY DEF Load, call, heap, outcome
<1>2. Numbers' = Numbers
  BY <1>1, SameDoc
<1>3. control' \in Control /\ control'.op = "call"
  <2>1. doc.top \in Nat
    BY Facts DEF DocumentOK
  <2>. QED BY <1>1, <2>1 DEF Control
<1>4. RestOK'
  BY <1>1, <1>2, <1>3 DEF IInv, RestOK, Control
<1>5. StackOK(doc, cache, inProgress, frames, control')
  <2>1. Len(frames) = 0 /\ inProgress \cap cache = {}
    BY <1>1 DEF IInv, RestOK, StackOK
  <2>. QED BY <1>3, <2>1, StackControl DEF IInv
<1>6. CountedOK(Numbers, Contents, rc, result, "parse", cache, todo)
  BY <1>1, CountedPhase DEF IInv
<1>. QED BY <1>1, <1>4, <1>5, <1>6, Kept

\* What a step that only returns or calls leaves as it is.
LEMMA ControlStep ==
    ASSUME IInv, phase = "parse", control' \in Control,
           UNCHANGED <<doc, wants, phase, frames, cache, rc, inProgress, todo, tables, arrays,
                       format, result>>,
           error' \in {"none", "stale", "read"}, made' \in Nat, refused' \in BOOLEAN,
           control'.op = "return" => control'.arg \in cache \cup {NULL},
           Len(frames) # 0 => TopOK(doc, frames[Len(frames)], control')
    PROVE  IInv'
<1>1. Numbers' = Numbers
  BY SameDoc
<1>2. RestOK'
  BY <1>1 DEF IInv, RestOK, Control
<1>3. StackOK(doc, cache, inProgress, frames, control')
  <2>1. inProgress \cap cache = {}
    BY DEF IInv, StackOK
  <2>. QED BY <2>1, StackControl DEF IInv
<1>. QED BY <1>2, <1>3, Kept DEF IInv

\* What has been called may return nothing, or what it was called for.
LEMMA ReturnTop ==
    ASSUME IInv, control.op = "call", NEW r, r = NULL \/ r = control.arg, Len(frames) # 0
    PROVE  TopOK(doc, frames[Len(frames)], [op |-> "return", arg |-> r])
<1>1. TopOK(doc, frames[Len(frames)], control)
  BY DEF IInv, StackOK
<1>. QED BY <1>1 DEF TopOK

LEMMA CallCachedIInv == ASSUME IInv, CallCached PROVE IInv'
<1>1. /\ phase = "parse" /\ control.op = "call" /\ control.arg \in cache
      /\ control' = [op |-> "return", arg |-> control.arg]
      /\ UNCHANGED <<doc, wants, phase, frames, cache, rc, inProgress, todo, tables, arrays,
                     format, error, made, refused, result>>
  BY DEF CallCached, Calling, Arg, Return, call, heap, outcome
<1>2. control.arg \in Nat
  BY <1>1, Facts DEF IInv, CountedOK
<1>3. control' \in Control /\ control'.op = "return" /\ control'.arg = control.arg
  BY <1>1, <1>2 DEF Control
<1>4. error \in {"none", "stale", "read"} /\ made \in Nat /\ refused \in BOOLEAN
  BY DEF IInv, RestOK
<1>5. Len(frames) # 0 => TopOK(doc, frames[Len(frames)], control')
  BY <1>1, ReturnTop
<1>. QED BY <1>1, <1>3, <1>4, <1>5, ControlStep

LEMMA CallFailsIInv == ASSUME IInv, CallRefuses \/ CallFails PROVE IInv'
<1>1. /\ phase = "parse" /\ control.op = "call"
      /\ control' = [op |-> "return", arg |-> NULL]
      /\ \E out \in BOOLEAN : SetError(out)
      /\ UNCHANGED <<doc, wants, phase, frames, cache, rc, inProgress, todo, tables, arrays,
                     format, result>>
  <2>1. CASE CallRefuses
    BY <2>1 DEF CallRefuses, Calling, Return, call, heap
  <2>2. CASE CallFails
    <3>1. SetError(Entry(Arg).kind # "corrupt") /\ (Entry(Arg).kind # "corrupt") \in BOOLEAN
      BY <2>2 DEF CallFails
    <3>2. \E out \in BOOLEAN : SetError(out)
      BY <3>1
    <3>. QED BY <2>2, <3>2 DEF CallFails, Fresh, Calling, Return, call, heap
  <2>. QED BY <2>1, <2>2
<1>2. control' \in Control /\ control'.op = "return" /\ control'.arg = NULL
  BY <1>1 DEF Control
<1>3. error' \in {"none", "stale", "read"} /\ made' \in Nat /\ refused' \in BOOLEAN
  BY <1>1, ErrorTypes
<1>4. Len(frames) # 0 => TopOK(doc, frames[Len(frames)], control')
  BY <1>1, ReturnTop
<1>. QED BY <1>1, <1>2, <1>3, <1>4, ControlStep

LEMMA CallLeafIInv == ASSUME IInv, CallLeaf PROVE IInv'
<1>. DEFINE o == control.arg
<1>1. /\ phase = "parse" /\ control.op = "call"
      /\ o \in Numbers /\ o \notin cache /\ o \notin inProgress
      /\ Entry(o).kind \in Leaves
      /\ control' = [op |-> "return", arg |-> o]
      /\ rc' = [rc EXCEPT ![o] = @ + 1] /\ cache' = cache \cup {o}
      /\ UNCHANGED <<doc, wants, phase, frames, inProgress, todo, tables, arrays,
                     format, error, made, refused, result>>
  BY DEF CallLeaf, Fresh, Calling, Arg, Return, call, outcome
<1>. HIDE DEF o
<1>2. control' \in Control /\ control'.op = "return" /\ control'.arg = o
  BY <1>1, Facts DEF Control
<1>3. RestOK'
  <2>1. Numbers' = Numbers
    BY <1>1, SameDoc
  <2>. QED BY <1>1, <1>2, <2>1 DEF IInv, RestOK, Control
<1>4. StackOK(doc, cache', inProgress, frames, control')
  <2>1. inProgress \cap cache' = {} /\ cache \subseteq cache' /\ o \in cache'
    BY <1>1 DEF IInv, StackOK
  <2>2. Len(frames) # 0 => TopOK(doc, frames[Len(frames)], control')
    BY <1>1, ReturnTop DEF o
  <2>. QED BY <1>2, <2>1, <2>2, StackControl DEF IInv
<1>5. CountedOK(Numbers, Contents, rc', NULL, "parse", cache', todo)
  <2>1. rc \in [Numbers -> Nat] /\ rc[o] = 0 /\ result = NULL
    BY <1>1 DEF IInv, CountedOK
  <2>2. CountedOK(Numbers, Contents, rc, NULL, "parse", cache, todo)
    BY <1>1, <2>1 DEF IInv
  <2>3. Contents[o] = <<>>
    <3>1. Stored(o) = <<>>
      BY <1>1, StoredIs, Facts DEF Leaves, Containers
    <3>. QED BY <1>1, <3>1 DEF Contents
  <2>4. \A i \in Numbers : Occurrences(Contents[o], i) = 0
    BY <2>3, OccEmpty
  <2>5. rc' \in [Numbers -> Int] /\ \A i \in Numbers : rc'[i] = IF i = o THEN 1 ELSE rc[i]
    BY <1>1, <2>1
  <2>6. \A i \in Numbers : rc'[i] = (IF i = o THEN 1 ELSE rc[i]) + Occurrences(Contents[o], i)
    BY <2>1, <2>4, <2>5
  <2>7. \A k \in DOMAIN Contents[o] : Contents[o][k] \in cache
    BY <2>3
  <2>. QED BY <1>1, <2>2, <2>5, <2>6, <2>7, CountedCreate, Facts
<1>6. result = NULL
  BY <1>1 DEF IInv, CountedOK
<1>. QED BY <1>1, <1>3, <1>4, <1>5, <1>6, Kept

LEMMA CallContainerIInv == ASSUME IInv, CallContainer PROVE IInv'
<1>. DEFINE o == control.arg
<1>1. /\ phase = "parse" /\ control.op = "call"
      /\ o \in Numbers /\ o \notin cache /\ o \notin inProgress
      /\ Entry(o).kind \in Containers
      /\ control' = [op |-> "loop"]
      /\ inProgress' = inProgress \cup {o}
      /\ arrays' = arrays \/ arrays' = arrays \cup {o}
      /\ frames' = Append(frames, [object |-> o, at |-> 1, key |-> NULL, onValue |-> FALSE])
      /\ UNCHANGED <<doc, wants, phase, cache, rc, todo, tables,
                     format, error, made, refused, result>>
  BY DEF CallContainer, Fresh, Calling, Arg, call, heap, outcome
<1>. HIDE DEF o
<1>2. RestOK'
  <2>1. Numbers' = Numbers
    BY <1>1, SameDoc
  <2>2. control' \in Control
    BY <1>1 DEF Control
  <2>3. arrays' \subseteq inProgress'
    BY <1>1 DEF IInv, RestOK
  <2>. QED BY <1>1, <2>1, <2>2, <2>3 DEF IInv, RestOK, Control
<1>3. StackOK(doc, cache, inProgress \cup {o}, frames', [op |-> "loop"])
  <2>1. o \in Numbered(doc) /\ o # NULL /\ Item(doc, o).kind \in Containers
        /\ Rounds(doc, o) \in Nat
    BY <1>1, Facts, ItemIs
  <2>2. control.arg = o
    BY DEF o
  <2>. QED BY <1>1, <2>1, <2>2, StackPush DEF IInv
<1>. QED BY <1>1, <1>2, <1>3, Kept DEF IInv

-----------------------------------------------------------------------------
(* The loops of ParseArray and ParseDictionary.                            *)

\* A round is over: what it has parsed is in the cache.
LEMMA FrameNext ==
    ASSUME NEW d, DocumentOK(d), NEW c, NEW f \in Activation(d), FrameOK(d, c, f),
           f.at <= Rounds(d, f.object), Item(d, f.object).refs[f.at] \in c,
           IsDict(d, f.object) => Item(d, f.object).refs[Half(d, f.object) + f.at] \in c,
           NEW g \in Activation(d), g.object = f.object, g.at = f.at + 1, ~g.onValue
    PROVE  FrameOK(d, c, g)
<1>1. f.at \in Nat \ {0} /\ f.object \in Numbered(d)
  BY DEF Activation
<1>2. Rounds(d, f.object) \in Nat
  BY <1>1, ItemIs
<1>3. g.at <= Rounds(d, g.object) + 1
  BY <1>1, <1>2
<1>4. \A k \in 1..(g.at - 1) : k \in 1..(f.at - 1) \/ k = f.at
  BY <1>1
<1>5. ASSUME NEW k \in 1..(g.at - 1)
      PROVE  /\ Item(d, g.object).refs[k] \in c
             /\ IsDict(d, g.object) => Item(d, g.object).refs[Half(d, g.object) + k] \in c
  <2>1. CASE k = f.at
    BY <2>1
  <2>2. CASE k \in 1..(f.at - 1)
    BY <2>2 DEF FrameOK
  <2>. QED BY <1>4, <2>1, <2>2
<1>6. Item(d, g.object).kind \in Containers
  BY DEF FrameOK
<1>. QED BY <1>3, <1>5, <1>6 DEF FrameOK

\* The innermost activation.
LEMMA TopIs ==
    ASSUME IInv, frames # <<>>
    PROVE  /\ Len(frames) \in Nat \ {0} /\ Top = frames[Len(frames)]
           /\ Top \in Activation(doc) /\ Top.object \in Numbers
           /\ Top.at \in Nat \ {0}
           /\ FrameOK(doc, cache, Top) /\ TopOK(doc, Top, control)
           /\ IsDictionary <=> IsDict(doc, Top.object)
           /\ Count = Rounds(doc, Top.object) /\ Refs = Item(doc, Top.object).refs
<1>1. frames \in Seq(Activation(doc))
  BY DEF IInv, StackOK
<1>2. Len(frames) \in Nat \ {0} /\ Top = frames[Len(frames)]
  BY <1>1, SeqIs, EmptySeq DEF Top, Last
<1>3. Top \in Activation(doc)
  BY <1>1, <1>2, SeqIs
<1>4. Top.object \in Numbers /\ Top.at \in Nat \ {0}
  BY <1>3, Facts DEF Activation
<1>5. FrameOK(doc, cache, Top) /\ TopOK(doc, Top, control)
  <2>1. /\ \A k \in 1..Len(frames) : FrameOK(doc, cache, frames[k])
        /\ Len(frames) # 0 => TopOK(doc, frames[Len(frames)], control)
    BY DEF IInv, StackOK
  <2>2. Len(frames) \in 1..Len(frames) /\ Len(frames) # 0
    BY <1>2
  <2>. QED BY <1>2, <2>1, <2>2
<1>6. IsDictionary <=> IsDict(doc, Top.object)
  BY Facts DEF IsDictionary, IsDict
<1>7. Refs = Item(doc, Top.object).refs
  BY Facts DEF Refs
<1>8. Count = Rounds(doc, Top.object)
  BY <1>6, <1>7, Facts DEF Count, Rounds, Pairs, Half
<1>. QED BY <1>2, <1>3, <1>4, <1>5, <1>6, <1>7, <1>8

\* What a step of the innermost activation leaves as it is.
LEMMA TopStep ==
    ASSUME IInv, phase = "parse", frames # <<>>, control' \in Control, control'.op # "return",
           UNCHANGED <<doc, wants, phase, cache, rc, inProgress, todo, tables, arrays, format,
                       error, made, refused, result>>,
           NEW f \in Activation(doc), frames' = [frames EXCEPT ![Len(frames)] = f],
           f.object = Top.object, FrameOK(doc, cache, f), TopOK(doc, f, control')
    PROVE  IInv'
<1>1. Numbers' = Numbers
  BY SameDoc
<1>2. RestOK'
  BY <1>1 DEF IInv, RestOK, Control
<1>3. StackOK(doc, cache, inProgress, frames', control')
  BY TopIs, StackSetTop DEF IInv
<1>. QED BY <1>2, <1>3, Kept DEF IInv

LEMMA ParseNextIInv == ASSUME IInv, ParseNext PROVE IInv'
<1>1. /\ phase = "parse" /\ frames # <<>> /\ control.op = "loop" /\ Top.at <= Count
      /\ control' = [op |-> "call", arg |-> Refs[Top.at]]
      /\ UNCHANGED <<doc, wants, phase, frames, cache, rc, inProgress, todo, tables, arrays,
                     format, error, made, refused, result>>
  BY DEF ParseNext, Looping, Call, call, heap, outcome
<1>2. ~Top.onValue /\ Asked(doc, Top) = Refs[Top.at]
  <2>1. ~Top.onValue
    BY <1>1, TopIs DEF TopOK
  <2>2. 0 + Top.at = Top.at
    BY <1>1, TopIs
  <2>. QED BY <1>1, <2>1, <2>2, TopIs DEF Asked
<1>3. Refs[Top.at] \in Nat
  <2>1. /\ Top.object \in Numbered(doc) /\ DocumentOK(doc) /\ Refs = Item(doc, Top.object).refs
        /\ Top.at \in Nat \ {0} /\ Top.at <= Rounds(doc, Top.object)
    BY <1>1, TopIs, Facts
  <2>2. PICK n \in Nat, h \in Nat :
            /\ n = Len(Refs) /\ h = Half(doc, Top.object) /\ Refs \in Seq(Nat)
            /\ Rounds(doc, Top.object) = IF IsDict(doc, Top.object) THEN h ELSE n
            /\ IsDict(doc, Top.object) => n = h + h
    BY <2>1, ItemIs DEF Rounds
  <2>3. Top.at \in 1..n
    BY <2>1, <2>2
  <2>. QED BY <2>2, <2>3, SeqIs
<1>4. control' \in Control /\ control'.op = "call" /\ control'.arg = Refs[Top.at]
  BY <1>1, <1>3 DEF Control
<1>5. TopOK(doc, frames[Len(frames)], control')
  BY <1>1, <1>2, <1>4, TopIs DEF TopOK
<1>6. error \in {"none", "stale", "read"} /\ made \in Nat /\ refused \in BOOLEAN
  BY DEF IInv, RestOK
<1>. QED BY <1>1, <1>4, <1>5, <1>6, ControlStep

LEMMA KeepElementIInv == ASSUME IInv, KeepElement PROVE IInv'
<1>. DEFINE f == [Top EXCEPT !.at = @ + 1]
<1>1. /\ phase = "parse" /\ frames # <<>> /\ control.op = "return"
      /\ ~IsDictionary /\ control.arg # NULL
      /\ frames' = [frames EXCEPT ![Len(frames)] = f]
      /\ control' = [op |-> "loop"]
      /\ UNCHANGED <<doc, wants, phase, cache, rc, inProgress, todo, tables, arrays,
                     format, error, made, refused, result>>
  BY DEF KeepElement, Returned, Arg, SetTop, call, heap, outcome
<1>2. ~IsDict(doc, Top.object) /\ ~Top.onValue
  BY <1>1, TopIs DEF FrameOK
<1>3. /\ f \in Activation(doc) /\ f.object = Top.object /\ f.at = Top.at + 1 /\ ~f.onValue
  BY <1>1, <1>2, TopIs DEF Activation
<1>4. Top.at <= Rounds(doc, Top.object) /\ Item(doc, Top.object).refs[Top.at] \in cache
  <2>1. Top.at <= Rounds(doc, Top.object) /\ control.arg = Asked(doc, Top)
    BY <1>1, TopIs DEF TopOK
  <2>2. control.arg \in cache
    BY <1>1 DEF IInv, StackOK
  <2>3. 0 + Top.at = Top.at
    BY <1>1, TopIs
  <2>. QED BY <1>2, <2>1, <2>2, <2>3 DEF Asked
<1>. HIDE DEF f
<1>5. FrameOK(doc, cache, f)
  BY <1>1, <1>2, <1>3, <1>4, TopIs, Facts, FrameNext
<1>6. control' \in Control /\ control'.op = "loop" /\ TopOK(doc, f, control')
  BY <1>1, <1>3 DEF Control, TopOK
<1>. QED BY <1>1, <1>3, <1>5, <1>6, TopStep

LEMMA KeepKeyIInv == ASSUME IInv, KeepKey PROVE IInv'
<1>. DEFINE f == [Top EXCEPT !.key = control.arg, !.onValue = TRUE]
<1>1. /\ phase = "parse" /\ frames # <<>> /\ control.op = "return"
      /\ IsDictionary /\ ~Top.onValue
      /\ frames' = [frames EXCEPT ![Len(frames)] = f]
      /\ control' = [op |-> "call", arg |-> Refs[Count + Top.at]]
      /\ UNCHANGED <<doc, wants, phase, cache, rc, inProgress, todo, tables, arrays,
                     format, error, made, refused, result>>
  BY DEF KeepKey, Returned, Arg, SetTop, Call, call, heap, outcome
<1>2. IsDict(doc, Top.object) /\ Count = Half(doc, Top.object)
  BY <1>1, TopIs DEF Rounds
<1>3. control.arg \in cache \cup {NULL}
  BY <1>1 DEF IInv, StackOK
<1>4. cache \subseteq Numbers
  BY DEF IInv, CountedOK
<1>5. /\ f \in Activation(doc) /\ f.object = Top.object /\ f.at = Top.at /\ f.onValue
      /\ f.key = control.arg
  <2>1. control.arg \in Numbered(doc) \cup {NULL}
    BY <1>3, <1>4, Facts
  <2>. QED BY <1>1, <2>1, TopIs DEF Activation
<1>6. /\ Top.at <= Rounds(doc, Top.object)
      /\ control.arg # NULL => control.arg = Item(doc, Top.object).refs[Top.at]
  <2>1. Top.at <= Rounds(doc, Top.object) /\ control.arg \in {Asked(doc, Top), NULL}
    BY <1>1, TopIs DEF TopOK
  <2>2. 0 + Top.at = Top.at
    BY <1>1, TopIs
  <2>. QED BY <1>1, <2>1, <2>2 DEF Asked
<1>. HIDE DEF f
<1>7. FrameOK(doc, cache, f)
  BY <1>1, <1>2, <1>3, <1>5, <1>6, TopIs DEF FrameOK
<1>8. Asked(doc, f) = Refs[Count + Top.at]
  BY <1>1, <1>2, <1>5, TopIs DEF Asked
<1>9. Refs[Count + Top.at] \in Nat
  <2>1. /\ Top.object \in Numbered(doc) /\ DocumentOK(doc) /\ Refs = Item(doc, Top.object).refs
        /\ Top.at \in Nat \ {0} /\ Top.at <= Count
    BY <1>1, <1>6, TopIs, Facts
  <2>2. PICK h \in Nat : h = Count /\ Len(Refs) = h + h /\ Refs \in Seq(Nat)
    BY <1>2, <2>1, ItemIs
  <2>3. h + Top.at \in 1..(h + h)
    BY <2>1, <2>2
  <2>. QED BY <2>2, <2>3, SeqIs
<1>10. /\ control' \in Control /\ control'.op = "call" /\ TopOK(doc, f, control')
  BY <1>1, <1>5, <1>6, <1>8, <1>9 DEF Control, TopOK
<1>. QED BY <1>1, <1>5, <1>7, <1>10, TopStep

\* The innermost activation when it goes on to the next pair.
LEMMA NextPair ==
    ASSUME Top \in Activation(doc)
    PROVE  LET f == [Top EXCEPT !.at = @ + 1, !.key = NULL, !.onValue = FALSE]
           IN  f \in Activation(doc) /\ f.object = Top.object /\ f.at = Top.at + 1 /\ ~f.onValue
<1>1. Top \in Activation(doc)
  OBVIOUS
<1>2. PICK g : g = [Top EXCEPT !.at = @ + 1, !.key = NULL, !.onValue = FALSE]
  OBVIOUS
<1>3. g.object = Top.object /\ g.at = Top.at + 1 /\ g.key = NULL /\ g.onValue = FALSE
  BY <1>1, <1>2 DEF Activation
<1>4. g = [object |-> g.object, at |-> g.at, key |-> g.key, onValue |-> g.onValue]
  BY <1>1, <1>2 DEF Activation
<1>5. Top.object \in Numbered(doc) /\ Top.at + 1 \in Nat \ {0}
  BY <1>1 DEF Activation
<1>6. /\ g.object \in Numbered(doc) /\ g.at \in Nat \ {0}
      /\ g.key \in Numbered(doc) \cup {NULL} /\ g.onValue \in BOOLEAN
  BY <1>3, <1>5
<1>7. g \in Activation(doc)
  BY <1>4, <1>6 DEF Activation
<1>. QED BY <1>2, <1>3, <1>7

LEMMA KeepPairIInv == ASSUME IInv, KeepPair PROVE IInv'
<1>. DEFINE f == [Top EXCEPT !.at = @ + 1, !.key = NULL, !.onValue = FALSE]
<1>1. /\ phase = "parse" /\ frames # <<>> /\ control.op = "return"
      /\ IsDictionary /\ Top.onValue /\ control.arg # NULL /\ Top.key # NULL
      /\ frames' = [frames EXCEPT ![Len(frames)] = f]
      /\ control' = [op |-> "loop"]
      /\ UNCHANGED <<doc, wants, phase, cache, rc, inProgress, todo, tables, arrays,
                     format, error, made, refused, result>>
  BY DEF KeepPair, PairIsGood, Returned, Arg, SetTop, call, heap, outcome
<1>2. IsDict(doc, Top.object)
  BY <1>1, TopIs
<1>3. /\ f \in Activation(doc) /\ f.object = Top.object /\ f.at = Top.at + 1 /\ ~f.onValue
  BY <1>1, TopIs, NextPair
<1>4. /\ Top.at <= Rounds(doc, Top.object)
      /\ Item(doc, Top.object).refs[Half(doc, Top.object) + Top.at] \in cache
  <2>1. Top.at <= Rounds(doc, Top.object) /\ control.arg = Asked(doc, Top)
    BY <1>1, TopIs DEF TopOK
  <2>2. control.arg \in cache
    BY <1>1 DEF IInv, StackOK
  <2>. QED BY <1>1, <1>2, <2>1, <2>2 DEF Asked
<1>5. Item(doc, Top.object).refs[Top.at] \in cache
  BY <1>1, TopIs DEF FrameOK
<1>. HIDE DEF f
<1>6. FrameOK(doc, cache, f)
  BY <1>1, <1>3, <1>4, <1>5, TopIs, Facts, FrameNext
<1>7. control' \in Control /\ control'.op = "loop" /\ TopOK(doc, f, control')
  BY <1>1, <1>3 DEF Control, TopOK
<1>. QED BY <1>1, <1>3, <1>6, <1>7, TopStep

LEMMA ContainerFailsIInv == ASSUME IInv, ContainerFails \/ ContainerNoMemory PROVE IInv'
<1>. DEFINE o == Top.object
<1>1. /\ phase = "parse" /\ frames # <<>>
      /\ frames' = Front(frames) /\ arrays' = arrays \ {o} /\ inProgress' = inProgress \ {o}
      /\ control' = [op |-> "return", arg |-> NULL]
      /\ \E out \in BOOLEAN : SetError(out)
      /\ UNCHANGED <<doc, wants, phase, cache, rc, todo, tables, format, result>>
  BY DEF ContainerFails, ContainerNoMemory, Returned, Looping, Leave, Return, call, heap
<1>. HIDE DEF o
<1>2. error' \in {"none", "stale", "read"} /\ made' \in Nat /\ refused' \in BOOLEAN
  BY <1>1, ErrorTypes
<1>3. RestOK'
  <2>1. Numbers' = Numbers
    BY <1>1, SameDoc
  <2>2. control' \in Control
    BY <1>1 DEF Control
  <2>3. arrays' \subseteq inProgress'
    BY <1>1 DEF IInv, RestOK
  <2>. QED BY <1>1, <1>2, <2>1, <2>2, <2>3 DEF IInv, RestOK, Control
<1>4. StackOK(doc, cache, inProgress', frames', control')
  <2>1. Len(frames) # 0 /\ o = frames[Len(frames)].object
    BY <1>1, TopIs DEF o
  <2>. QED BY <1>1, <2>1, StackPop DEF IInv
<1>. QED BY <1>1, <1>3, <1>4, Kept DEF IInv

\* An activation that has come to its end has parsed all that its object refers to.
LEMMA FinishedRefs ==
    ASSUME IInv, frames # <<>>, ~(Top.at <= Count)
    PROVE  \A l \in DOMAIN Entry(Top.object).refs : Entry(Top.object).refs[l] \in cache
<1>. DEFINE o == Top.object
<1>1. /\ Entry(o) = Item(doc, o) /\ o \in Numbered(doc) /\ DocumentOK(doc)
      /\ FrameOK(doc, cache, Top) /\ Top.at \in Nat \ {0}
      /\ ~(Top.at <= Rounds(doc, o))
  BY TopIs, Facts
<1>2. PICK n \in Nat, h \in Nat :
        /\ n = Len(Item(doc, o).refs) /\ h = Half(doc, o)
        /\ DOMAIN Item(doc, o).refs = 1..n
        /\ Rounds(doc, o) = IF IsDict(doc, o) THEN h ELSE n
        /\ IsDict(doc, o) => n = h + h
  BY <1>1, ItemIs DEF Rounds
<1>3. \A k \in 1..(Top.at - 1) :
        /\ Item(doc, o).refs[k] \in cache
        /\ IsDict(doc, o) => Item(doc, o).refs[h + k] \in cache
  BY <1>1, <1>2 DEF FrameOK
<1>4. ASSUME NEW l \in 1..n PROVE Item(doc, o).refs[l] \in cache
  <2>1. CASE ~IsDict(doc, o)
    <3>1. l \in 1..(Top.at - 1)
      BY <1>1, <1>2, <2>1
    <3>. QED BY <1>3, <3>1
  <2>2. CASE IsDict(doc, o) /\ l <= h
    <3>1. l \in 1..(Top.at - 1)
      BY <1>1, <1>2, <2>2
    <3>. QED BY <1>3, <3>1
  <2>3. CASE IsDict(doc, o) /\ ~(l <= h)
    <3>1. l - h \in 1..(Top.at - 1) /\ h + (l - h) = l
      BY <1>1, <1>2, <2>3
    <3>. QED BY <1>3, <2>3, <3>1
  <2>. QED BY <2>1, <2>2, <2>3
<1>. QED BY <1>1, <1>2, <1>4

LEMMA ContainerDoneIInv == ASSUME IInv, ContainerDone PROVE IInv'
<1>. DEFINE o == Top.object
<1>1. /\ phase = "parse" /\ frames # <<>> /\ control.op = "loop" /\ ~(Top.at <= Count)
      /\ rc' = Retained(o) /\ cache' = cache \cup {o}
      /\ frames' = Front(frames) /\ arrays' = arrays \ {o} /\ inProgress' = inProgress \ {o}
      /\ control' = [op |-> "return", arg |-> o]
      /\ UNCHANGED <<doc, wants, phase, todo, tables, format, error, made, refused, result>>
  <2>1. Top.at > Count => ~(Top.at <= Count)
    <3>1. frames # <<>> => Top.at \in Nat /\ Count \in Nat
      BY TopIs, Facts, ItemIs
    <3>. QED BY <3>1 DEF ContainerDone, Looping
  <2>. QED BY <2>1 DEF ContainerDone, Looping, Leave, Return, call, outcome
<1>2. o \in Numbers /\ o \in Nat /\ o \notin cache
  <2>1. o \in Numbers
    BY <1>1, TopIs
  <2>2. o \in inProgress /\ inProgress \cap cache = {}
    <3>1. /\ inProgress = {frames[k].object : k \in 1..Len(frames)}
          /\ inProgress \cap cache = {}
      BY DEF IInv, StackOK
    <3>2. Len(frames) \in 1..Len(frames) /\ o = frames[Len(frames)].object
      BY <1>1, TopIs
    <3>. QED BY <3>1, <3>2
  <2>. QED BY <2>1, <2>2, Facts
<1>3. \A k \in DOMAIN Contents[o] : Contents[o][k] \in cache
  <2>1. \A l \in DOMAIN Entry(o).refs : Entry(o).refs[l] \in cache
    BY <1>1, FinishedRefs
  <2>2. \A k \in DOMAIN Stored(o) : \E l \in DOMAIN Entry(o).refs : Stored(o)[k] = Entry(o).refs[l]
    BY <1>2, Facts, StoredIs
  <2>3. Contents[o] = Stored(o)
    BY <1>2 DEF Contents
  <2>. QED BY <2>1, <2>2, <2>3
<1>4. \A i \in Numbers : rc'[i] = (IF i = o THEN 1 ELSE rc[i]) + Occurrences(Contents[o], i)
  <2>1. Contents[o] = Stored(o)
    BY <1>2 DEF Contents
  <2>. QED BY <1>1, <2>1 DEF Retained
<1>5. rc' \in [Numbers -> Int]
  <2>1. rc \in [Numbers -> Nat]
    BY DEF IInv, CountedOK
  <2>2. ASSUME NEW i \in Numbers PROVE rc'[i] \in Int
    <3>1. Contents[o] \in Seq(Nat)
      BY <1>2, Facts
    <3>2. Occurrences(Contents[o], i) \in Nat
      BY <3>1, OccNat
    <3>. QED BY <1>4, <2>1, <3>2
  <2>3. rc' = [i \in Numbers |-> rc'[i]]
    BY <1>1 DEF Retained
  <2>. QED BY <2>2, <2>3
<1>. HIDE DEF o
<1>6. RestOK'
  <2>1. Numbers' = Numbers
    BY <1>1, SameDoc
  <2>2. control' \in Control
    BY <1>1, <1>2 DEF Control
  <2>3. arrays' \subseteq inProgress'
    BY <1>1 DEF IInv, RestOK
  <2>. QED BY <1>1, <2>1, <2>2, <2>3 DEF IInv, RestOK, Control
<1>7. StackOK(doc, cache', inProgress', frames', control')
  <2>1. Len(frames) # 0 /\ o = frames[Len(frames)].object
    BY <1>1, TopIs DEF o
  <2>. QED BY <1>1, <2>1, StackPop DEF IInv
<1>8. CountedOK(Numbers, Contents, rc', NULL, "parse", cache', todo)
  <2>1. CountedOK(Numbers, Contents, rc, NULL, "parse", cache, todo)
    BY <1>1 DEF IInv, CountedOK
  <2>. QED BY <1>1, <1>2, <1>3, <1>4, <1>5, <2>1, CountedCreate, Facts
<1>9. result = NULL
  BY <1>1 DEF IInv, CountedOK
<1>. QED BY <1>1, <1>6, <1>7, <1>8, <1>9, Kept

-----------------------------------------------------------------------------
(* The cleanup.                                                            *)

\* What a step of the end leaves as it is.
LEMMA EndStep ==
    ASSUME IInv, phase \in {"parse", "cleanup"}, phase' = "cleanup",
           UNCHANGED <<doc, wants, frames, control, cache, inProgress, tables, arrays, error,
                       made, refused>>,
           format' \in {"stale", "none", "binary"}, result' \in Numbers \cup {NULL},
           CountedOK(Numbers, Contents, rc', result', "cleanup", cache, todo')
    PROVE  IInv'
<1>1. Numbers' = Numbers
  BY SameDoc
<1>2. RestOK'
  BY <1>1 DEF IInv, RestOK, Control
<1>. QED BY <1>2, Kept DEF IInv

LEMMA ParseEndsIInv == ASSUME IInv, ParseFailed \/ ParseDone PROVE IInv'
<1>1. /\ phase = "parse" /\ phase' = "cleanup" /\ control.op = "return"
      /\ todo' = Ascending(cache)
      /\ UNCHANGED <<doc, wants, frames, control, cache, inProgress, tables, arrays, error,
                     made, refused>>
  BY DEF ParseFailed, ParseDone, TopReturned, CacheSeq, call, heap, outcome
<1>2. CountedOK(Numbers, Contents, rc, NULL, "parse", cache, todo) /\ result = NULL
  BY <1>1 DEF IInv, CountedOK
<1>3. rc \in [Numbers -> Nat] /\ cache \subseteq Numbers
  BY DEF IInv, CountedOK
<1>4. CASE ParseFailed
  <2>1. UNCHANGED <<rc, format, result>>
    BY <1>4 DEF ParseFailed, heap
  <2>2. \A i \in Numbers : rc'[i] = IF i = NULL THEN rc[i] + 1 ELSE rc[i]
    BY <2>1, Facts
  <2>3. rc' \in [Numbers -> Int]
    BY <1>3, <2>1
  <2>4. CountedOK(Numbers, Contents, rc', NULL, "cleanup", cache, Ascending(cache))
    BY <1>2, <2>2, <2>3, CountedCleanup, Facts
  <2>5. format' \in {"stale", "none", "binary"}
    BY <2>1 DEF IInv, RestOK
  <2>. QED BY <1>1, <1>2, <2>1, <2>4, <2>5, EndStep
<1>5. CASE ParseDone
  <2>. DEFINE o == control.arg
  <2>1. /\ rc' = [rc EXCEPT ![o] = @ + 1] /\ result' = o /\ format' = "binary" /\ o # NULL
    BY <1>5 DEF ParseDone, Arg
  <2>2. o \in cache
    BY <1>1, <2>1 DEF IInv, StackOK
  <2>. HIDE DEF o
  <2>3. rc' \in [Numbers -> Int] /\ \A i \in Numbers : rc'[i] = IF i = o THEN rc[i] + 1 ELSE rc[i]
    <3>1. o \in Numbers /\ rc[o] + 1 \in Int
      BY <1>3, <2>2
    <3>2. rc' \in [Numbers -> Int]
      BY <1>3, <2>1, <3>1
    <3>3. \A i \in Numbers : rc'[i] = IF i = o THEN rc[i] + 1 ELSE rc[i]
      BY <1>3, <2>1, <3>1
    <3>. QED BY <3>2, <3>3
  <2>4. CountedOK(Numbers, Contents, rc', o, "cleanup", cache, Ascending(cache))
    BY <1>2, <2>2, <2>3, CountedCleanup, Facts
  <2>. QED BY <1>1, <1>3, <2>1, <2>2, <2>4, EndStep
<1>. QED BY <1>4, <1>5

LEMMA CleanupReleaseIInv == ASSUME IInv, CleanupRelease PROVE IInv'
<1>. DEFINE h == Head(todo)
<1>1. /\ phase = "cleanup" /\ phase' = "cleanup" /\ todo # <<>>
      /\ rc' = [rc EXCEPT ![h] = @ - 1]
      /\ todo' = (IF rc[h] = 1 THEN Stored(h) ELSE <<>>) \o Tail(todo)
      /\ UNCHANGED <<doc, wants, frames, control, cache, inProgress, tables, arrays, format,
                     error, made, refused, result>>
  BY DEF CleanupRelease, call, outcome
<1>2. CountedOK(Numbers, Contents, rc, result, "cleanup", cache, todo)
  BY <1>1 DEF IInv
<1>3. rc \in [Numbers -> Nat] /\ todo \in Seq(Numbers)
  BY <1>2 DEF CountedOK
<1>4. h \in Numbers
  BY <1>1, <1>3, HeadTailProperties
<1>5. rc' \in [Numbers -> Int] /\ \A i \in Numbers : rc'[i] = IF i = h THEN rc[i] - 1 ELSE rc[i]
  BY <1>1, <1>3
<1>6. todo' = (IF rc[h] = 1 THEN Contents[h] ELSE <<>>) \o Tail(todo)
  BY <1>1, <1>4 DEF Contents
<1>7. CountedOK(Numbers, Contents, rc', result, "cleanup", cache, todo')
  BY <1>1, <1>2, <1>5, <1>6, CountedRelease, Facts
<1>8. format' \in {"stale", "none", "binary"} /\ result' \in Numbers \cup {NULL}
  BY <1>1 DEF IInv, RestOK
<1>. QED BY <1>1, <1>7, <1>8, EndStep

-----------------------------------------------------------------------------
(* The theorem.                                                            *)

Start ==
    /\ DocumentOK(doc) /\ wants \in BOOLEAN
    /\ phase = "idle"
    /\ frames = <<>> /\ control = [op |-> "loop"]
    /\ cache = {} /\ inProgress = {} /\ rc = [i \in Numbers |-> 0]
    /\ todo = <<>> /\ tables = FALSE /\ arrays = {}
    /\ format = "stale"
    /\ error = IF wants THEN "stale" ELSE "none"
    /\ made = 0 /\ refused = FALSE /\ result = NULL

LEMMA InitStarts == Init => Start
BY DocumentsOK DEF Init, Start

LEMMA StartIInv == Start => IInv
<1>. SUFFICES ASSUME Start PROVE IInv
  OBVIOUS
<1>1. /\ DocumentOK(doc) /\ wants \in BOOLEAN /\ phase = "idle" /\ frames = <<>>
      /\ control = [op |-> "loop"] /\ cache = {} /\ inProgress = {}
      /\ rc = [i \in Numbers |-> 0] /\ todo = <<>> /\ tables = FALSE /\ arrays = {}
      /\ format = "stale" /\ error = (IF wants THEN "stale" ELSE "none")
      /\ made = 0 /\ refused = FALSE /\ result = NULL
  BY DEF Start
<1>2. RestOK
  BY <1>1 DEF RestOK, Control
<1>3. StackOK(doc, cache, inProgress, frames, control)
  <2>1. <<>> \in Seq(Activation(doc)) /\ Len(<<>>) = 0
    BY EmptySeq
  <2>2. control.op = "loop"
    BY <1>1
  <2>3. {} = {frames[k].object : k \in 1..0} /\ \A k : k \notin 1..0 /\ k \notin 1..(0 - 1)
    OBVIOUS
  <2>. QED BY <1>1, <2>1, <2>2, <2>3, FS_EmptySet DEF StackOK
<1>4. DocumentOK(doc) /\ NULL \notin Numbers
  <2>1. Numbers = Numbered(doc)
    BY DEF Numbers, NumObjects, Numbered
  <2>. QED BY <1>1, <2>1, NumberedIs
<1>5. CountedOK(Numbers, Contents, rc, result, phase, cache, todo)
  <2>1. /\ rc \in [Numbers -> Nat] /\ DOMAIN rc = Numbers
        /\ todo \in Seq(Numbers) /\ Alive(rc) = {}
    BY <1>1, EmptySeq DEF Alive
  <2>2. ASSUME NEW i \in Numbers
        PROVE  rc[i] = Held(Contents, Alive(rc), i) + (IF result = i THEN 1 ELSE 0)
                       + Due(phase, cache, todo, i)
    <3>1. Held(Contents, Alive(rc), i) = 0 /\ Due(phase, cache, todo, i) = 0
      BY <1>1, <2>1, HeldEmpty DEF Due
    <3>. QED BY <1>1, <1>4, <3>1
  <2>. QED BY <1>1, <2>1, <2>2 DEF CountedOK, CountsOK
<1>. QED BY <1>2, <1>3, <1>5 DEF IInv

LEMMA NextIInv == IInv /\ [Next]_vars => IInv'
<1>. SUFFICES ASSUME IInv, [Next]_vars PROVE IInv'
  OBVIOUS
<1>1. CASE UNCHANGED vars
  <2>1. /\ UNCHANGED <<doc, wants, phase, frames, control, cache, inProgress, rc, todo, tables>>
        /\ UNCHANGED <<arrays, format, error, made, refused, result>>
    BY <1>1 DEF vars
  <2>2. Numbers' = Numbers
    BY <2>1, SameDoc
  <2>3. RestOK'
    BY <2>1, <2>2 DEF IInv, RestOK, Control
  <2>. QED BY <2>1, <2>3, Kept DEF IInv
<1>. QED BY <1>1, PhaseIInv, LoadIInv, CallCachedIInv, CallFailsIInv, CallLeafIInv,
            CallContainerIInv, ParseNextIInv, KeepElementIInv, KeepKeyIInv, KeepPairIInv,
            ContainerFailsIInv, ContainerDoneIInv, ParseEndsIInv, CleanupReleaseIInv DEF Next

\* A call never changes its document.
LEMMA DocStays == [Next]_vars => UNCHANGED <<doc, wants>>
<1>1. CASE UNCHANGED vars
  BY <1>1 DEF vars
<1>2. CASE Next
  BY <1>2 DEF Next, CreateWithDataRefuses, CreateWithData, LoadRefuses, LoadNoMemory, Load,
     CallCached, CallRefuses, CallLeaf, CallFails, CallContainer, ParseNext, KeepElement,
     KeepKey, KeepPair, ContainerFails, ContainerDone, ContainerNoMemory, ParseFailed,
     ParseDone, CleanupRelease, CleanupFree, call
<1>. QED BY <1>1, <1>2

LEMMA IInvType == IInv /\ doc \in Documents => TypeOK
<1>. SUFFICES ASSUME IInv, doc \in Documents PROVE TypeOK
  OBVIOUS
<1>1. Frame = Activation(doc)
  BY Facts DEF Frame, Activation
<1>2. frames \in Seq(Frame)
  BY <1>1 DEF IInv, StackOK
<1>3. inProgress \subseteq Numbers
  <2>1. inProgress = {frames[k].object : k \in 1..Len(frames)} /\ frames \in Seq(Activation(doc))
    BY DEF IInv, StackOK
  <2>2. \A k \in 1..Len(frames) : frames[k] \in Activation(doc)
    BY <2>1, SeqIs
  <2>3. \A f \in Activation(doc) : f.object \in Numbers
    BY Facts DEF Activation
  <2>. QED BY <2>1, <2>2, <2>3
<1>. QED BY <1>2, <1>3 DEF IInv, RestOK, CountedOK, TypeOK

LEMMA IInvStack == IInv => StackIsPath
<1>. SUFFICES ASSUME IInv PROVE StackIsPath
  OBVIOUS
<1>1. PICK n \in Nat : n = Len(frames) /\ DOMAIN frames = 1..n
  BY SeqIs DEF IInv, StackOK
<1>2. /\ inProgress = {frames[k].object : k \in 1..n}
      /\ Cardinality(inProgress) = n /\ inProgress \cap cache = {}
      /\ \A k \in 1..(n - 1) : /\ frames[k].at <= Rounds(doc, frames[k].object)
                               /\ Asked(doc, frames[k]) = frames[k + 1].object
      /\ frames \in Seq(Activation(doc))
      /\ \A k \in 1..n : FrameOK(doc, cache, frames[k])
  BY <1>1 DEF IInv, StackOK
<1>3. ASSUME NEW k \in 2..n
      PROVE  frames[k].object \in RefersTo[frames[k - 1].object]
  <2>. DEFINE f == frames[k - 1]
  <2>1. k - 1 \in 1..(n - 1) /\ k - 1 \in 1..n /\ (k - 1) + 1 = k
    BY <1>1
  <2>2. f \in Activation(doc) /\ f.at <= Rounds(doc, f.object) /\ FrameOK(doc, cache, f)
        /\ Asked(doc, f) = frames[k].object
    BY <1>1, <1>2, <2>1, SeqIs
  <2>. HIDE DEF f
  <2>3. PICK x \in Numbered(doc), a \in Nat \ {0} :
            /\ x = f.object /\ a = f.at /\ f.onValue \in BOOLEAN
    BY <2>2 DEF Activation
  <2>4. PICK l \in Nat, h \in Nat :
            /\ l = Len(Item(doc, x).refs) /\ h = Half(doc, x)
            /\ DOMAIN Item(doc, x).refs = 1..l
            /\ Rounds(doc, x) = IF IsDict(doc, x) THEN h ELSE l
            /\ IsDict(doc, x) => l = h + h
    BY <2>3, Facts, ItemIs DEF Rounds
  <2>5. \E m \in 1..l : Asked(doc, f) = Item(doc, x).refs[m]
    <3>1. CASE IsDict(doc, x) /\ f.onValue
      <4>1. h + a \in 1..l /\ Asked(doc, f) = Item(doc, x).refs[h + a]
        BY <2>2, <2>3, <2>4, <3>1 DEF Asked
      <4>. QED BY <4>1
    <3>2. CASE ~(IsDict(doc, x) /\ f.onValue)
      <4>1. 0 + a \in 1..l /\ Asked(doc, f) = Item(doc, x).refs[0 + a]
        BY <2>2, <2>3, <2>4, <3>2 DEF Asked
      <4>. QED BY <4>1
    <3>. QED BY <3>1, <3>2
  <2>6. x \in Numbers /\ Entry(x) = Item(doc, x)
    BY <2>3, Facts
  <2>7. frames[k].object \in ToSet(Entry(x).refs)
    BY <2>2, <2>4, <2>5, <2>6 DEF ToSet
  <2>. QED BY <2>3, <2>6, <2>7 DEF RefersTo, f
<1>. QED BY <1>1, <1>2, <1>3 DEF StackIsPath

LEMMA IInvCounts == IInv => CountIsReferences
<1>. SUFFICES ASSUME IInv PROVE CountIsReferences
  OBVIOUS
<1>1. rc \in [Numbers -> Nat] /\ CountsOK(Contents, rc, result, phase, cache, todo)
  BY DEF IInv, CountedOK
<1>2. Alive(rc) = {n \in Numbers : rc[n] > 0}
  BY <1>1 DEF Alive
<1>3. ASSUME NEW i \in Numbers PROVE Holders(i) = Held(Contents, Alive(rc), i)
  <2>1. \A j \in Numbers : Places(j, i) = PlacesOf(Contents, j, i)
    BY DEF Places, PlacesOf, Contents
  <2>2. {Places(j, i) : j \in {n \in Numbers : rc[n] > 0}}
        = {PlacesOf(Contents, j, i) : j \in Alive(rc)}
    BY <1>2, <2>1
  <2>. QED BY <2>2 DEF Holders, Held
<1>4. ASSUME NEW i \in Numbers
      PROVE  rc[i] = Holders(i) + (IF result = i THEN 1 ELSE 0)
                     + (CASE phase = "parse" -> IF i \in cache THEN 1 ELSE 0
                          [] phase = "cleanup" -> Occurrences(todo, i)
                          [] OTHER -> 0)
  BY <1>1, <1>3 DEF CountsOK, Due
<1>. QED BY <1>4 DEF CountIsReferences

\* _FXCFBinaryPListCreateWithData and the functions it recurses through: for every
\* set of documents, between any two steps of a call, whichever of them fails, each
\* object's count is the number of references to it, and the activations are a path
\* of the document that meets no entry twice.
THEOREM HeapCorrect == Spec => []HeapOK
<1>1. Init => IInv /\ doc \in Documents
  BY InitStarts, StartIInv DEF Init
<1>2. IInv /\ doc \in Documents /\ [Next]_vars => IInv' /\ (doc \in Documents)'
  BY NextIInv, DocStays
<1>3. IInv /\ doc \in Documents => HeapOK
  BY IInvType, IInvStack, IInvCounts DEF HeapOK
<1>. QED BY <1>1, <1>2, <1>3, PTL DEF Spec

-----------------------------------------------------------------------------
(* What the caller is told.  A failure is not always reported upwards at   *)
(* once: after a key that could not be parsed its value is parsed, and     *)
(* only then the pair fails.                                               *)

Fails(f) == f.onValue /\ f.key = NULL
SomeFails(fr) == \E k \in 1..Len(fr) : Fails(fr[k])

\* The call cannot succeed any more.
Doomed(ct, fr) == (ct.op = "return" /\ ct.arg = NULL) \/ SomeFails(fr)

TellInv ==
    /\ made = IF error = "read" THEN 1 ELSE 0
    /\ phase = "idle" => error = IF wants THEN "stale" ELSE "none"
    /\ phase # "idle" => error # "stale"
    /\ phase = "load" => error = "none"
    /\ phase \in {"load", "parse"} => format = "none"
    /\ phase = "parse" =>
        /\ error = "read" => Doomed(control, frames)
        /\ Doomed(control, frames) /\ wants => error = "read" \/ refused
    /\ phase \in {"cleanup", "done", "rejected"} =>
        /\ format = IF result = NULL THEN "none" ELSE "binary"
        /\ result # NULL => error # "read"
        /\ result = NULL /\ wants => error = "read" \/ refused

LEMMA PushFails ==
    ASSUME NEW X, NEW fr \in Seq(X), NEW f \in X
    PROVE  SomeFails(Append(fr, f)) <=> SomeFails(fr) \/ Fails(f)
<1>. DEFINE fs == Append(fr, f)
<1>1. PICK n \in Nat : n = Len(fr) /\ Len(fs) = n + 1 /\ fs[n + 1] = f
                       /\ \A k \in 1..n : fs[k] = fr[k]
  BY AppendProperties, SeqIs
<1>2. \A k \in 1..(n + 1) : k \in 1..n \/ k = n + 1
  BY <1>1
<1>3. n + 1 \in 1..(n + 1) /\ 1..n \subseteq 1..(n + 1)
  BY <1>1
<1>. HIDE DEF fs
<1>4. SomeFails(fs) <=> SomeFails(fr) \/ Fails(f)
  BY <1>1, <1>2, <1>3 DEF SomeFails
<1>. QED BY <1>4 DEF fs

LEMMA PopFails ==
    ASSUME NEW X, NEW fr \in Seq(X), Len(fr) # 0
    PROVE  SomeFails(fr) <=> SomeFails(Front(fr)) \/ Fails(fr[Len(fr)])
<1>. DEFINE fs == Front(fr)
<1>1. PICK n \in Nat \ {0} : n = Len(fr)
  BY SeqIs
<1>2. Len(fs) = n - 1 /\ \A k \in 1..(n - 1) : fs[k] = fr[k]
  BY <1>1, SubSeqProperties, SeqIs DEF Front
<1>3. /\ \A k \in 1..n : k \in 1..(n - 1) \/ k = n
      /\ n \in 1..n /\ 1..(n - 1) \subseteq 1..n
  BY <1>1
<1>. HIDE DEF fs
<1>4. SomeFails(fr) <=> SomeFails(fs) \/ Fails(fr[n])
  BY <1>1, <1>2, <1>3 DEF SomeFails
<1>. QED BY <1>1, <1>4 DEF fs

\* A top that fails as much as the one it replaces changes nothing, and one that
\* starts to fail is the only change.
LEMMA TopFails ==
    ASSUME NEW X, NEW fr \in Seq(X), Len(fr) # 0, NEW f \in X,
           Fails(fr[Len(fr)]) => Fails(f)
    PROVE  SomeFails([fr EXCEPT ![Len(fr)] = f]) <=> SomeFails(fr) \/ Fails(f)
<1>. DEFINE fs == [fr EXCEPT ![Len(fr)] = f]
<1>1. PICK n \in Nat \ {0} : n = Len(fr)
  BY SeqIs
<1>2. Len(fs) = n /\ fs[n] = f /\ \A k \in 1..n : k # n => fs[k] = fr[k]
  <2>1. n \in 1..Len(fr)
    BY <1>1
  <2>. QED BY <1>1, <2>1, ExceptSeq
<1>3. n \in 1..n
  BY <1>1
<1>. HIDE DEF fs
<1>4. SomeFails(fs) <=> SomeFails(fr) \/ Fails(f)
  BY <1>1, <1>2, <1>3 DEF SomeFails
<1>. QED BY <1>4 DEF fs

\* An error is made once, or it is lost for lack of memory.
LEMMA ErrorTold ==
    ASSUME IInv, TellInv, phase # "idle", NEW out \in BOOLEAN, SetError(out)
    PROVE  /\ made' = IF error' = "read" THEN 1 ELSE 0
           /\ error' # "stale" /\ (wants => error' = "read" \/ refused')
<1>1. /\ made = IF error = "read" THEN 1 ELSE 0
      /\ error # "stale" /\ error \in {"none", "stale", "read"}
  BY DEF IInv, RestOK, TellInv
<1>2. CASE error' = "read" /\ made' = made + 1 /\ error = "none"
  BY <1>1, <1>2
<1>3. CASE UNCHANGED <<error, made>> /\ refused' = (refused \/ out \/ (wants /\ error = "none"))
  <2>1. wants /\ error # "read" => refused'
    BY <1>1, <1>3
  <2>. QED BY <1>1, <1>3, <2>1
<1>. QED BY <1>2, <1>3 DEF SetError

LEMMA PhaseTells ==
    ASSUME IInv, TellInv,
           \/ CreateWithDataRefuses \/ CreateWithData \/ LoadRefuses \/ LoadNoMemory \/ Load
           \/ CleanupFree \/ CleanupRelease
    PROVE  TellInv'
<1>1. phase \in {"idle", "load", "parse"} => result = NULL
  BY DEF IInv, CountedOK
<1>2. CASE CreateWithDataRefuses
  <2>1. /\ phase = "idle" /\ phase' = "rejected" /\ format' = "none" /\ result' = result
        /\ error' \in IF wants THEN {"read", "none"} ELSE {error}
        /\ made' = (IF error' = "read" THEN 1 ELSE 0)
        /\ refused' = (wants /\ error' # "read") /\ wants' = wants
    BY <1>2 DEF CreateWithDataRefuses, call
  <2>2. error' # "stale"
    <3>1. ~wants => error = "none"
      BY <2>1 DEF TellInv
    <3>. QED BY <2>1, <3>1
  <2>3. wants => error' = "read" \/ refused'
    BY <2>1
  <2>. QED BY <1>1, <2>1, <2>2, <2>3 DEF TellInv
<1>3. CASE CreateWithData
  BY <1>1, <1>3 DEF CreateWithData, TellInv
<1>4. CASE LoadRefuses \/ LoadNoMemory
  <2>1. /\ phase = "load" /\ phase' = "done" /\ UNCHANGED <<wants, format, result>>
        /\ \E out \in BOOLEAN : SetError(out)
    BY <1>4 DEF LoadRefuses, LoadNoMemory, call
  <2>2. /\ made' = (IF error' = "read" THEN 1 ELSE 0)
        /\ error' # "stale" /\ (wants => error' = "read" \/ refused')
    BY <2>1, ErrorTold
  <2>3. format' = "none" /\ result' = NULL
    BY <1>1, <2>1 DEF TellInv
  <2>. QED BY <2>1, <2>2, <2>3 DEF TellInv
<1>5. CASE Load
  <2>1. /\ phase = "load" /\ phase' = "parse" /\ control'.op = "call" /\ frames' = frames
        /\ UNCHANGED <<wants, format, error, made, refused, result>>
    BY <1>5 DEF Load, call, outcome
  <2>2. frames = <<>>
    BY <2>1 DEF IInv, RestOK
  <2>3. ~Doomed(control', frames')
    BY <2>1, <2>2 DEF Doomed, SomeFails
  <2>. QED BY <2>1, <2>3 DEF TellInv
<1>6. CASE CleanupFree \/ CleanupRelease
  <2>1. /\ phase = "cleanup" /\ phase' \in {"cleanup", "done"}
        /\ UNCHANGED <<wants, format, error, made, refused, result>>
    BY <1>6 DEF CleanupFree, CleanupRelease, call, outcome
  <2>. QED BY <2>1 DEF TellInv
<1>. QED BY <1>2, <1>3, <1>4, <1>5, <1>6

\* Steps of the parser that make no error neither doom the call nor save it.
LEMMA QuietTells ==
    ASSUME TellInv, phase = "parse", phase' = "parse",
           UNCHANGED <<wants, format, error, made, refused>>,
           Doomed(control', frames') <=> Doomed(control, frames)
    PROVE  TellInv'
BY DEF TellInv

LEMMA CallTells ==
    ASSUME IInv, TellInv, CallCached \/ CallLeaf \/ CallContainer \/ ParseNext
    PROVE  TellInv'
<1>1. /\ phase = "parse" /\ phase' = "parse" /\ control.op # "return"
      /\ UNCHANGED <<wants, format, error, made, refused>>
  BY DEF CallCached, CallLeaf, CallContainer, ParseNext, Fresh, Calling, Looping, call, outcome
<1>2. CASE CallCached \/ CallLeaf \/ ParseNext
  <2>1. frames' = frames /\ (control'.op = "return" => control'.arg # NULL)
    <3>1. CASE CallCached \/ CallLeaf
      <4>1. /\ frames' = frames /\ control' = [op |-> "return", arg |-> control.arg]
            /\ control.arg \in cache \/ control.arg \in Numbers
        BY <3>1 DEF CallCached, CallLeaf, Fresh, Arg, Return
      <4>2. control.arg # NULL
        BY <4>1, Facts DEF IInv, CountedOK
      <4>. QED BY <4>1, <4>2
    <3>2. CASE ParseNext
      BY <3>2 DEF ParseNext, Call
    <3>. QED BY <1>2, <3>1, <3>2
  <2>2. Doomed(control', frames') <=> Doomed(control, frames)
    BY <1>1, <2>1 DEF Doomed
  <2>. QED BY <1>1, <2>2, QuietTells
<1>3. CASE CallContainer
  <2>. DEFINE f == [object |-> control.arg, at |-> 1, key |-> NULL, onValue |-> FALSE]
  <2>1. frames' = Append(frames, f) /\ control'.op = "loop" /\ ~Fails(f) /\ f \in Activation(doc)
    BY <1>3, Facts DEF CallContainer, Fresh, Arg, Fails, Activation
  <2>. HIDE DEF f
  <2>2. SomeFails(frames') <=> SomeFails(frames)
    BY <2>1, PushFails DEF IInv, StackOK
  <2>3. Doomed(control', frames') <=> Doomed(control, frames)
    BY <1>1, <2>1, <2>2 DEF Doomed
  <2>. QED BY <1>1, <2>3, QuietTells
<1>. QED BY <1>2, <1>3

LEMMA KeepTells ==
    ASSUME IInv, TellInv, KeepElement \/ KeepKey \/ KeepPair
    PROVE  TellInv'
<1>1. /\ phase = "parse" /\ phase' = "parse" /\ control.op = "return" /\ frames # <<>>
      /\ UNCHANGED <<wants, format, error, made, refused>>
  BY DEF KeepElement, KeepKey, KeepPair, Returned, call, outcome
<1>2. PICK f : /\ frames' = [frames EXCEPT ![Len(frames)] = f] /\ control'.op # "return"
               /\ Fails(Top) => Fails(f)
               /\ Fails(f) <=> Fails(Top) \/ control.arg = NULL
  <2>1. Top \in Activation(doc)
    BY <1>1, TopIs
  <2>2. CASE KeepElement
    <3>. DEFINE f == [Top EXCEPT !.at = @ + 1]
    <3>1. /\ frames' = [frames EXCEPT ![Len(frames)] = f] /\ control'.op = "loop"
          /\ control.arg # NULL
      BY <2>2 DEF KeepElement, SetTop, Arg
    <3>2. f.onValue = Top.onValue /\ f.key = Top.key
      BY <2>1 DEF Activation
    <3>. HIDE DEF f
    <3>. QED BY <3>1, <3>2 DEF Fails
  <2>3. CASE KeepKey
    <3>. DEFINE f == [Top EXCEPT !.key = control.arg, !.onValue = TRUE]
    <3>1. /\ frames' = [frames EXCEPT ![Len(frames)] = f] /\ control'.op = "call"
          /\ ~Top.onValue
      BY <2>3 DEF KeepKey, SetTop, Arg, Call
    <3>2. f.onValue /\ f.key = control.arg
      BY <2>1 DEF Activation
    <3>. HIDE DEF f
    <3>. QED BY <3>1, <3>2 DEF Fails
  <2>4. CASE KeepPair
    <3>. DEFINE f == [Top EXCEPT !.at = @ + 1, !.key = NULL, !.onValue = FALSE]
    <3>1. /\ frames' = [frames EXCEPT ![Len(frames)] = f] /\ control'.op = "loop"
          /\ control.arg # NULL /\ Top.key # NULL
      BY <2>4 DEF KeepPair, PairIsGood, SetTop, Arg
    <3>2. ~f.onValue
      BY <2>1 DEF Activation
    <3>. HIDE DEF f
    <3>. QED BY <3>1, <3>2 DEF Fails
  <2>. QED BY <2>2, <2>3, <2>4
<1>3. SomeFails(frames') <=> SomeFails(frames) \/ Fails(f)
  <2>1. frames \in Seq(Activation(doc)) /\ Len(frames) # 0 /\ Top = frames[Len(frames)]
    BY <1>1, TopIs DEF IInv, StackOK
  <2>2. frames \in Seq(Activation(doc) \cup {f}) /\ f \in Activation(doc) \cup {f}
    <3>1. \A k \in DOMAIN frames : frames[k] \in Activation(doc) \cup {f}
      BY <2>1, SeqIs
    <3>. QED BY <2>1, <3>1, SeqInto
  <2>3. Fails(frames[Len(frames)]) => Fails(f)
    BY <1>2, <2>1
  <2>. QED BY <1>2, <2>1, <2>2, <2>3, TopFails
<1>4. Fails(Top) => SomeFails(frames)
  BY <1>1, TopIs DEF SomeFails
<1>5. Doomed(control', frames') <=> Doomed(control, frames)
  BY <1>1, <1>2, <1>3, <1>4 DEF Doomed
<1>. QED BY <1>1, <1>5, QuietTells

LEMMA FailTells ==
    ASSUME IInv, TellInv, CallRefuses \/ CallFails \/ ContainerFails \/ ContainerNoMemory
    PROVE  TellInv'
<1>1. /\ phase = "parse" /\ phase' = "parse" /\ UNCHANGED <<wants, format>>
      /\ control' = [op |-> "return", arg |-> NULL]
      /\ \E out \in BOOLEAN : SetError(out)
  <2>1. CASE CallFails
    <3>1. SetError(Entry(Arg).kind # "corrupt") /\ (Entry(Arg).kind # "corrupt") \in BOOLEAN
      BY <2>1 DEF CallFails
    <3>2. \E out \in BOOLEAN : SetError(out)
      BY <3>1
    <3>. QED BY <2>1, <3>2 DEF CallFails, Fresh, Calling, Return, call
  <2>2. CASE CallRefuses \/ ContainerFails \/ ContainerNoMemory
    BY <2>2 DEF CallRefuses, ContainerFails, ContainerNoMemory, Calling, Returned, Looping,
                Return, call
  <2>. QED BY <2>1, <2>2
<1>2. /\ made' = (IF error' = "read" THEN 1 ELSE 0)
      /\ error' # "stale" /\ (wants => error' = "read" \/ refused')
  BY <1>1, ErrorTold
<1>3. Doomed(control', frames')
  BY <1>1 DEF Doomed
<1>. QED BY <1>1, <1>2, <1>3 DEF TellInv

LEMMA DoneTells ==
    ASSUME IInv, TellInv, ContainerDone \/ ParseFailed \/ ParseDone
    PROVE  TellInv'
<1>1. phase = "parse" /\ result = NULL /\ UNCHANGED <<wants, error, made, refused>>
  BY DEF ContainerDone, Looping, ParseFailed, ParseDone, TopReturned, call, outcome, IInv, CountedOK
<1>2. CASE ContainerDone
  <2>1. /\ phase' = "parse" /\ frames # <<>> /\ control.op = "loop" /\ format' = format
        /\ frames' = Front(frames) /\ control'.op = "return" /\ control'.arg = Top.object
    BY <1>2 DEF ContainerDone, Looping, Leave, Return
  <2>2. Top.object # NULL /\ ~Fails(Top)
    BY <2>1, TopIs, Facts DEF TopOK, Fails
  <2>3. SomeFails(frames') <=> SomeFails(frames)
    <3>1. frames \in Seq(Activation(doc)) /\ Len(frames) # 0 /\ Top = frames[Len(frames)]
      BY <2>1, TopIs DEF IInv, StackOK
    <3>2. ~Fails(frames[Len(frames)])
      BY <2>2, <3>1
    <3>. QED BY <2>1, <3>1, <3>2, PopFails
  <2>4. Doomed(control', frames') <=> Doomed(control, frames)
    BY <2>1, <2>2, <2>3 DEF Doomed
  <2>. QED BY <1>1, <2>1, <2>4, QuietTells
<1>3. CASE ParseFailed
  <2>1. phase' = "cleanup" /\ control.op = "return" /\ control.arg = NULL
        /\ UNCHANGED <<format, result>>
    BY <1>3 DEF ParseFailed, TopReturned, Arg
  <2>2. Doomed(control, frames)
    BY <2>1 DEF Doomed
  <2>. QED BY <1>1, <2>1, <2>2 DEF TellInv
<1>4. CASE ParseDone
  <2>1. /\ phase' = "cleanup" /\ frames = <<>> /\ control.arg # NULL
        /\ format' = "binary" /\ result' = control.arg
    BY <1>4 DEF ParseDone, TopReturned, Arg
  <2>2. ~Doomed(control, frames)
    BY <2>1 DEF Doomed, SomeFails
  <2>. QED BY <1>1, <2>1, <2>2 DEF TellInv
<1>. QED BY <1>2, <1>3, <1>4

LEMMA StartTells == Start => TellInv
BY DEF Start, TellInv

LEMMA NextTells == IInv /\ TellInv /\ [Next]_vars => TellInv'
<1>. SUFFICES ASSUME IInv, TellInv, [Next]_vars PROVE TellInv'
  OBVIOUS
<1>1. CASE UNCHANGED vars
  <2>1. UNCHANGED <<wants, phase, frames, control, format, error, made, refused, result>>
    BY <1>1 DEF vars
  <2>. QED BY <2>1 DEF TellInv
<1>. QED BY <1>1, PhaseTells, CallTells, KeepTells, FailTells, DoneTells DEF Next

\* CFPropertyListCreateWithData: when it returns, the caller can tell what happened,
\* on every path through the recursion: at most one error is created, a failure
\* leaves it in *error unless memory was short, and a success leaves none.
THEOREM CallerTold == Spec => []CallerCanTell
<1>1. Init => IInv /\ TellInv
  BY InitStarts, StartIInv, StartTells
<1>2. IInv /\ TellInv /\ [Next]_vars => IInv' /\ TellInv'
  BY NextIInv, NextTells
<1>3. IInv /\ TellInv => CallerCanTell
  <2>1. error \in {"none", "stale", "read"} /\ IInv /\ TellInv => CallerCanTell
    BY DEF TellInv, CallerCanTell, Ended
  <2>. QED BY <2>1 DEF IInv, RestOK
<1>. QED BY <1>1, <1>2, <1>3, PTL DEF Spec

-----------------------------------------------------------------------------
(* Sizes in the data, for every width of words and every limit of memory   *)
(* that is small enough: a product or a sum that has wrapped around is too *)
(* large for the allocation that comes before the first element is read.   *)

Stages == {"trailer", "tables", "offsets", "list", "elements", "refused"}

\* What each stage has established, and ReadsInside.
SizesIInv ==
    /\ length \in Lengths /\ stage \in Stages
    /\ stage \in {"tables", "offsets", "list", "elements"} =>
        table \in Trailers /\ TrailerOK(table)
    /\ stage \in {"list", "elements"} => list \in Lists /\ ListOK(list)
    /\ ReadsInside

\* A product grows with its second factor.
LEMMA ProductGrows ==
    ASSUME NEW n \in Nat, NEW a \in Nat, NEW b \in Nat, a <= b
    PROVE  n * a <= n * b /\ n * a \in Nat
<1>1. PICK c \in Nat : b = a + c
  <2>1. b - a \in Nat /\ b = a + (b - a)
    BY SMT
  <2>. QED BY <2>1
<1>2. n * c \in Nat
  BY SMT
<1>3. n * (a + c) = n * a + n * c
  BY SMT
<1>. QED BY <1>1, <1>2, <1>3, SMT

\* Below the size of a word nothing wraps.
LEMMA NoWrap ==
    ASSUME SizesOK, NEW n \in Nat, n < Word
    PROVE  n % Word = n
BY SMT DEF SizesOK

\* With memory for n of the largest size, a product with a smaller size added to
\* a place in the data is exact.
LEMMA SumExact ==
    ASSUME SizesOK, NEW n \in Nat, NEW size \in Nat, NEW most \in Nat, size <= most,
           MayAllocate(n, most),
           NEW place \in Nat, NEW end \in Lengths, place <= end
    PROVE  /\ Product(n, size) = n * size
           /\ Sum(place, Product(n, size)) = place + n * size
           /\ Product(Product(n, size), 2) = 2 * (n * size)
           /\ Sum(place, Product(Product(n, size), 2)) = place + 2 * (n * size)
<1>1. n * size <= MemoryMax /\ n * size \in Nat
  <2>1. n * size <= n * most /\ n * size \in Nat
    BY ProductGrows
  <2>2. n * most <= MemoryMax /\ n * most \in Nat
    BY ProductGrows DEF MayAllocate
  <2>. QED BY <2>1, <2>2, SMT DEF SizesOK
<1>2. end \in Nat /\ MemoryMax \in Nat /\ Word \in Nat /\ 2 * MemoryMax + end < Word
  BY SMT DEF SizesOK
<1>3. PICK m \in Nat : m = n * size
  BY <1>1
<1>4. m < Word /\ 2 * m < Word /\ place + m < Word /\ place + 2 * m < Word
  BY <1>1, <1>2, <1>3, SMT
<1>5. Product(n, size) = m
  BY <1>3, <1>4, NoWrap, SMT DEF Product
<1>6. Product(m, 2) = 2 * m /\ m * 2 = 2 * m
  <2>1. m * 2 = 2 * m /\ 2 * m \in Nat
    BY SMT
  <2>. QED BY <2>1, <1>4, NoWrap, SMT DEF Product
<1>7. Sum(place, m) = place + m /\ Sum(place, 2 * m) = place + 2 * m
  BY <1>4, NoWrap, SMT DEF Sum
<1>. QED BY <1>3, <1>5, <1>6, <1>7

-----------------------------------------------------------------------------
(* The invariant.                                                          *)

\* The widths, the lengths and what is read as a table or a list are numbers.
LEMMA SizeTypes ==
    ASSUME SizesOK, length \in Lengths
    PROVE  /\ length \in Nat /\ TrailerSize \in Nat /\ HeaderSize \in Nat
           /\ \A t \in Trailers : TrailerOK(t) =>
                /\ t.numObjects \in Nat /\ t.offsetTableOffset \in Nat
                /\ t.offsetIntSize \in Nat /\ t.offsetIntSize <= PointerSize
                /\ t.objectRefSize \in Nat /\ t.objectRefSize <= PointerSize
           /\ PointerSize \in Nat /\ UnitSize \in Nat
<1>1. length \in Nat /\ TrailerSize \in Nat /\ HeaderSize \in Nat
      /\ PointerSize \in Nat /\ UnitSize \in Nat /\ Word \in Nat
  BY SMT DEF SizesOK
<1>2. ASSUME NEW t \in Trailers, TrailerOK(t)
      PROVE  /\ t.numObjects \in Nat /\ t.offsetTableOffset \in Nat
             /\ t.offsetIntSize \in Nat /\ t.offsetIntSize <= PointerSize
             /\ t.objectRefSize \in Nat /\ t.objectRefSize <= PointerSize
  <2>1. t.numObjects \in 0..(Word - 1) /\ t.offsetTableOffset \in 0..(length + 1) \cup {Word - 1}
    BY SMT DEF Trailers
  <2>2. t.offsetIntSize \in Widths /\ t.objectRefSize \in Widths
    BY <1>2 DEF TrailerOK
  <2>3. \A w \in Widths : w \in Nat /\ w <= PointerSize
    BY SMT DEF SizesOK
  <2>4. Word > 0
    BY SMT DEF SizesOK
  <2>. QED BY <1>1, <2>1, <2>2, <2>3, <2>4, SMT
<1>. QED BY <1>1, <1>2

\* The table is inside the data once its memory is there.
LEMMA TableInside ==
    ASSUME SizesOK, length \in Lengths, NEW t \in Trailers, TrailerOK(t),
           MayAllocate(t.numObjects, PointerSize)
    PROVE  t.offsetTableOffset + t.numObjects * t.offsetIntSize <= length - TrailerSize
<1>1. t.offsetTableOffset <= length
  BY SizeTypes, SMT DEF TrailerOK
<1>2. Sum(t.offsetTableOffset, Product(t.numObjects, t.offsetIntSize))
      = t.offsetTableOffset + t.numObjects * t.offsetIntSize
  BY <1>1, SizeTypes, SumExact
<1>. QED BY <1>2 DEF TrailerOK

\* So are the elements of a list.
LEMMA ListInside ==
    ASSUME SizesOK, length \in Lengths, table \in Trailers, TrailerOK(table),
           NEW l \in Lists, ListOK(l),
           l.kind \in {"array", "dictionary"} => MayAllocate(l.count, PointerSize),
           l.kind = "units" => MayAllocate(l.count, UnitSize)
    PROVE  l.start + l.count * (CASE l.kind = "array" -> table.objectRefSize
                                  [] l.kind = "dictionary" -> 2 * table.objectRefSize
                                  [] l.kind = "bytes" -> 1
                                  [] l.kind = "units" -> UnitSize) <= length
<1>1. /\ l.count \in 0..(Word - 1)
      /\ l.start \in {o + h : o \in HeaderSize..(table.offsetTableOffset - 1), h \in ListHeaders}
      /\ l.kind \in {"array", "dictionary", "bytes", "units"}
  BY SMT DEF Lists
<1>2. l.count \in Nat /\ l.start \in Nat /\ l.start <= length
  <2>1. ListHeaders \subseteq Nat /\ HeaderSize \in Nat /\ Word \in Nat
    BY SMT DEF SizesOK
  <2>2. l.start \in Nat
    BY <1>1, <2>1, SMT
  <2>. QED BY <1>1, <2>1, <2>2, SMT DEF ListOK, ListSize
<1>3. /\ length \in Nat /\ PointerSize \in Nat /\ UnitSize \in Nat
      /\ table.objectRefSize \in Nat /\ table.objectRefSize <= PointerSize
  BY SizeTypes
<1>4. CASE l.kind = "array"
  <2>1. Sum(l.start, Product(l.count, table.objectRefSize))
        = l.start + l.count * table.objectRefSize
    BY <1>2, <1>3, <1>4, SumExact
  <2>. QED BY <1>4, <2>1 DEF ListOK, ListSize
<1>5. CASE l.kind = "dictionary"
  <2>1. Sum(l.start, Product(Product(l.count, table.objectRefSize), 2))
        = l.start + 2 * (l.count * table.objectRefSize)
    BY <1>2, <1>3, <1>5, SumExact
  <2>2. 2 * (l.count * table.objectRefSize) = l.count * (2 * table.objectRefSize)
    BY <1>2, <1>3, SMT
  <2>. QED BY <1>5, <2>1, <2>2 DEF ListOK, ListSize
<1>6. CASE l.kind = "units"
  <2>1. Sum(l.start, Product(l.count, UnitSize)) = l.start + l.count * UnitSize
    BY <1>2, <1>3, <1>6, SumExact
  <2>. QED BY <1>6, <2>1 DEF ListOK, ListSize
<1>7. CASE l.kind = "bytes"
  <2>1. Sum(l.start, l.count) <= length /\ l.count <= LongMax
    BY <1>7 DEF ListOK, ListSize
  <2>2. Word \in Nat /\ length <= LongMax /\ 2 * LongMax < Word /\ LongMax \in Int
    BY SMT DEF SizesOK, LongMax
  <2>3. Sum(l.start, l.count) = l.start + l.count
    BY <1>2, <1>3, <2>1, <2>2, NoWrap, SMT DEF Sum
  <2>. QED BY <1>2, <1>7, <2>1, <2>3, SMT
<1>. QED BY <1>1, <1>4, <1>5, <1>6, <1>7

-----------------------------------------------------------------------------
(* Every step keeps the invariant.                                         *)

LEMMA InitSizesIInv == SizesOK /\ InitSizes => SizesIInv
BY DEF InitSizes, SizesIInv, Stages, ReadsInside

LEMMA NextSizesIInv == SizesOK /\ SizesIInv /\ [NextSizes]_sizeVars => SizesIInv'
<1>. SUFFICES ASSUME SizesOK, SizesIInv, [NextSizes]_sizeVars
              PROVE  SizesIInv'
  OBVIOUS
<1>1. length' = length
  BY DEF NextSizes, sizeVars, ReadTrailer, AllocateTables, ReadList, AllocateElements, Refuse
<1>2. CASE Refuse
  BY <1>1, <1>2 DEF Refuse, SizesIInv, Stages, ReadsInside
<1>3. ASSUME ReadTrailer, ~Refuse
      PROVE  SizesIInv'
  <2>1. table' \in Trailers /\ TrailerOK(table') /\ stage' = "tables"
    BY <1>3 DEF ReadTrailer
  <2>2. table' \in Trailers' /\ TrailerOK(table)'
    BY <1>1, <2>1 DEF Trailers, TrailerOK, Sum, Product
  <2>. QED BY <1>1, <2>1, <2>2 DEF SizesIInv, Stages, ReadsInside
<1>4. ASSUME AllocateTables, ~Refuse
      PROVE  SizesIInv'
  <2>1. /\ stage = "tables" /\ stage' = "offsets" /\ UNCHANGED <<length, table, list>>
        /\ MayAllocate(table.numObjects, PointerSize)
    BY <1>4 DEF AllocateTables
  <2>2. table \in Trailers /\ TrailerOK(table) /\ length \in Lengths
    BY <2>1 DEF SizesIInv
  <2>3. table.offsetTableOffset + table.numObjects * table.offsetIntSize <= length - TrailerSize
    BY <2>1, <2>2, TableInside
  <2>4. ReadsInside'
    BY <2>1, <2>3 DEF ReadsInside
  <2>5. table' \in Trailers' /\ TrailerOK(table)'
    BY <2>1, <2>2 DEF Trailers, TrailerOK, Sum, Product
  <2>. QED BY <2>1, <2>2, <2>4, <2>5 DEF SizesIInv, Stages
<1>5. ASSUME ReadList, ~Refuse
      PROVE  SizesIInv'
  <2>1. /\ stage = "offsets" /\ stage' = "list" /\ UNCHANGED <<length, table>>
        /\ list' \in Lists /\ ListOK(list')
    BY <1>5 DEF ReadList
  <2>2. list' \in Lists' /\ ListOK(list)'
    BY <2>1 DEF Lists, ListOK, ListSize, Sum, Product, LongMax
  <2>3. table' \in Trailers' /\ TrailerOK(table)'
    BY <2>1 DEF SizesIInv, Trailers, TrailerOK, Sum, Product
  <2>4. ReadsInside'
    BY <2>1 DEF SizesIInv, ReadsInside
  <2>. QED BY <2>1, <2>2, <2>3, <2>4 DEF SizesIInv, Stages
<1>6. ASSUME AllocateElements, ~Refuse
      PROVE  SizesIInv'
  <2>1. /\ stage = "list" /\ stage' = "elements" /\ UNCHANGED <<length, table, list>>
        /\ CASE list.kind \in {"array", "dictionary"} -> MayAllocate(list.count, PointerSize)
             [] list.kind = "units" -> MayAllocate(list.count, UnitSize)
             [] list.kind = "bytes" -> TRUE
    BY <1>6 DEF AllocateElements
  <2>2. /\ table \in Trailers /\ TrailerOK(table) /\ length \in Lengths
        /\ list \in Lists /\ ListOK(list) /\ ReadsInside
    BY <2>1 DEF SizesIInv
  <2>3. /\ list.kind \in {"array", "dictionary"} => MayAllocate(list.count, PointerSize)
        /\ list.kind = "units" => MayAllocate(list.count, UnitSize)
    BY <2>1
  <2>4. ReadsInside'
    <3>1. list.start + list.count * (CASE list.kind = "array" -> table.objectRefSize
                                       [] list.kind = "dictionary" -> 2 * table.objectRefSize
                                       [] list.kind = "bytes" -> 1
                                       [] list.kind = "units" -> UnitSize) <= length
      BY <2>2, <2>3, ListInside
    <3>2. table.offsetTableOffset + table.numObjects * table.offsetIntSize
          <= length - TrailerSize
      BY <2>1, <2>2 DEF ReadsInside
    <3>. QED BY <2>1, <3>1, <3>2 DEF ReadsInside
  <2>5. /\ table' \in Trailers' /\ TrailerOK(table)' /\ list' \in Lists' /\ ListOK(list)'
    BY <2>1, <2>2 DEF Trailers, TrailerOK, Lists, ListOK, ListSize, Sum, Product, LongMax
  <2>. QED BY <2>1, <2>2, <2>4, <2>5 DEF SizesIInv, Stages
<1>7. CASE UNCHANGED sizeVars
  <2>1. UNCHANGED <<length, table, list, stage>>
    BY <1>7 DEF sizeVars
  <2>. QED BY <2>1 DEF SizesIInv, Trailers, TrailerOK, Lists, ListOK, ListSize, Sum, Product, LongMax,
                       ReadsInside
<1>. QED BY <1>2, <1>3, <1>4, <1>5, <1>6, <1>7 DEF NextSizes

\* __FXBplistParseObjectAtIndex and _FXCFBinaryPListCreateWithData: no size in the
\* data, however large, makes the parser read beyond the data's end.
THEOREM Inside ==
    ASSUME SizesOK
    PROVE  SpecSizes => []ReadsInside
<1>1. InitSizes => SizesIInv
  BY InitSizesIInv
<1>2. SizesIInv /\ [NextSizes]_sizeVars => SizesIInv'
  BY NextSizesIInv
<1>3. SizesIInv => ReadsInside
  BY DEF SizesIInv
<1>. QED BY <1>1, <1>2, <1>3, PTL DEF SpecSizes

-----------------------------------------------------------------------------
(* Objects that contain others.  An object is added to a closed set only   *)
(* after all that it contains, so none ever gets inside itself.            *)

\* No object of S is inside itself, seen from the other end: of any of them, one
\* is in no other.
Sourced(to, S) == \A T \in SUBSET S : T # {} => \E o \in T : \A p \in T : o \notin to[p]

\* Closed and without cycles, from either end.
Layered(to, S) == Closed(to, S) /\ Acyclic(to, S) /\ Sourced(to, S)

LEMMA LayeredEmpty == ASSUME NEW to PROVE Layered(to, {})
BY DEF Layered, Closed, Acyclic, Sourced

LEMMA LayeredAdd ==
    ASSUME NEW to, NEW S, Layered(to, S), NEW x, x \notin S, to[x] \subseteq S
    PROVE  Layered(to, S \cup {x})
<1>. DEFINE Sx == S \cup {x}
<1>1. Closed(to, Sx)
  BY DEF Layered, Closed
<1>2. \A o \in Sx : x \notin to[o]
  BY DEF Layered, Closed
<1>3. ASSUME NEW T \in SUBSET Sx, T # {} PROVE \E o \in T : to[o] \cap T = {}
  <2>1. CASE T \cap S = {}
    <3>1. T = {x}
      BY <1>3, <2>1
    <3>. QED BY <1>2, <3>1
  <2>2. CASE T \cap S # {}
    <3>1. PICK o \in T \cap S : to[o] \cap (T \cap S) = {}
      BY <2>2 DEF Layered, Acyclic
    <3>. QED BY <1>2, <3>1
  <2>. QED BY <2>1, <2>2
<1>4. ASSUME NEW T \in SUBSET Sx, T # {} PROVE \E o \in T : \A p \in T : o \notin to[p]
  <2>1. CASE x \in T
    BY <1>2, <2>1
  <2>2. CASE x \notin T
    <3>1. T \in SUBSET S
      BY <2>2
    <3>. QED BY <1>4, <3>1 DEF Layered, Sourced
  <2>. QED BY <2>1, <2>2
<1>. QED BY <1>1, <1>3, <1>4 DEF Layered, Acyclic, Sourced

\* A path of objects that each contain the next does not come back to itself.
LEMMA NoWayBack ==
    ASSUME NEW to, NEW S, Acyclic(to, S), NEW n \in Nat \ {0}, NEW k \in 1..n,
           NEW path, \A j \in 1..n : path[j] \in S,
           \A j \in 1..(n - 1) : path[j + 1] \in to[path[j]]
    PROVE  path[k] \notin to[path[n]]
<1>. SUFFICES ASSUME path[k] \in to[path[n]] PROVE FALSE
  OBVIOUS
<1>. DEFINE T == {path[j] : j \in k..n}
<1>1. T \in SUBSET S /\ path[k] \in T
  OBVIOUS
<1>2. PICK o \in T : to[o] \cap T = {}
  BY <1>1 DEF Acyclic
<1>3. PICK j \in k..n : o = path[j]
  OBVIOUS
<1>4. CASE j = n
  BY <1>1, <1>2, <1>3, <1>4
<1>5. CASE j # n
  <2>1. j \in 1..(n - 1) /\ j + 1 \in k..n
    BY <1>3, <1>5
  <2>. QED BY <1>2, <1>3, <2>1
<1>. QED BY <1>4, <1>5

\* What can be reached from a member of a closed set is in the set.
LEMMA ReachInside ==
    ASSUME NEW to, NEW N, NEW start \in N, NEW S \in SUBSET N, start \in S, Closed(to, S)
    PROVE  Reach(to, start, N) \subseteq S
BY DEF Reach

LEMMA ReachClosed ==
    ASSUME NEW to, NEW N, NEW start \in N, \A o \in N : to[o] \subseteq N
    PROVE  start \in Reach(to, start, N) /\ Closed(to, Reach(to, start, N))
BY DEF Reach, Closed

\* A part of a set without cycles has none.
LEMMA AcyclicPart ==
    ASSUME NEW to, NEW S, Acyclic(to, S), NEW T \in SUBSET S
    PROVE  Acyclic(to, T)
BY DEF Acyclic

-----------------------------------------------------------------------------
(* What a push, a change of the top and a pop do to a stack.               *)

LEMMA SeqPush ==
    ASSUME NEW X, NEW s \in Seq(X), NEW x \in X
    PROVE  /\ Append(s, x) \in Seq(X) /\ Append(s, x) # <<>>
           /\ Append(s, x)[1] = IF s = <<>> THEN x ELSE s[1]
<1>1. PICK n \in Nat : n = Len(s) /\ (n = 0 <=> s = <<>>)
  BY SeqIs, EmptySeq
<1>2. /\ Append(s, x) \in Seq(X) /\ Len(Append(s, x)) = n + 1
      /\ \A k \in 1..n : Append(s, x)[k] = s[k]
      /\ Append(s, x)[n + 1] = x
  BY <1>1, AppendProperties
<1>3. Append(s, x) # <<>>
  BY <1>1, <1>2, EmptySeq
<1>4. CASE n = 0
  BY <1>1, <1>2, <1>3, <1>4
<1>5. CASE n # 0
  <2>1. 1 \in 1..n
    BY <1>1, <1>5
  <2>. QED BY <1>1, <1>2, <1>3, <1>5, <2>1
<1>. QED BY <1>4, <1>5

LEMMA SeqSetTop ==
    ASSUME NEW X, NEW s \in Seq(X), s # <<>>, NEW x \in X
    PROVE  /\ [s EXCEPT ![Len(s)] = x] \in Seq(X) /\ [s EXCEPT ![Len(s)] = x] # <<>>
           /\ [s EXCEPT ![Len(s)] = x][1] = IF Len(s) = 1 THEN x ELSE s[1]
<1>1. PICK n \in Nat \ {0} : n = Len(s)
  BY SeqIs, EmptySeq
<1>. DEFINE t == [s EXCEPT ![Len(s)] = x]
<1>2. t \in Seq(X) /\ Len(t) = n
  BY <1>1, ExceptSeq
<1>3. t[n] = x /\ \A k \in 1..n : k # n => t[k] = s[k]
  BY <1>1, SeqIs
<1>. HIDE DEF t
<1>4. t # <<>>
  BY <1>1, <1>2, EmptySeq
<1>5. 1 \in 1..n
  BY <1>1
<1>6. t[1] = IF n = 1 THEN x ELSE s[1]
  BY <1>3, <1>5
<1>. QED BY <1>1, <1>2, <1>4, <1>6 DEF t

LEMMA SeqPop ==
    ASSUME NEW X, NEW s \in Seq(X), s # <<>>
    PROVE  /\ Front(s) \in Seq(X)
           /\ Front(s) = <<>> <=> Len(s) = 1
           /\ Front(s) # <<>> => Front(s)[1] = s[1]
<1>1. PICK n \in Nat \ {0} : n = Len(s)
  BY SeqIs, EmptySeq
<1>2. /\ Front(s) \in Seq(X) /\ Len(Front(s)) = n - 1
      /\ \A k \in 1..(n - 1) : Front(s)[k] = s[k]
  BY <1>1, SubSeqProperties DEF Front
<1>3. Front(s) = <<>> <=> n - 1 = 0
  BY <1>2, EmptySeq
<1>4. n - 1 # 0 => 1 \in 1..(n - 1)
  BY <1>1
<1>5. Front(s) # <<>> => Front(s)[1] = s[1]
  BY <1>2, <1>3, <1>4
<1>. QED BY <1>1, <1>2, <1>3, <1>5

-----------------------------------------------------------------------------
(* What has been built: the cache holds sound entries, each with all that  *)
(* it refers to, and the outermost activation is that of the top.          *)

\* The keys of the pairs parsed so far are strings.
Keyed ==
    {f \in Activation(doc) :
        IsDict(doc, f.object) =>
            \A k \in 1..(f.at - 1) : Entry(Entry(f.object).refs[k]).kind = "string"}

\* The entries that make sense.
SoundNumbers == {i \in Numbers : Sound(i)}

\* c: the cache; fr: the activations; res: the result.
Built(c, fr, ct, ph, tb, res) ==
    /\ Layered(RefersTo, c) /\ c \subseteq SoundNumbers
    /\ fr \in Seq(Keyed)
    /\ ph = "parse" =>
        IF fr = <<>> THEN ct.op # "loop" /\ ct.arg \in {doc.top, NULL}
        ELSE fr[1].object = doc.top
    /\ ph \in {"parse", "cleanup"} => doc.trailer /\ doc.offsets
    /\ ph # "parse" => fr = <<>>
    /\ tb => ph \in {"parse", "cleanup"}
    /\ res # NULL => doc.trailer /\ doc.offsets /\ res = doc.top /\ res \in c

BuiltInv == Built(cache, frames, control, phase, tables, result)

LEMMA BuiltKept ==
    ASSUME doc' = doc, Built(cache', frames', control', phase', tables', result')
    PROVE  BuiltInv'
<1>1. Numbers' = Numbers /\ \A i : Entry(i)' = Entry(i)
  BY SameDoc DEF Entry
<1>2. RefersTo' = RefersTo
  BY <1>1 DEF RefersTo
<1>3. SoundNumbers' = SoundNumbers
  BY <1>1 DEF SoundNumbers, Sound, Pairs
<1>4. Keyed' = Keyed
  BY <1>1 DEF Keyed
<1>. QED BY <1>2, <1>3, <1>4 DEF BuiltInv, Built

LEMMA StartBuilt == Start => BuiltInv
<1>. SUFFICES ASSUME Start PROVE BuiltInv
  OBVIOUS
<1>1. <<>> \in Seq(Keyed)
  BY EmptySeq
<1>. QED BY <1>1, LayeredEmpty DEF Start, BuiltInv, Built

\* Steps outside of the recursion.
LEMMA PhaseBuilt ==
    ASSUME IInv, BuiltInv,
           \/ CreateWithDataRefuses \/ CreateWithData \/ LoadRefuses \/ LoadNoMemory \/ Load
           \/ CleanupFree \/ CleanupRelease \/ ParseFailed \/ ParseDone
    PROVE  BuiltInv'
<1>1. UNCHANGED <<doc, frames, cache>>
  BY DEF CreateWithDataRefuses, CreateWithData, LoadRefuses, LoadNoMemory, Load, CleanupFree,
     CleanupRelease, ParseFailed, ParseDone, call, heap
<1>. USE DEF BuiltInv, Built
<1>2. CASE CreateWithDataRefuses \/ CreateWithData
  <2>1. phase = "idle" /\ phase' \in {"rejected", "load"} /\ UNCHANGED <<tables, result>>
    BY <1>2 DEF CreateWithDataRefuses, CreateWithData
  <2>. QED BY <1>1, <2>1, BuiltKept
<1>3. CASE LoadRefuses \/ LoadNoMemory
  <2>1. phase = "load" /\ phase' = "done" /\ UNCHANGED <<tables, result>>
    BY <1>3 DEF LoadRefuses, LoadNoMemory
  <2>. QED BY <1>1, <2>1, BuiltKept
<1>4. CASE Load
  <2>1. /\ phase = "load" /\ phase' = "parse" /\ doc.trailer /\ doc.offsets
        /\ control'.op = "call" /\ control'.arg = doc.top /\ result' = result
    BY <1>4 DEF Load
  <2>. QED BY <1>1, <2>1, BuiltKept
<1>5. CASE CleanupFree \/ CleanupRelease
  <2>1. phase = "cleanup" /\ phase' \in {"cleanup", "done"} /\ UNCHANGED result
        /\ (phase' = "done" => tables' = FALSE)
    BY <1>5 DEF CleanupFree, CleanupRelease
  <2>. QED BY <1>1, <2>1, BuiltKept
<1>6. CASE ParseFailed \/ ParseDone
  <2>1. /\ phase = "parse" /\ phase' = "cleanup" /\ frames = <<>> /\ control.op = "return"
        /\ result' = result \/ (result' = control.arg /\ control.arg # NULL)
    BY <1>6 DEF ParseFailed, ParseDone, TopReturned, Arg
  <2>2. control.arg \in cache \cup {NULL}
    BY <2>1 DEF IInv, StackOK
  <2>. QED BY <1>1, <2>1, <2>2, BuiltKept
<1>. QED BY <1>2, <1>3, <1>4, <1>5, <1>6

\* Steps that only call or return.
LEMMA ControlBuilt ==
    ASSUME IInv, BuiltInv, CallCached \/ CallRefuses \/ CallFails \/ ParseNext
    PROVE  BuiltInv'
<1>1. UNCHANGED <<doc, frames, cache, phase, tables, result>> /\ phase = "parse"
  BY DEF CallCached, CallRefuses, CallFails, ParseNext, Fresh, Calling, Looping, call, heap
<1>2. frames = <<>> => control'.op = "return" /\ control'.arg \in {control.arg, NULL}
  <2>1. CASE CallCached
    BY <2>1 DEF CallCached, Return, Arg
  <2>2. CASE CallRefuses
    BY <2>2 DEF CallRefuses, Return
  <2>3. CASE CallFails
    BY <2>3 DEF CallFails, Return
  <2>4. CASE ParseNext
    BY <2>4 DEF ParseNext, Looping
  <2>. QED BY <2>1, <2>2, <2>3, <2>4
<1>. QED BY <1>1, <1>2, BuiltKept DEF BuiltInv, Built

LEMMA CallLeafBuilt == ASSUME IInv, BuiltInv, CallLeaf PROVE BuiltInv'
<1>. DEFINE o == control.arg
<1>1. /\ phase = "parse" /\ o \in Numbers /\ o \notin cache
      /\ Entry(o).kind \in Leaves
      /\ control' = [op |-> "return", arg |-> o] /\ cache' = cache \cup {o}
      /\ UNCHANGED <<doc, phase, frames, tables, result>>
  BY DEF CallLeaf, Fresh, Calling, Arg, Return, call, outcome
<1>2. frames = <<>> => o \in {doc.top, NULL}
  BY <1>1 DEF BuiltInv, Built
<1>. HIDE DEF o
<1>3. RefersTo[o] = {}
  <2>1. Entry(o).refs = <<>>
    BY <1>1, Facts, ItemIs DEF Leaves, Containers
  <2>. QED BY <1>1, <2>1 DEF RefersTo, ToSet
<1>4. Sound(o)
  BY <1>1 DEF Sound, Leaves
<1>5. Layered(RefersTo, cache \cup {o})
  BY <1>1, <1>3, LayeredAdd DEF BuiltInv, Built
<1>. QED BY <1>1, <1>2, <1>4, <1>5, BuiltKept DEF BuiltInv, Built, SoundNumbers

LEMMA CallContainerBuilt == ASSUME IInv, BuiltInv, CallContainer PROVE BuiltInv'
<1>. DEFINE o == control.arg
            f == [object |-> o, at |-> 1, key |-> NULL, onValue |-> FALSE]
<1>1. /\ phase = "parse" /\ o \in Numbers /\ frames' = Append(frames, f)
      /\ UNCHANGED <<doc, phase, cache, tables, result>>
  BY DEF CallContainer, Fresh, Calling, Arg, call, heap, outcome
<1>2. frames = <<>> => o = doc.top
  BY <1>1, Facts DEF BuiltInv, Built
<1>3. f \in Keyed /\ f.object = o
  BY <1>1, Facts DEF Keyed, Activation
<1>. HIDE DEF o, f
<1>4. /\ frames' \in Seq(Keyed) /\ frames' # <<>>
      /\ frames'[1] = IF frames = <<>> THEN f ELSE frames[1]
  BY <1>1, <1>3, SeqPush DEF BuiltInv, Built
<1>5. frames'[1].object = doc.top
  BY <1>1, <1>2, <1>3, <1>4 DEF BuiltInv, Built
<1>. QED BY <1>1, <1>4, <1>5, BuiltKept DEF BuiltInv, Built

\* The innermost activation goes on.
LEMMA TopBuilt ==
    ASSUME BuiltInv, phase = "parse", frames # <<>>,
           UNCHANGED <<doc, phase, cache, tables, result>>,
           NEW f \in Keyed, frames' = [frames EXCEPT ![Len(frames)] = f],
           f.object = Top.object
    PROVE  BuiltInv'
<1>1. /\ frames' \in Seq(Keyed) /\ frames' # <<>>
      /\ frames'[1] = IF Len(frames) = 1 THEN f ELSE frames[1]
  BY SeqSetTop DEF BuiltInv, Built
<1>2. frames'[1].object = frames[1].object
  BY <1>1 DEF Top, Last
<1>. QED BY <1>1, <1>2, BuiltKept DEF BuiltInv, Built

LEMMA TopKeyed ==
    ASSUME IInv, BuiltInv, frames # <<>>
    PROVE  Top \in Keyed
<1>1. frames \in Seq(Keyed) /\ Len(frames) \in Nat \ {0} /\ Top = frames[Len(frames)]
  BY TopIs DEF BuiltInv, Built
<1>. QED BY <1>1, SeqIs

LEMMA KeepBuilt ==
    ASSUME IInv, BuiltInv, KeepElement \/ KeepKey \/ KeepPair
    PROVE  BuiltInv'
<1>1. /\ phase = "parse" /\ frames # <<>> /\ control.op = "return"
      /\ UNCHANGED <<doc, phase, cache, tables, result>>
  BY DEF KeepElement, KeepKey, KeepPair, Returned, call, heap
<1>2. Top \in Keyed /\ Top \in Activation(doc) /\ Top.at \in Nat \ {0} /\ Top.object \in Numbers
  BY <1>1, TopIs, TopKeyed
<1>3. CASE KeepElement
  <2>. DEFINE f == [Top EXCEPT !.at = @ + 1]
  <2>1. frames' = [frames EXCEPT ![Len(frames)] = f] /\ ~IsDict(doc, Top.object)
    BY <1>1, <1>3, TopIs DEF KeepElement, SetTop
  <2>2. f \in Activation(doc) /\ f.object = Top.object
    BY <1>2 DEF Activation
  <2>. HIDE DEF f
  <2>3. f \in Keyed
    BY <2>1, <2>2 DEF Keyed
  <2>. QED BY <1>1, <2>1, <2>2, <2>3, TopBuilt
<1>4. CASE KeepKey
  <2>. DEFINE f == [Top EXCEPT !.key = control.arg, !.onValue = TRUE]
  <2>1. frames' = [frames EXCEPT ![Len(frames)] = f]
    BY <1>4 DEF KeepKey, SetTop, Arg
  <2>2. control.arg \in Numbered(doc) \cup {NULL}
    BY <1>1, Facts DEF IInv, StackOK, CountedOK
  <2>3. f \in Activation(doc) /\ f.object = Top.object /\ f.at = Top.at
    BY <1>2, <2>2 DEF Activation
  <2>. HIDE DEF f
  <2>4. f \in Keyed
    BY <1>2, <2>3 DEF Keyed
  <2>. QED BY <1>1, <2>1, <2>3, <2>4, TopBuilt
<1>5. CASE KeepPair
  <2>. DEFINE f == [Top EXCEPT !.at = @ + 1, !.key = NULL, !.onValue = FALSE]
  <2>1. /\ frames' = [frames EXCEPT ![Len(frames)] = f] /\ Top.onValue
        /\ Top.key # NULL /\ Entry(Top.key).kind = "string"
    BY <1>5 DEF KeepPair, SetTop, PairIsGood
  <2>2. f \in Activation(doc) /\ f.object = Top.object /\ f.at = Top.at + 1
    BY <1>2, NextPair
  <2>. HIDE DEF f
  <2>3. Top.key = Entry(Top.object).refs[Top.at]
    BY <1>1, <2>1, TopIs, Facts DEF FrameOK
  <2>4. \A k \in 1..(f.at - 1) : k \in 1..(Top.at - 1) \/ k = Top.at
    BY <1>2, <2>2
  <2>5. f \in Keyed
    BY <1>2, <2>1, <2>2, <2>3, <2>4 DEF Keyed
  <2>. QED BY <1>1, <2>1, <2>2, <2>5, TopBuilt
<1>. QED BY <1>3, <1>4, <1>5

LEMMA LeaveBuilt ==
    ASSUME IInv, BuiltInv, phase = "parse", frames # <<>>, frames' = Front(frames),
           UNCHANGED <<doc, phase, tables, result>>, control'.op = "return",
           \/ cache' = cache /\ control'.arg = NULL
           \/ /\ cache' = cache \cup {Top.object} /\ control'.arg = Top.object
              /\ Layered(RefersTo, cache') /\ Sound(Top.object)
    PROVE  BuiltInv'
<1>1. Top.object \in Numbers /\ Top = frames[Len(frames)]
  BY TopIs
<1>2. /\ frames' \in Seq(Keyed)
      /\ frames' = <<>> <=> Len(frames) = 1
      /\ frames' # <<>> => frames'[1] = frames[1]
  BY SeqPop DEF BuiltInv, Built
<1>3. frames[1].object = doc.top
  BY DEF BuiltInv, Built
<1>4. frames' = <<>> => Top.object = doc.top
  BY <1>1, <1>2, <1>3
<1>5. cache' \subseteq SoundNumbers /\ Layered(RefersTo, cache') /\ cache \subseteq cache'
  BY <1>1 DEF BuiltInv, Built, SoundNumbers
<1>. QED BY <1>2, <1>3, <1>4, <1>5, BuiltKept DEF BuiltInv, Built

LEMMA ContainerBuilt ==
    ASSUME IInv, BuiltInv, ContainerFails \/ ContainerNoMemory \/ ContainerDone
    PROVE  BuiltInv'
<1>1. /\ phase = "parse" /\ frames # <<>> /\ frames' = Front(frames)
      /\ UNCHANGED <<doc, phase, tables, result>>
  BY DEF ContainerFails, ContainerNoMemory, ContainerDone, Looping, Returned, Leave, call
<1>2. CASE ContainerFails \/ ContainerNoMemory
  <2>1. cache' = cache /\ control'.op = "return" /\ control'.arg = NULL
    <3>1. CASE ContainerFails
      BY <3>1 DEF ContainerFails, Return, heap
    <3>2. CASE ContainerNoMemory
      BY <3>2 DEF ContainerNoMemory, Return, heap
    <3>. QED BY <1>2, <3>1, <3>2
  <2>. QED BY <1>1, <2>1, LeaveBuilt
<1>3. CASE ContainerDone
  <2>. DEFINE o == Top.object
  <2>1. /\ cache' = cache \cup {o} /\ control'.op = "return" /\ control'.arg = o
        /\ Top.at > Count
    BY <1>3 DEF ContainerDone, Return
  <2>2. /\ o \in Numbers /\ Top.at \in Nat \ {0} /\ Count = Rounds(doc, o)
        /\ Item(doc, o).kind \in Containers /\ Count \in Nat
    BY <1>1, TopIs, Facts, ItemIs DEF FrameOK
  <2>3. ~(Top.at <= Count)
    BY <2>1, <2>2
  <2>4. RefersTo[o] \subseteq cache
    <3>1. \A l \in DOMAIN Entry(o).refs : Entry(o).refs[l] \in cache
      BY <1>1, <2>3, FinishedRefs
    <3>2. ToSet(Entry(o).refs) \subseteq cache
      BY <3>1 DEF ToSet
    <3>. QED BY <2>2, <3>2 DEF RefersTo
  <2>5. o \notin cache
    <3>1. /\ inProgress = {frames[k].object : k \in 1..Len(frames)}
          /\ inProgress \cap cache = {}
      BY DEF IInv, StackOK
    <3>2. Len(frames) \in 1..Len(frames) /\ o = frames[Len(frames)].object
      BY <1>1, TopIs
    <3>. QED BY <3>1, <3>2
  <2>6. Layered(RefersTo, cache \cup {o})
    BY <2>4, <2>5, LayeredAdd DEF BuiltInv, Built
  <2>7. Sound(o)
    <3>1. Entry(o).kind # "corrupt"
      BY <2>2, Facts DEF Containers
    <3>2. ASSUME Entry(o).kind = "dictionary", NEW k \in 1..Pairs(o)
          PROVE  Entry(Entry(o).refs[k]).kind = "string"
      <4>0. Entry(o) = Item(doc, o)
        BY Facts
      <4>1. IsDict(doc, o) /\ Pairs(o) = Count
        BY <2>2, <3>2, <4>0 DEF IsDict, Pairs, Rounds, Half
      <4>2. k \in 1..(Top.at - 1)
        BY <2>2, <2>3, <4>1
      <4>3. Top \in Keyed
        BY <1>1, TopKeyed
      <4>. QED BY <4>1, <4>2, <4>3 DEF Keyed
    <3>. QED BY <3>1, <3>2 DEF Sound
  <2>. QED BY <1>1, <2>1, <2>6, <2>7, LeaveBuilt
<1>. QED BY <1>2, <1>3

LEMMA NextBuilt == IInv /\ BuiltInv /\ [Next]_vars => BuiltInv'
<1>. SUFFICES ASSUME IInv, BuiltInv, [Next]_vars PROVE BuiltInv'
  OBVIOUS
<1>1. CASE UNCHANGED vars
  <2>1. UNCHANGED <<doc, cache, frames, control, phase, tables, result>>
    BY <1>1 DEF vars
  <2>. QED BY <2>1, BuiltKept DEF BuiltInv
<1>. QED BY <1>1, PhaseBuilt, ControlBuilt, CallLeafBuilt, CallContainerBuilt, KeepBuilt,
            ContainerBuilt DEF Next

\* What is returned comes from a document as it should be.
LEMMA BuiltRejects == IInv /\ BuiltInv => RejectsOthers
<1>. SUFFICES ASSUME IInv, BuiltInv, result # NULL PROVE WellFormed
  BY DEF RejectsOthers
<1>1. cache \in SUBSET Numbers /\ doc.top \in cache /\ \A i \in cache : Sound(i)
  BY DEF BuiltInv, Built, SoundNumbers
<1>. QED BY <1>1 DEF BuiltInv, Built, Layered, WellFormed

\* What an activation follows is something that its object refers to.
LEMMA AskedIs ==
    ASSUME IInv, NEW f \in Activation(doc), f.at <= Rounds(doc, f.object)
    PROVE  Asked(doc, f) \in RefersTo[f.object]
<1>1. PICK x \in Numbered(doc), a \in Nat \ {0} :
          /\ x = f.object /\ a = f.at /\ f.onValue \in BOOLEAN
  BY DEF Activation
<1>2. PICK l \in Nat, h \in Nat :
          /\ l = Len(Item(doc, x).refs) /\ h = Half(doc, x)
          /\ DOMAIN Item(doc, x).refs = 1..l
          /\ Rounds(doc, x) = IF IsDict(doc, x) THEN h ELSE l
          /\ IsDict(doc, x) => l = h + h
  BY <1>1, Facts, ItemIs DEF Rounds
<1>3. \E m \in 1..l : Asked(doc, f) = Item(doc, x).refs[m]
  <2>1. CASE IsDict(doc, x) /\ f.onValue
    <3>1. h + a \in 1..l /\ Asked(doc, f) = Item(doc, x).refs[h + a]
      BY <1>1, <1>2, <2>1 DEF Asked
    <3>. QED BY <3>1
  <2>2. CASE ~(IsDict(doc, x) /\ f.onValue)
    <3>1. 0 + a \in 1..l /\ Asked(doc, f) = Item(doc, x).refs[0 + a]
      BY <1>1, <1>2, <2>2 DEF Asked
    <3>. QED BY <3>1
  <2>. QED BY <2>1, <2>2
<1>4. x \in Numbers /\ Entry(x) = Item(doc, x)
  BY <1>1, Facts
<1>5. Asked(doc, f) \in ToSet(Entry(x).refs)
  BY <1>2, <1>3, <1>4 DEF ToSet
<1>. QED BY <1>1, <1>4, <1>5 DEF RefersTo

\* So the activations are a path.
LEMMA PathIs ==
    ASSUME IInv
    PROVE  \A k \in 1..(Len(frames) - 1) : frames[k + 1].object \in RefersTo[frames[k].object]
<1>1. PICK n \in Nat : n = Len(frames) /\ DOMAIN frames = 1..n
  BY SeqIs DEF IInv, StackOK
<1>. SUFFICES ASSUME NEW k \in 1..(n - 1)
              PROVE  frames[k + 1].object \in RefersTo[frames[k].object]
  BY <1>1
<1>2. k \in 1..n
  BY <1>1
<1>3. /\ frames[k].at <= Rounds(doc, frames[k].object)
      /\ Asked(doc, frames[k]) = frames[k + 1].object
      /\ frames[k] \in Activation(doc)
  BY <1>1, <1>2, SeqIs DEF IInv, StackOK
<1>. QED BY <1>3, AskedIs

-----------------------------------------------------------------------------
(* A well-formed document, as long as no allocation fails: the parser is   *)
(* only ever asked for entries of the set that shows the document to be    *)
(* well-formed, and makes an object of each.                               *)

\* S is a set as WellFormed asks for.
ShowsWellFormed(S) ==
    /\ doc.trailer /\ doc.offsets
    /\ S \in SUBSET Numbers /\ doc.top \in S
    /\ Closed(RefersTo, S) /\ Acyclic(RefersTo, S)
    /\ \A i \in S : Sound(i)

\* The activations on members of S that have not failed to parse a key.
Hopeful(S) == {f \in Activation(doc) : f.object \in S /\ ~Fails(f)}

\* All that is asked for, on the stack or returned is in S; the end is a result.
GoesWell(S, fr, ct, ph, res) ==
    /\ ph \in {"idle", "load"} => fr = <<>>
    /\ ph = "parse" => fr \in Seq(Hopeful(S)) /\ (ct.op # "loop" => ct.arg \in S)
    /\ ph \in {"cleanup", "done"} => res # NULL

\* Unless memory was refused, the call goes well on a well-formed document.
WellInv ==
    \A S : ShowsWellFormed(S) /\ ~refused => GoesWell(S, frames, control, phase, result)

LEMMA WellKept ==
    ASSUME doc' = doc,
           \A S : ShowsWellFormed(S) /\ ~refused' => GoesWell(S, frames', control', phase', result')
    PROVE  WellInv'
<1>1. Numbers' = Numbers /\ \A i : Entry(i)' = Entry(i)
  BY SameDoc DEF Entry
<1>2. RefersTo' = RefersTo
  BY <1>1 DEF RefersTo
<1>3. \A S : ShowsWellFormed(S)' <=> ShowsWellFormed(S)
  BY <1>1, <1>2 DEF ShowsWellFormed, Sound, Pairs
<1>4. \A S : Hopeful(S)' = Hopeful(S)
  BY DEF Hopeful, Activation, Numbered, Fails
<1>. QED BY <1>3, <1>4 DEF WellInv, GoesWell

LEMMA OutOfMemory == ASSUME SetError(TRUE) PROVE refused'
BY Zenon DEF SetError

LEMMA RefusedStays ==
    ASSUME IInv, NEW out \in BOOLEAN, SetError(out), ~refused'
    PROVE  ~refused
<1>1. refused' \in {refused \/ out, TRUE} \/ refused' = (refused \/ out \/ (wants /\ error = "none"))
  BY DEF SetError
<1>. QED BY <1>1, Zenon

LEMMA StartWell == Start => WellInv
BY DEF Start, WellInv, GoesWell

\* A step that only calls or returns, for something that is in S.
LEMMA ControlWell ==
    ASSUME IInv, NEW S, GoesWell(S, frames, control, phase, result),
           phase = "parse", UNCHANGED <<phase, frames>>,
           control'.op # "loop" => control'.arg \in S
    PROVE  GoesWell(S, frames', control', phase', result')
BY DEF GoesWell

LEMMA TopWell ==
    ASSUME IInv, NEW S, ShowsWellFormed(S), GoesWell(S, frames, control, phase, result),
           phase = "parse", phase' = phase, frames # <<>>,
           NEW f \in Hopeful(S), frames' = [frames EXCEPT ![Len(frames)] = f],
           control'.op # "loop" => control'.arg \in S
    PROVE  GoesWell(S, frames', control', phase', result')
<1>1. frames' \in Seq(Hopeful(S))
  BY SeqSetTop DEF GoesWell
<1>. QED BY <1>1 DEF GoesWell

\* The innermost activation is one of S, and so is what it refers to.
LEMMA TopHopeful ==
    ASSUME IInv, NEW S, ShowsWellFormed(S), GoesWell(S, frames, control, phase, result),
           phase = "parse", frames # <<>>
    PROVE  /\ Top \in Hopeful(S) /\ Top.object \in S /\ ~Fails(Top) /\ Sound(Top.object)
           /\ RefersTo[Top.object] \subseteq S
<1>1. frames \in Seq(Hopeful(S)) /\ Len(frames) \in Nat \ {0} /\ Top = frames[Len(frames)]
  BY TopIs DEF GoesWell
<1>2. Top \in Hopeful(S)
  BY <1>1, SeqIs
<1>. QED BY <1>2 DEF Hopeful, ShowsWellFormed, Closed

\* No call comes back to an entry in progress.
LEMMA NoCycleHere ==
    ASSUME IInv, NEW S, ShowsWellFormed(S), GoesWell(S, frames, control, phase, result),
           phase = "parse", control.op = "call"
    PROVE  control.arg \in Numbers \ inProgress
<1>1. PICK n \in Nat : n = Len(frames) /\ DOMAIN frames = 1..n
  BY SeqIs DEF IInv, StackOK
<1>2. inProgress = {frames[k].object : k \in 1..n}
  BY <1>1 DEF IInv, StackOK
<1>3. control.arg \in Numbers
  BY DEF GoesWell, ShowsWellFormed
<1>4. ASSUME NEW k \in 1..n, control.arg = frames[k].object PROVE FALSE
  <2>. DEFINE path == [j \in 1..n |-> frames[j].object]
  <2>1. n \in Nat \ {0} /\ frames # <<>>
    BY <1>1, <1>4, EmptySeq
  <2>2. Top = frames[n] /\ Top \in Activation(doc) /\ TopOK(doc, Top, control)
    BY <1>1, <2>1, TopIs
  <2>3. control.arg # NULL /\ control.arg = Asked(doc, Top) /\ Top.at <= Rounds(doc, Top.object)
    BY <1>3, <2>2, Facts DEF TopOK
  <2>4. control.arg \in RefersTo[Top.object]
    BY <2>2, <2>3, AskedIs
  <2>5. \A j \in 1..n : path[j] \in S
    BY <1>1, SeqIs DEF GoesWell, Hopeful
  <2>6. \A j \in 1..(n - 1) : path[j + 1] \in RefersTo[path[j]]
    BY <1>1, PathIs
  <2>7. path[k] = control.arg /\ path[n] = Top.object
    BY <1>4, <2>1, <2>2
  <2>8. Acyclic(RefersTo, S)
    BY DEF ShowsWellFormed
  <2>. HIDE DEF path
  <2>. QED BY <2>1, <2>4, <2>5, <2>6, <2>7, <2>8, NoWayBack
<1>. QED BY <1>2, <1>3, <1>4

LEMMA PhaseWell ==
    ASSUME IInv, WellInv,
           \/ CreateWithDataRefuses \/ CreateWithData \/ LoadRefuses \/ LoadNoMemory \/ Load
           \/ CleanupFree \/ CleanupRelease \/ ParseFailed \/ ParseDone
    PROVE  WellInv'
<1>1. UNCHANGED <<doc, frames>>
  BY DEF CreateWithDataRefuses, CreateWithData, LoadRefuses, LoadNoMemory, Load, CleanupFree,
     CleanupRelease, ParseFailed, ParseDone, call
<1>. SUFFICES ASSUME NEW S, ShowsWellFormed(S), ~refused'
              PROVE  GoesWell(S, frames', control', phase', result')
  BY <1>1, WellKept
<1>2. CASE CreateWithDataRefuses
  <2>1. phase' = "rejected"
    BY <1>2 DEF CreateWithDataRefuses
  <2>. QED BY <2>1 DEF GoesWell
<1>3. CASE CreateWithData
  <2>1. phase = "idle" /\ phase' = "load"
    BY <1>3 DEF CreateWithData
  <2>2. frames = <<>>
    BY <2>1 DEF IInv, RestOK
  <2>. QED BY <1>1, <2>1, <2>2 DEF GoesWell
<1>4. CASE LoadRefuses
  BY <1>4 DEF LoadRefuses, ShowsWellFormed
<1>5. CASE LoadNoMemory
  BY <1>5, OutOfMemory DEF LoadNoMemory
<1>6. CASE Load
  <2>1. phase = "load" /\ phase' = "parse" /\ control'.op = "call" /\ control'.arg = doc.top
    BY <1>6 DEF Load
  <2>2. frames = <<>>
    BY <2>1 DEF IInv, RestOK
  <2>3. <<>> \in Seq(Hopeful(S))
    BY EmptySeq
  <2>. QED BY <1>1, <2>1, <2>2, <2>3 DEF GoesWell, ShowsWellFormed
<1>7. CASE CleanupFree \/ CleanupRelease
  <2>1. phase = "cleanup" /\ phase' \in {"cleanup", "done"} /\ UNCHANGED <<result, refused>>
    BY <1>7 DEF CleanupFree, CleanupRelease, outcome
  <2>2. result # NULL
    BY <2>1 DEF WellInv, GoesWell
  <2>. QED BY <2>1, <2>2 DEF GoesWell
<1>8. CASE ParseFailed
  <2>1. phase = "parse" /\ control.op = "return" /\ control.arg = NULL /\ refused' = refused
    BY <1>8 DEF ParseFailed, TopReturned, Arg, outcome
  <2>2. NULL \in S
    BY <2>1 DEF WellInv, GoesWell
  <2>. QED BY <2>2, Facts DEF ShowsWellFormed
<1>9. CASE ParseDone
  <2>1. phase' = "cleanup" /\ result' # NULL
    BY <1>9 DEF ParseDone
  <2>. QED BY <2>1 DEF GoesWell
<1>. QED BY <1>2, <1>3, <1>4, <1>5, <1>6, <1>7, <1>8, <1>9

LEMMA CallWell ==
    ASSUME IInv, WellInv, CallCached \/ CallRefuses \/ CallLeaf \/ CallFails \/ CallContainer
    PROVE  WellInv'
<1>1. doc' = doc /\ phase = "parse" /\ phase' = phase /\ control.op = "call"
  BY DEF CallCached, CallRefuses, CallLeaf, CallFails, CallContainer, Fresh, Calling, call
<1>. SUFFICES ASSUME NEW S, ShowsWellFormed(S), ~refused'
              PROVE  GoesWell(S, frames', control', phase', result')
  BY <1>1, WellKept
<1>2. ~refused
  <2>1. CASE CallFails
    <3>1. SetError(Entry(Arg).kind # "corrupt") /\ (Entry(Arg).kind # "corrupt") \in BOOLEAN
      BY <2>1 DEF CallFails
    <3>2. \E out \in BOOLEAN : SetError(out)
      BY <3>1
    <3>. QED BY <3>2, RefusedStays
  <2>2. CASE CallRefuses
    BY <2>2, RefusedStays DEF CallRefuses
  <2>3. CASE CallCached \/ CallLeaf \/ CallContainer
    BY <2>3 DEF CallCached, CallLeaf, CallContainer, outcome
  <2>. QED BY <2>1, <2>2, <2>3
<1>3. GoesWell(S, frames, control, phase, result) /\ control.arg \in S
  BY <1>1, <1>2 DEF WellInv, GoesWell
<1>4. control.arg \in Numbers \ inProgress
  BY <1>1, <1>3, NoCycleHere
<1>5. CASE CallCached \/ CallLeaf
  <2>1. control' = [op |-> "return", arg |-> control.arg] /\ frames' = frames
    BY <1>5 DEF CallCached, CallLeaf, Return, Arg
  <2>. QED BY <1>1, <1>3, <2>1, ControlWell
<1>6. CASE CallRefuses
  BY <1>4, <1>6 DEF CallRefuses, Arg
<1>7. CASE CallFails
  <2>1. Entry(control.arg).kind # "corrupt"
    BY <1>3 DEF ShowsWellFormed, Sound
  <2>2. SetError(Entry(Arg).kind # "corrupt") /\ (Entry(Arg).kind # "corrupt") = TRUE
    BY <1>7, <2>1 DEF CallFails, Arg
  <2>3. SetError(TRUE)
    BY <2>2
  <2>. QED BY <2>3, OutOfMemory
<1>8. CASE CallContainer
  <2>. DEFINE f == [object |-> control.arg, at |-> 1, key |-> NULL, onValue |-> FALSE]
  <2>1. frames' = Append(frames, f) /\ control'.op = "loop"
    BY <1>8 DEF CallContainer, Arg
  <2>2. f \in Hopeful(S)
    BY <1>3, <1>4, Facts DEF Hopeful, Activation, Fails
  <2>. HIDE DEF f
  <2>3. frames' \in Seq(Hopeful(S))
    BY <1>1, <1>3, <2>1, <2>2, SeqPush DEF GoesWell
  <2>. QED BY <1>1, <2>1, <2>3 DEF GoesWell
<1>. QED BY <1>5, <1>6, <1>7, <1>8

\* The next reference is one of S.
LEMMA NextWell ==
    ASSUME IInv, NEW S, ShowsWellFormed(S), GoesWell(S, frames, control, phase, result),
           phase = "parse", frames # <<>>, NEW f \in Activation(doc), f.object = Top.object,
           f.at <= Rounds(doc, f.object)
    PROVE  Asked(doc, f) \in S
BY AskedIs, TopHopeful

LEMMA LoopWell ==
    ASSUME IInv, WellInv, ParseNext \/ KeepElement \/ KeepKey \/ KeepPair
    PROVE  WellInv'
<1>1. doc' = doc /\ phase = "parse" /\ phase' = phase /\ frames # <<>> /\ refused' = refused
  BY DEF ParseNext, KeepElement, KeepKey, KeepPair, Looping, Returned, call, outcome
<1>. SUFFICES ASSUME NEW S, ShowsWellFormed(S), ~refused'
              PROVE  GoesWell(S, frames', control', phase', result')
  BY <1>1, WellKept
<1>2. GoesWell(S, frames, control, phase, result)
  BY <1>1 DEF WellInv
<1>3. /\ Top \in Hopeful(S) /\ Top \in Activation(doc) /\ Top.object \in S /\ ~Fails(Top)
      /\ Top.at \in Nat \ {0} /\ Top.onValue \in BOOLEAN
  BY <1>1, <1>2, TopHopeful, TopIs DEF Activation
<1>4. CASE ParseNext
  <2>1. /\ control.op = "loop" /\ Top.at <= Count /\ frames' = frames
        /\ control' = [op |-> "call", arg |-> Refs[Top.at]]
    BY <1>4 DEF ParseNext, Looping, Call
  <2>2. ~Top.onValue /\ Top.at <= Rounds(doc, Top.object)
    BY <1>1, <2>1, TopIs DEF TopOK
  <2>3. Asked(doc, Top) = Refs[Top.at]
    <3>1. 0 + Top.at = Top.at
      BY <1>3
    <3>. QED BY <1>1, <2>2, <3>1, TopIs DEF Asked
  <2>4. Refs[Top.at] \in S
    BY <1>1, <1>2, <1>3, <2>2, <2>3, NextWell
  <2>. QED BY <1>1, <1>2, <2>1, <2>4, ControlWell
<1>5. CASE KeepElement
  <2>. DEFINE f == [Top EXCEPT !.at = @ + 1]
  <2>1. /\ frames' = [frames EXCEPT ![Len(frames)] = f] /\ control'.op = "loop"
    BY <1>5 DEF KeepElement, SetTop
  <2>2. /\ f \in Activation(doc) /\ f.object = Top.object
        /\ f.onValue = Top.onValue /\ f.key = Top.key
    BY <1>3 DEF Activation
  <2>. HIDE DEF f
  <2>3. f \in Hopeful(S)
    BY <1>3, <2>2 DEF Hopeful, Fails
  <2>. QED BY <1>1, <1>2, <2>1, <2>3, TopWell
<1>6. CASE KeepKey
  <2>. DEFINE f == [Top EXCEPT !.key = control.arg, !.onValue = TRUE]
  <2>1. /\ frames' = [frames EXCEPT ![Len(frames)] = f] /\ control.op = "return" /\ IsDictionary
        /\ control' = [op |-> "call", arg |-> Refs[Count + Top.at]]
    BY <1>6 DEF KeepKey, SetTop, Arg, Call, Returned
  <2>2. control.arg \in S /\ control.arg \in Numbered(doc) /\ control.arg # NULL
    BY <1>1, <1>2, <2>1, Facts DEF GoesWell, ShowsWellFormed
  <2>3. f \in Activation(doc) /\ f.object = Top.object /\ f.at = Top.at
        /\ f.key = control.arg /\ f.onValue
    BY <1>3, <2>2 DEF Activation
  <2>. HIDE DEF f
  <2>4. f \in Hopeful(S)
    BY <1>3, <2>2, <2>3 DEF Hopeful, Fails
  <2>5. Top.at <= Rounds(doc, Top.object) /\ IsDict(doc, Top.object)
        /\ Count = Half(doc, Top.object)
    BY <1>1, <2>1, TopIs DEF TopOK, Rounds
  <2>6. Asked(doc, f) = Refs[Count + Top.at]
    BY <1>1, <2>3, <2>5, TopIs DEF Asked
  <2>7. Refs[Count + Top.at] \in S
    BY <1>1, <1>2, <2>3, <2>5, <2>6, NextWell
  <2>. QED BY <1>1, <1>2, <2>1, <2>4, <2>7, TopWell
<1>7. CASE KeepPair
  <2>. DEFINE f == [Top EXCEPT !.at = @ + 1, !.key = NULL, !.onValue = FALSE]
  <2>1. /\ frames' = [frames EXCEPT ![Len(frames)] = f] /\ control'.op = "loop"
    BY <1>7 DEF KeepPair, SetTop
  <2>2. f \in Activation(doc) /\ f.object = Top.object /\ ~f.onValue
    BY <1>3, NextPair
  <2>. HIDE DEF f
  <2>3. f \in Hopeful(S)
    BY <1>3, <2>2 DEF Hopeful, Fails
  <2>. QED BY <1>1, <1>2, <2>1, <2>3, TopWell
<1>. QED BY <1>4, <1>5, <1>6, <1>7

\* No activation fails but for lack of memory.
LEMMA NoFailureHere ==
    ASSUME IInv, NEW S, ShowsWellFormed(S), GoesWell(S, frames, control, phase, result),
           ContainerFails
    PROVE  FALSE
<1>1. phase = "parse" /\ frames # <<>> /\ control.op \in {"loop", "return"}
  BY DEF ContainerFails, Looping, Returned
<1>2. /\ Top \in Activation(doc) /\ Top.object \in S /\ ~Fails(Top) /\ Sound(Top.object)
      /\ RefersTo[Top.object] \subseteq S /\ S \in SUBSET Numbers
      /\ Top.at \in Nat \ {0} /\ Top.object \in Numbers
      /\ FrameOK(doc, cache, Top) /\ TopOK(doc, Top, control)
  BY <1>1, TopHopeful, TopIs DEF ShowsWellFormed
<1>3. control.op = "return" => control.arg \in S /\ control.arg # NULL
  BY <1>1, Facts DEF GoesWell, ShowsWellFormed
<1>4. CASE Returned /\ ~IsDictionary /\ Arg = NULL
  BY <1>3, <1>4 DEF Returned, Arg
<1>5. CASE Returned /\ IsDictionary /\ Top.onValue /\ ~PairIsGood
  <2>1. Top.key # NULL /\ control.arg # NULL
    BY <1>2, <1>3, <1>5 DEF Returned, Fails
  <2>2. Top.key = Entry(Top.object).refs[Top.at] /\ Top.at <= Rounds(doc, Top.object)
    BY <1>2, <1>5, <2>1, Facts DEF FrameOK
  <2>3. IsDict(doc, Top.object) /\ Rounds(doc, Top.object) = Pairs(Top.object)
    BY <1>1, <1>5, TopIs, Facts DEF Rounds, Pairs, Half
  <2>4. Pairs(Top.object) \in Nat
    BY <1>2, <2>3, Facts, ItemIs
  <2>5. Top.at \in 1..Pairs(Top.object)
    BY <1>2, <2>2, <2>3, <2>4
  <2>6. Entry(Top.key).kind = "string"
    BY <1>2, <2>2, <2>3, <2>5, Facts DEF Sound, IsDict
  <2>. QED BY <1>5, <2>1, <2>6 DEF PairIsGood, Arg
<1>6. CASE Looping /\ Top.at <= Count /\ (\E r \in Round : ~InRange(r))
  <2>1. Round \subseteq RefersTo[Top.object]
    <3>1. PICK l \in Nat, h \in Nat :
              /\ l = Len(Refs) /\ h = Half(doc, Top.object)
              /\ DOMAIN Refs = 1..l
              /\ Rounds(doc, Top.object) = IF IsDict(doc, Top.object) THEN h ELSE l
              /\ IsDict(doc, Top.object) => l = h + h
      BY <1>1, <1>2, TopIs, Facts, ItemIs DEF Rounds
    <3>2. Count = Rounds(doc, Top.object) /\ (IsDictionary <=> IsDict(doc, Top.object))
      BY <1>1, TopIs
    <3>3. Top.at \in 1..l /\ (IsDictionary => Count + Top.at \in 1..l)
      BY <1>2, <1>6, <3>1, <3>2
    <3>4. \A m \in 1..l : Refs[m] \in ToSet(Refs)
      BY <3>1 DEF ToSet
    <3>5. ToSet(Refs) = RefersTo[Top.object]
      BY <1>2 DEF RefersTo, Refs
    <3>. QED BY <3>3, <3>4, <3>5 DEF Round
  <2>2. \A r \in Numbers : InRange(r)
    <3>1. NumObjects \in Nat
      BY Facts DEF DocumentOK, NumObjects
    <3>. QED BY <3>1 DEF Numbers, InRange
  <2>. QED BY <1>2, <1>6, <2>1, <2>2
<1>. QED BY <1>4, <1>5, <1>6 DEF ContainerFails

LEMMA LeaveWell ==
    ASSUME IInv, WellInv, ContainerFails \/ ContainerNoMemory \/ ContainerDone
    PROVE  WellInv'
<1>1. /\ doc' = doc /\ phase = "parse" /\ phase' = phase /\ frames # <<>>
      /\ frames' = Front(frames)
  BY DEF ContainerFails, ContainerNoMemory, ContainerDone, Looping, Returned, Leave, call
<1>. SUFFICES ASSUME NEW S, ShowsWellFormed(S), ~refused'
              PROVE  GoesWell(S, frames', control', phase', result')
  BY <1>1, WellKept
<1>2. CASE ContainerFails
  <2>1. ~refused
    BY <1>2, RefusedStays DEF ContainerFails
  <2>. QED BY <1>2, <2>1, NoFailureHere DEF WellInv
<1>3. CASE ContainerNoMemory
  BY <1>3, OutOfMemory DEF ContainerNoMemory
<1>4. CASE ContainerDone
  <2>1. control'.op = "return" /\ control'.arg = Top.object /\ refused' = refused
    BY <1>4 DEF ContainerDone, Return, outcome
  <2>2. GoesWell(S, frames, control, phase, result)
    BY <2>1 DEF WellInv
  <2>3. Top.object \in S
    BY <1>1, <2>2, TopHopeful
  <2>4. frames' \in Seq(Hopeful(S))
    BY <1>1, <2>2, SeqPop DEF GoesWell
  <2>. QED BY <1>1, <2>1, <2>3, <2>4 DEF GoesWell
<1>. QED BY <1>2, <1>3, <1>4

LEMMA NextWellInv == IInv /\ WellInv /\ [Next]_vars => WellInv'
<1>. SUFFICES ASSUME IInv, WellInv, [Next]_vars PROVE WellInv'
  OBVIOUS
<1>1. CASE UNCHANGED vars
  <2>1. UNCHANGED <<doc, refused, frames, control, phase, result>>
    BY <1>1 DEF vars
  <2>. QED BY <2>1, WellKept DEF WellInv
<1>. QED BY <1>1, PhaseWell, CallWell, LoopWell, LeaveWell DEF Next

LEMMA WellAccepts == WellInv => AcceptsWellFormed
BY DEF WellInv, GoesWell, ShowsWellFormed, AcceptsWellFormed, WellFormed

-----------------------------------------------------------------------------
(* What is left when the call returns.                                     *)

\* A reference from something that exists.
LEMMA HeldSome ==
    ASSUME NEW N, IsFiniteSet(N), NEW st \in [N -> Seq(Nat)], NEW L \in SUBSET N, NEW i
    PROVE  /\ Held(st, L, i) \in Nat
           /\ Held(st, L, i) > 0 <=> \E j \in L : i \in ToSet(st[j])
<1>. DEFINE U == UNION {PlacesOf(st, j, i) : j \in L}
<1>1. IsFiniteSet(U) /\ Held(st, L, i) \in Nat
  BY HeldFinite
<1>2. U # {} <=> \E j \in L : i \in ToSet(st[j])
  <2>1. \A j : i \in ToSet(st[j]) <=> At(st[j], i) # {}
    BY DEF At, ToSet
  <2>2. ASSUME NEW j PROVE At(st[j], i) # {} <=> PlacesOf(st, j, i) # {}
    <3>1. PICK S : S = At(st[j], i)
      OBVIOUS
    <3>2. \A k \in S : <<j, k>> \in {j} \X S
      OBVIOUS
    <3>3. \A x \in {j} \X S : x[2] \in S
      OBVIOUS
    <3>4. S # {} <=> {j} \X S # {}
      BY <3>2, <3>3
    <3>. QED BY <3>1, <3>4 DEF PlacesOf
  <2>3. U # {} <=> \E j \in L : PlacesOf(st, j, i) # {}
    OBVIOUS
  <2>. QED BY <2>1, <2>2, <2>3
<1>3. Held(st, L, i) = 0 <=> U = {}
  <2>1. Cardinality(U) = 0 <=> U = {}
    BY <1>1, FS_EmptySet
  <2>. QED BY <2>1 DEF Held
<1>. HIDE DEF U
<1>. QED BY <1>1, <1>2, <1>3

LEMMA BuiltEnds == IInv /\ BuiltInv => NothingLeaks
<1>. SUFFICES ASSUME IInv, BuiltInv, Ended
              PROVE  /\ {i \in Numbers : rc[i] > 0} = Whole
                     /\ ~tables /\ arrays = {}
  BY DEF NothingLeaks
<1>. DEFINE live == {i \in Numbers : rc[i] > 0}
            holds == [i \in Numbers |-> ToSet(Stored(i))]
<1>1. phase \notin {"parse", "cleanup"}
  BY DEF Ended
<1>2. ~tables /\ frames = <<>>
  BY <1>1 DEF BuiltInv, Built
<1>3. arrays = {}
  <2>1. Len(frames) = 0
    BY <1>2, EmptySeq
  <2>2. inProgress = {}
    BY <2>1 DEF IInv, StackOK
  <2>. QED BY <2>2 DEF IInv, RestOK
<1>4. /\ rc \in [Numbers -> Nat] /\ cache \subseteq Numbers
      /\ \A i \in Numbers : rc[i] > 0 => i \in cache
      /\ \A o \in cache : \A k \in DOMAIN Contents[o] : Contents[o][k] \in cache
      /\ result \in Numbers \cup {NULL}
  BY DEF IInv, CountedOK, RestOK
<1>5. Alive(rc) = live /\ live \subseteq cache
  BY <1>4 DEF Alive
<1>6. \A j \in Numbers : ToSet(Contents[j]) = holds[j]
  BY DEF Contents
<1>. HIDE DEF holds
<1>7. ASSUME NEW i \in Numbers
      PROVE  i \in live <=> result = i \/ \E j \in live : i \in holds[j]
  <2>1. Due(phase, cache, todo, i) = 0
    BY <1>1 DEF Due
  <2>2. rc[i] = Held(Contents, live, i) + (IF result = i THEN 1 ELSE 0)
                + Due(phase, cache, todo, i)
    BY <1>4, <1>5 DEF IInv, CountedOK, CountsOK
  <2>3. live \in SUBSET Numbers
    OBVIOUS
  <2>. HIDE DEF live
  <2>4. /\ Held(Contents, live, i) \in Nat
        /\ Held(Contents, live, i) > 0 <=> \E j \in live : i \in ToSet(Contents[j])
    BY <2>3, Facts, HeldSome
  <2>5. Held(Contents, live, i) > 0 <=> \E j \in live : i \in holds[j]
    BY <1>6, <2>3, <2>4
  <2>6. rc[i] > 0 <=> result = i \/ Held(Contents, live, i) > 0
    BY <2>1, <2>2, <2>4
  <2>. QED BY <2>5, <2>6 DEF live
<1>8. /\ \A j \in Numbers : holds[j] \subseteq RefersTo[j]
      /\ \A j \in cache : holds[j] \subseteq cache
  <2>1. ASSUME NEW j \in Numbers PROVE holds[j] \subseteq RefersTo[j]
    <3>1. \A k \in DOMAIN Stored(j) : \E l \in DOMAIN Entry(j).refs : Stored(j)[k] = Entry(j).refs[l]
      BY StoredIs, Facts
    <3>. QED BY <3>1 DEF RefersTo, ToSet, holds
  <2>2. \A j \in cache : holds[j] \subseteq cache
    BY <1>4, <1>6 DEF ToSet
  <2>. QED BY <2>1, <2>2
<1>9. ASSUME NEW W, W \subseteq Numbers, \A j \in W : holds[j] \subseteq W,
             result # NULL => result \in W
      PROVE  live \subseteq W
  <2>. DEFINE T == live \ W
  <2>. SUFFICES ASSUME T # {} PROVE FALSE
    OBVIOUS
  <2>1. T \in SUBSET cache
    BY <1>5
  <2>2. PICK o \in T : \A p \in T : o \notin RefersTo[p]
    BY <2>1 DEF BuiltInv, Built, Layered, Sourced
  <2>3. result # o
    <3>1. o # NULL
      BY Facts
    <3>. QED BY <1>9, <3>1
  <2>4. PICK j \in live : o \in holds[j]
    BY <1>7, <2>3
  <2>5. j \notin W
    BY <1>9, <2>4
  <2>. QED BY <1>8, <2>2, <2>4, <2>5
<1>10. CASE result = NULL
  <2>. HIDE DEF live
  <2>1. PICK W : W = {}
    OBVIOUS
  <2>2. live \subseteq W
    BY <1>9, <1>10, <2>1
  <2>. QED BY <1>2, <1>3, <1>10, <2>1, <2>2 DEF Whole, live
<1>11. CASE result # NULL
  <2>. DEFINE W == Reach(holds, result, Numbers)
  <2>0. W = Whole
    BY <1>11 DEF Whole, holds
  <2>1. W \subseteq Numbers
    BY DEF Reach
  <2>2. W \subseteq live
    <3>1. live \in SUBSET Numbers /\ result \in Numbers /\ result \in live
      BY <1>4, <1>7, <1>11
    <3>2. Closed(holds, live)
      <4>1. ASSUME NEW j \in live, NEW i \in holds[j] PROVE i \in live
        <5>1. i \in Numbers
          BY <1>4, <1>5, <1>8, <4>1
        <5>. QED BY <1>7, <4>1, <5>1
      <4>. QED BY <4>1 DEF Closed
    <3>. HIDE DEF live
    <3>. QED BY <3>1, <3>2, ReachInside
  <2>3. result \in W /\ \A j \in W : holds[j] \subseteq W
    <3>1. cache \in SUBSET Numbers /\ result \in cache /\ Closed(holds, cache)
      BY <1>4, <1>5, <1>7, <1>8, <1>11 DEF Closed
    <3>2. W \subseteq cache
      BY <1>4, <1>11, <3>1, ReachInside
    <3>3. result \in W
      BY <1>4, <1>11 DEF Reach
    <3>4. ASSUME NEW j \in W, NEW i \in holds[j] PROVE i \in W
      <4>1. i \in Numbers
        BY <1>4, <1>8, <3>2, <3>4
      <4>. QED BY <3>4, <4>1 DEF Reach, Closed
    <3>. QED BY <3>3, <3>4
  <2>. HIDE DEF W
  <2>4. live \subseteq W
    BY <1>9, <2>1, <2>3
  <2>. QED BY <1>2, <1>3, <2>0, <2>2, <2>4
<1>. QED BY <1>10, <1>11

\* _FXCFBinaryPListCreateWithData: of all documents exactly the well-formed ones
\* are parsed, as long as memory suffices, whatever they share: neither the cache
\* nor the inProgress flags ever hide a cycle, or take shared entries for one.
THEOREM Parses == Spec => []ParsesWellFormed
<1>1. Init => IInv /\ BuiltInv /\ WellInv
  BY InitStarts, StartIInv, StartBuilt, StartWell
<1>2. IInv /\ BuiltInv /\ WellInv /\ [Next]_vars => IInv' /\ BuiltInv' /\ WellInv'
  BY NextIInv, NextBuilt, NextWellInv
<1>3. IInv /\ BuiltInv /\ WellInv => ParsesWellFormed
  BY BuiltRejects, WellAccepts DEF ParsesWellFormed
<1>. QED BY <1>1, <1>2, <1>3, PTL DEF Spec

\* A call of the parser ends as it should, whichever of its steps fails: what then
\* exists is its result and what that contains, its tables and arrays are freed,
\* and the caller can tell.
THEOREM Ends == Spec => []EndsCleanly
<1>1. Init => IInv /\ BuiltInv
  BY InitStarts, StartIInv, StartBuilt
<1>2. IInv /\ BuiltInv /\ [Next]_vars => IInv' /\ BuiltInv'
  BY NextIInv, NextBuilt
<1>3. IInv /\ BuiltInv => NothingLeaks
  BY BuiltEnds
<1>4. Spec => []CallerCanTell
  BY CallerTold
<1>. QED BY <1>1, <1>2, <1>3, <1>4, PTL DEF Spec, EndsCleanly

-----------------------------------------------------------------------------
(* The writer.  The walk: what has been collected and is on no activation  *)
(* of the stack is done with, together with all that it contains.          *)

KeyIsString(n, i) ==
    graph[n].kind = "dictionary" /\ i % 2 = 1 => graph[Items(n)[i]].kind = "string"

\* An object that can be written, if what it contains can.
GoodNode ==
    {n \in Node : graph[n].kind # "other" /\ \A i \in DOMAIN Items(n) : KeyIsString(n, i)}

\* An activation that has met no bad key.
GoodEntry ==
    {e \in StackEntry :
        /\ graph[e.node].kind \in Containers
        /\ e.next <= Len(Items(e.node)) + 1
        /\ \A i \in 1..(e.next - 1) : KeyIsString(e.node, i)}

NodesOn(st) == {st[k].node : k \in 1..Len(st)}

\* How many of its object's elements an activation is done with.
Past(st, k) == IF k = Len(st) THEN st[k].next - 1 ELSE st[k].next - 2

\* C: what has been collected; w: what of it the walk is done with.
WalkOK(w, st, C) ==
    /\ st \in Seq(GoodEntry)
    /\ w \cup NodesOn(st) = C /\ w \cap NodesOn(st) = {}
    /\ Layered(Elements, w) /\ w \subseteq GoodNode
    /\ \A k, l \in 1..Len(st) : st[k].node = st[l].node => k = l
    /\ Len(st) # 0 => st[1].node = Root
    /\ \A k \in 1..(Len(st) - 1) :
        st[k].next > 1 /\ Items(st[k].node)[st[k].next - 1] = st[k + 1].node
    /\ \A k \in 1..Len(st) : \A i \in 1..Past(st, k) : Items(st[k].node)[i] \in w

\* Each object has one number, and the root has the first.
NumbersOK(ob) ==
    /\ ob \in Seq(Reachable)
    /\ \A i, j \in 1..Len(ob) : ob[i] = ob[j] => i = j
    /\ ob # <<>> => ob[1] = Root

LEMMA GraphIs ==
    ASSUME graph \in Graphs, NEW n \in Node
    PROVE  /\ graph[n].kind \in ObjectKinds /\ Items(n) \in Seq(Node)
           /\ Len(Items(n)) \in Nat /\ DOMAIN Items(n) = 1..Len(Items(n))
           /\ \A i \in DOMAIN Items(n) : Items(n)[i] \in Node /\ Items(n)[i] \in Elements[n]
           /\ Elements[n] = ToSet(Items(n)) /\ Elements[n] \subseteq Node
           /\ graph[n].kind = "dictionary" => Len(Items(n)) % 2 = 0
           /\ graph[n].kind \notin Containers => Items(n) = <<>> /\ Elements[n] = {}
<1>1. GraphOK(graph)
  BY GraphsOK
<1>2. /\ graph[n].kind \in ObjectKinds /\ Items(n) \in Seq(Node)
      /\ graph[n].kind = "dictionary" => Len(Items(n)) % 2 = 0
      /\ graph[n].kind \notin Containers => Items(n) = <<>>
  BY <1>1 DEF GraphOK, Items
<1>3. Elements[n] = ToSet(Items(n))
  BY DEF Elements
<1>4. /\ Len(Items(n)) \in Nat /\ DOMAIN Items(n) = 1..Len(Items(n))
      /\ \A i \in DOMAIN Items(n) : Items(n)[i] \in Node
  BY <1>2, SeqIs
<1>5. \A x : x \in ToSet(Items(n)) <=> \E i \in DOMAIN Items(n) : x = Items(n)[i]
  BY DEF ToSet
<1>6. Items(n) = <<>> => ToSet(Items(n)) = {}
  BY <1>5
<1>. QED BY <1>2, <1>3, <1>4, <1>5, <1>6

LEMMA ReachableIs ==
    ASSUME graph \in Graphs
    PROVE  /\ Root \in Reachable /\ Reachable \subseteq Node
           /\ Closed(Elements, Reachable)
<1>1. \A n \in Node : Elements[n] \subseteq Node
  BY GraphIs
<1>2. Root \in Node
  BY RootOK
<1>3. Reachable \subseteq Node
  BY DEF Reachable, Reach
<1>. QED BY <1>1, <1>2, <1>3, ReachClosed DEF Reachable

\* An object gets the next number.
LEMMA NumbersAppend ==
    ASSUME NEW ob, NumbersOK(ob), NEW x \in Reachable, x \notin ToSet(ob), ob = <<>> => x = Root
    PROVE  NumbersOK(Append(ob, x)) /\ ToSet(Append(ob, x)) = ToSet(ob) \cup {x}
<1>1. PICK n \in Nat : n = Len(ob) /\ DOMAIN ob = 1..n /\ ob \in Seq(Reachable)
  BY SeqIs DEF NumbersOK
<1>. DEFINE oc == Append(ob, x)
<1>2. /\ oc \in Seq(Reachable) /\ Len(oc) = n + 1 /\ \A k \in 1..n : oc[k] = ob[k]
      /\ oc[n + 1] = x
  BY <1>1, AppendProperties
<1>3. /\ oc # <<>> /\ oc[1] = IF ob = <<>> THEN x ELSE ob[1]
  BY <1>1, SeqPush
<1>. HIDE DEF oc
<1>4. DOMAIN oc = 1..(n + 1)
  BY <1>1, <1>2, SeqIs
<1>5. \A k \in 1..(n + 1) : k \in 1..n \/ k = n + 1
  BY <1>1
<1>6. n + 1 \in 1..(n + 1) /\ 1..n \subseteq 1..(n + 1)
  BY <1>1
<1>7. \A k \in 1..n : ob[k] # x
  BY <1>1 DEF ToSet
<1>8. \A i, j \in 1..n : ob[i] = ob[j] => i = j
  BY <1>1 DEF NumbersOK
<1>9. \A i, j \in 1..(n + 1) : oc[i] = oc[j] => i = j
  BY <1>2, <1>5, <1>7, <1>8
<1>10. ToSet(oc) = ToSet(ob) \cup {x}
  <2>1. \A y : y \in ToSet(oc) <=> \E k \in 1..(n + 1) : y = oc[k]
    BY <1>4 DEF ToSet
  <2>2. \A y : y \in ToSet(ob) <=> \E k \in 1..n : y = ob[k]
    BY <1>1 DEF ToSet
  <2>. QED BY <1>2, <1>5, <1>6, <2>1, <2>2
<1>11. oc[1] = Root
  BY <1>3 DEF NumbersOK
<1>. QED BY <1>2, <1>9, <1>10, <1>11 DEF NumbersOK, oc

\* The loop of the innermost activation goes on from an object that is done with.
LEMMA WalkAdvance ==
    ASSUME NEW w, NEW st, NEW C, WalkOK(w, st, C), Len(st) # 0, graph \in Graphs,
           st[Len(st)].next <= Len(Items(st[Len(st)].node)),
           Items(st[Len(st)].node)[st[Len(st)].next] \in w,
           KeyIsString(st[Len(st)].node, st[Len(st)].next)
    PROVE  LET on == [st EXCEPT ![Len(st)] = [st[Len(st)] EXCEPT !.next = @ + 1]]
           IN  WalkOK(w, on, C) /\ on # <<>>
<1>. DEFINE e == st[Len(st)]
            f == [e EXCEPT !.next = @ + 1]
<1>0. /\ e = st[Len(st)] /\ e.next <= Len(Items(e.node))
      /\ Items(e.node)[e.next] \in w /\ KeyIsString(e.node, e.next)
      /\ f = [e EXCEPT !.next = @ + 1]
  OBVIOUS
<1>. SUFFICES WalkOK(w, [st EXCEPT ![Len(st)] = f], C) /\ [st EXCEPT ![Len(st)] = f] # <<>>
  OBVIOUS
<1>. HIDE DEF e, f
<1>1. PICK n \in Nat \ {0} : n = Len(st) /\ st \in Seq(GoodEntry)
  BY SeqIs DEF WalkOK
<1>2. e \in GoodEntry /\ n \in 1..n
  BY <1>0, <1>1, SeqIs
<1>3. /\ e \in StackEntry /\ e.node \in Node /\ e.next \in Nat \ {0}
      /\ graph[e.node].kind \in Containers
      /\ \A i \in 1..(e.next - 1) : KeyIsString(e.node, i)
      /\ Len(Items(e.node)) \in Nat
  BY <1>2, GraphIs DEF GoodEntry, StackEntry
<1>4. f \in StackEntry /\ f.node = e.node /\ f.next = e.next + 1
  BY <1>0, <1>3 DEF StackEntry
<1>5. f \in GoodEntry
  <2>1. \A i \in 1..(f.next - 1) : i \in 1..(e.next - 1) \/ i = e.next
    BY <1>3, <1>4
  <2>2. f.next <= Len(Items(f.node)) + 1
    BY <1>0, <1>3, <1>4
  <2>. QED BY <1>0, <1>3, <1>4, <2>1, <2>2 DEF GoodEntry
<1>. DEFINE su == [st EXCEPT ![Len(st)] = f]
<1>6. /\ su \in Seq(GoodEntry) /\ Len(su) = n /\ su # <<>>
      /\ su[n] = f /\ \A k \in 1..n : k # n => su[k] = st[k]
  BY <1>1, <1>5, ExceptSeq, SeqSetTop, SeqIs
<1>. HIDE DEF su
<1>7. \A k \in 1..n : su[k].node = st[k].node
  BY <1>0, <1>1, <1>4, <1>6
<1>8. NodesOn(su) = NodesOn(st)
  BY <1>1, <1>6, <1>7 DEF NodesOn
<1>9. \A k, l \in 1..n : su[k].node = su[l].node => k = l
  BY <1>1, <1>7 DEF WalkOK
<1>10. su[1].node = Root
  <2>1. 1 \in 1..n
    BY <1>1
  <2>. QED BY <1>1, <1>7, <2>1 DEF WalkOK
<1>11. ASSUME NEW k \in 1..(n - 1)
       PROVE  su[k].next > 1 /\ Items(su[k].node)[su[k].next - 1] = su[k + 1].node
  <2>1. k \in 1..n /\ k # n /\ k + 1 \in 1..n
    BY <1>1
  <2>. QED BY <1>1, <1>6, <1>7, <2>1 DEF WalkOK
<1>12. ASSUME NEW k \in 1..n, NEW i \in 1..Past(su, k) PROVE Items(su[k].node)[i] \in w
  <2>1. CASE k = n
    <3>0. Past(su, k) = f.next - 1
      BY <1>6, <2>1 DEF Past
    <3>1. i \in 1..(e.next - 1) \/ i = e.next
      <4>1. Past(su, k) = e.next
        BY <1>3, <1>4, <3>0
      <4>. QED BY <1>3, <1>12, <4>1
    <3>2. Past(st, n) = e.next - 1
      BY <1>0, <1>1 DEF Past
    <3>3. \A j \in 1..(e.next - 1) : Items(e.node)[j] \in w
      BY <1>0, <1>1, <1>2, <3>2 DEF WalkOK
    <3>. QED BY <1>0, <1>4, <1>6, <2>1, <3>1, <3>3
  <2>2. CASE k # n
    <3>1. Past(su, k) = Past(st, k)
      BY <1>1, <1>6, <2>2 DEF Past
    <3>. QED BY <1>1, <1>6, <1>7, <1>12, <2>2, <3>1 DEF WalkOK
  <2>. QED BY <2>1, <2>2
<1>. QED BY <1>6, <1>8, <1>9, <1>10, <1>11, <1>12 DEF WalkOK, su

\* An object that contains nothing is done with at once.
LEMMA WalkLeaf ==
    ASSUME NEW w, NEW st, NEW C, WalkOK(w, st, C),
           NEW x \in GoodNode, x \notin C, Elements[x] = {}
    PROVE  WalkOK(w \cup {x}, st, C \cup {x})
<1>1. Layered(Elements, w \cup {x})
  BY LayeredAdd DEF WalkOK
<1>. QED BY <1>1 DEF WalkOK

\* The walk enters a container.
LEMMA WalkPush ==
    ASSUME NEW w, NEW st, NEW C, WalkOK(w, st, C), graph \in Graphs,
           NEW x \in Node, x \notin C, graph[x].kind \in Containers,
           IF Len(st) = 0 THEN x = Root
           ELSE LET e == st[Len(st)] IN
                /\ e.next <= Len(Items(e.node)) /\ Items(e.node)[e.next] = x
                /\ KeyIsString(e.node, e.next),
           NEW su, IF Len(st) = 0 THEN su = <<>>
                   ELSE su = [st EXCEPT ![Len(st)] = [st[Len(st)] EXCEPT !.next = @ + 1]]
    PROVE  WalkOK(w, Append(su, [node |-> x, next |-> 1]), C \cup {x})
<1>1. PICK n \in Nat : n = Len(st) /\ st \in Seq(GoodEntry) /\ (n = 0 <=> st = <<>>)
  BY SeqIs, EmptySeq DEF WalkOK
<1>. DEFINE f == [node |-> x, next |-> 1]
            sv == Append(su, f)
<1>2. f \in GoodEntry /\ f.node = x /\ f.next = 1
  BY GraphIs DEF GoodEntry, StackEntry
<1>. HIDE DEF f
<1>3. /\ su \in Seq(GoodEntry) /\ Len(su) = n
      /\ \A k \in 1..n : su[k].node = st[k].node
      /\ \A k \in 1..n : su[k].next = IF k = n THEN st[k].next + 1 ELSE st[k].next
      /\ n # 0 => st[n].next \in Nat \ {0} /\ Items(st[n].node)[st[n].next] = x
  <2>1. CASE n = 0
    BY <1>1, <2>1, EmptySeq
  <2>2. CASE n # 0
    <3>. DEFINE e == st[n]
                g == [e EXCEPT !.next = @ + 1]
    <3>1. n \in 1..n /\ e \in GoodEntry
      BY <1>1, <2>2, SeqIs
    <3>2. /\ e \in StackEntry /\ e.node \in Node /\ e.next \in Nat \ {0}
          /\ graph[e.node].kind \in Containers
          /\ \A i \in 1..(e.next - 1) : KeyIsString(e.node, i)
          /\ Len(Items(e.node)) \in Nat
          /\ e.next <= Len(Items(e.node)) /\ Items(e.node)[e.next] = x
          /\ KeyIsString(e.node, e.next)
      BY <1>1, <2>2, <3>1, GraphIs DEF GoodEntry, StackEntry
    <3>3. g \in StackEntry /\ g.node = e.node /\ g.next = e.next + 1
      BY <3>2 DEF StackEntry
    <3>4. su = [st EXCEPT ![n] = g]
      BY <1>1, <2>2
    <3>. HIDE DEF e, g
    <3>5. g \in GoodEntry
      <4>1. \A i \in 1..(g.next - 1) : i \in 1..(e.next - 1) \/ i = e.next
        BY <3>2, <3>3
      <4>2. g.next <= Len(Items(g.node)) + 1
        BY <3>2, <3>3
      <4>. QED BY <3>2, <3>3, <4>1, <4>2 DEF GoodEntry
    <3>6. /\ su \in Seq(GoodEntry) /\ Len(su) = n
          /\ su[n] = g /\ \A k \in 1..n : k # n => su[k] = st[k]
      BY <1>1, <3>1, <3>4, <3>5, ExceptSeq, SeqIs
    <3>. QED BY <1>1, <3>2, <3>3, <3>6 DEF e
  <2>. QED BY <2>1, <2>2
<1>4. /\ sv \in Seq(GoodEntry) /\ Len(sv) = n + 1
      /\ \A k \in 1..n : sv[k] = su[k]
      /\ sv[n + 1] = f
  BY <1>2, <1>3, AppendProperties
<1>. HIDE DEF sv
<1>5. /\ \A k \in 1..(n + 1) : k \in 1..n \/ k = n + 1
      /\ n + 1 \in 1..(n + 1) /\ 1..n \subseteq 1..(n + 1)
  BY <1>1
<1>6. \A k \in 1..n : sv[k].node = st[k].node
  BY <1>3, <1>4
<1>7. NodesOn(sv) = NodesOn(st) \cup {x}
  <2>1. \A y : y \in NodesOn(sv) <=> \E k \in 1..(n + 1) : y = sv[k].node
    BY <1>4 DEF NodesOn
  <2>2. \A y : y \in NodesOn(st) <=> \E k \in 1..n : y = st[k].node
    BY <1>1 DEF NodesOn
  <2>. QED BY <1>2, <1>4, <1>5, <1>6, <2>1, <2>2
<1>8. /\ w \cup NodesOn(sv) = C \cup {x} /\ w \cap NodesOn(sv) = {}
      /\ Layered(Elements, w) /\ w \subseteq GoodNode
      /\ \A k \in 1..n : st[k].node # x
  <2>1. x \notin w /\ x \notin NodesOn(st)
    BY DEF WalkOK
  <2>2. \A k \in 1..n : st[k].node \in NodesOn(st)
    BY <1>1 DEF NodesOn
  <2>. QED BY <1>7, <2>1, <2>2 DEF WalkOK
<1>9. \A k, l \in 1..(n + 1) : sv[k].node = sv[l].node => k = l
  <2>1. \A k, l \in 1..n : st[k].node = st[l].node => k = l
    BY <1>1 DEF WalkOK
  <2>. QED BY <1>2, <1>4, <1>5, <1>6, <1>8, <2>1
<1>10. sv[1].node = Root
  <2>1. CASE n = 0
    <3>1. x = Root /\ n + 1 = 1
      BY <1>1, <2>1
    <3>. QED BY <1>2, <1>4, <3>1
  <2>2. CASE n # 0
    <3>1. 1 \in 1..n /\ st[1].node = Root
      BY <1>1, <2>2 DEF WalkOK
    <3>. QED BY <1>6, <3>1
  <2>. QED BY <2>1, <2>2
<1>11. ASSUME NEW k \in 1..n
       PROVE  sv[k].next > 1 /\ Items(sv[k].node)[sv[k].next - 1] = sv[k + 1].node
  <2>1. CASE k = n
    <3>1. sv[k].next = st[n].next + 1 /\ st[n].next \in Nat \ {0}
      BY <1>3, <1>4, <2>1
    <3>2. sv[k].next > 1 /\ sv[k].next - 1 = st[n].next
      BY <3>1
    <3>. QED BY <1>2, <1>3, <1>4, <1>6, <2>1, <3>2
  <2>2. CASE k # n
    <3>1. k \in 1..(n - 1) /\ k + 1 \in 1..n
      BY <1>1, <2>2
    <3>2. sv[k].next = st[k].next /\ sv[k + 1].node = st[k + 1].node
      BY <1>3, <1>4, <1>6, <2>2, <3>1
    <3>. QED BY <1>1, <1>6, <3>1, <3>2 DEF WalkOK
  <2>. QED BY <2>1, <2>2
<1>12. ASSUME NEW k \in 1..(n + 1), NEW i \in 1..Past(sv, k) PROVE Items(sv[k].node)[i] \in w
  <2>1. CASE k = n + 1
    <3>1. Past(sv, k) = 0
      BY <1>2, <1>4, <2>1 DEF Past
    <3>. QED BY <1>12, <3>1
  <2>2. CASE k \in 1..n
    <3>1. sv[k].next = IF k = n THEN st[k].next + 1 ELSE st[k].next
      BY <1>3, <1>4, <2>2
    <3>2. k # n + 1
      BY <1>1, <2>2
    <3>3. Past(sv, k) = sv[k].next - 2 /\ Past(st, k) = IF k = n THEN st[k].next - 1 ELSE st[k].next - 2
      BY <1>1, <1>4, <3>2 DEF Past
    <3>4. k = n => st[k].next \in Nat
      BY <1>3, <2>2
    <3>5. Past(sv, k) = Past(st, k)
      BY <3>1, <3>3, <3>4
    <3>. QED BY <1>1, <1>6, <1>12, <2>2, <3>5 DEF WalkOK
  <2>. QED BY <1>5, <2>1, <2>2
<1>13. n + 1 - 1 = n
  BY <1>1
<1>. QED BY <1>4, <1>8, <1>9, <1>10, <1>11, <1>12, <1>13 DEF WalkOK, sv, f

\* The walk leaves a container, all of whose elements it is done with.
LEMMA WalkPop ==
    ASSUME NEW w, NEW st, NEW C, WalkOK(w, st, C), graph \in Graphs, Len(st) # 0,
           NEW e, e = st[Len(st)], e.next > Len(Items(e.node))
    PROVE  WalkOK(w \cup {e.node}, Front(st), C)
<1>1. PICK n \in Nat \ {0} : n = Len(st) /\ st \in Seq(GoodEntry)
  BY SeqIs DEF WalkOK
<1>. DEFINE su == Front(st)
<1>2. /\ su \in Seq(GoodEntry) /\ Len(su) = n - 1
      /\ \A k \in 1..(n - 1) : su[k] = st[k]
  BY <1>1, SubSeqProperties DEF Front
<1>. HIDE DEF su
<1>3. e \in GoodEntry /\ n \in 1..n
  BY <1>1, SeqIs
<1>4. /\ e.node \in Node /\ e.next \in Nat \ {0} /\ e.next <= Len(Items(e.node)) + 1
      /\ graph[e.node].kind \in Containers
      /\ \A i \in 1..(e.next - 1) : KeyIsString(e.node, i)
      /\ Len(Items(e.node)) \in Nat /\ DOMAIN Items(e.node) = 1..Len(Items(e.node))
      /\ Elements[e.node] = ToSet(Items(e.node))
  BY <1>3, GraphIs DEF GoodEntry, StackEntry
<1>5. e.next - 1 = Len(Items(e.node))
  BY <1>4
<1>6. Elements[e.node] \subseteq w
  <2>1. Past(st, n) = e.next - 1
    BY <1>1 DEF Past
  <2>2. \A i \in 1..(e.next - 1) : Items(e.node)[i] \in w
    BY <1>1, <1>3, <2>1 DEF WalkOK
  <2>. QED BY <1>4, <1>5, <2>2 DEF ToSet
<1>7. e.node \in GoodNode
  BY <1>4, <1>5 DEF GoodNode, Containers
<1>8. e.node \notin w /\ e.node \in NodesOn(st)
  BY <1>1, <1>3 DEF WalkOK, NodesOn
<1>9. Layered(Elements, w \cup {e.node})
  BY <1>6, <1>8, LayeredAdd DEF WalkOK
<1>10. NodesOn(su) = NodesOn(st) \ {e.node}
  <2>1. \A y : y \in NodesOn(su) <=> \E k \in 1..(n - 1) : y = st[k].node
    BY <1>2 DEF NodesOn
  <2>2. \A y : y \in NodesOn(st) <=> \E k \in 1..n : y = st[k].node
    BY <1>1 DEF NodesOn
  <2>3. \A k \in 1..n : k \in 1..(n - 1) <=> k # n
    BY <1>1
  <2>4. \A k \in 1..(n - 1) : k \in 1..n
    BY <1>1
  <2>5. \A k \in 1..n : st[k].node = e.node => k = n
    BY <1>1, <1>3 DEF WalkOK
  <2>. QED BY <1>1, <2>1, <2>2, <2>3, <2>4, <2>5
<1>11. /\ (w \cup {e.node}) \cup NodesOn(su) = C
       /\ (w \cup {e.node}) \cap NodesOn(su) = {}
       /\ w \cup {e.node} \subseteq GoodNode
  BY <1>7, <1>8, <1>10 DEF WalkOK
<1>12. \A k, l \in 1..(n - 1) : su[k].node = su[l].node => k = l
  BY <1>1, <1>2 DEF WalkOK
<1>13. n - 1 # 0 => su[1].node = Root
  <2>1. n - 1 # 0 => 1 \in 1..(n - 1)
    BY <1>1
  <2>. QED BY <1>1, <1>2, <2>1 DEF WalkOK
<1>14. ASSUME NEW k \in 1..(n - 1 - 1)
       PROVE  su[k].next > 1 /\ Items(su[k].node)[su[k].next - 1] = su[k + 1].node
  <2>1. k \in 1..(n - 1) /\ k + 1 \in 1..(n - 1)
    BY <1>1
  <2>. QED BY <1>1, <1>2, <2>1 DEF WalkOK
<1>15. ASSUME NEW k \in 1..(n - 1), NEW i \in 1..Past(su, k)
       PROVE  Items(su[k].node)[i] \in w \cup {e.node}
  <2>1. k \in 1..n /\ k # n /\ su[k] = st[k] /\ st[k].next \in Nat
    <3>1. k \in 1..n /\ k # n
      BY <1>1
    <3>2. st[k] \in GoodEntry
      BY <1>1, <3>1, SeqIs
    <3>. QED BY <1>2, <3>1, <3>2 DEF GoodEntry, StackEntry
  <2>2. Past(st, k) = st[k].next - 2
    BY <1>1, <2>1 DEF Past
  <2>3. \A j \in 1..(st[k].next - 2) : Items(st[k].node)[j] \in w
    BY <1>1, <2>1, <2>2 DEF WalkOK
  <2>4. CASE k = n - 1
    <3>1. Past(su, k) = st[k].next - 1
      BY <1>2, <2>1, <2>4 DEF Past
    <3>2. Items(st[k].node)[st[k].next - 1] = st[n].node
      <4>1. k + 1 = n
        BY <1>1, <2>4
      <4>. QED BY <1>1, <2>4, <4>1 DEF WalkOK
    <3>3. i \in 1..(st[k].next - 2) \/ i = st[k].next - 1
      BY <1>15, <2>1, <3>1
    <3>. QED BY <1>1, <2>1, <2>3, <3>2, <3>3
  <2>5. CASE k # n - 1
    <3>1. Past(su, k) = st[k].next - 2
      BY <1>2, <2>1, <2>5 DEF Past
    <3>. QED BY <1>15, <2>1, <2>3, <3>1
  <2>. QED BY <2>4, <2>5
<1>. QED BY <1>2, <1>9, <1>11, <1>12, <1>13, <1>14, <1>15 DEF WalkOK, su

WalkState(ph, st, ob, he, wr) ==
    /\ ph \in {"idle", "collect", "unwind", "encode", "done"}
    /\ st \in Seq(StackEntry) /\ Len(st) <= MaxDepth /\ ob \in Seq(Node)
    /\ he \subseteq {"objects", "bytes"} /\ (ph \in {"idle", "done"} => he = {})
    /\ ph = "idle" => st = <<>> /\ ob = <<>>
    /\ ph = "collect" /\ st = <<>> => ob = <<>>
    /\ ob # <<>> => root = Root
    /\ ph = "encode" \/ wr # NULL => st = <<>> /\ ob # <<>>
    /\ ph # "done" => wr = NULL
    /\ ph \in {"collect", "encode"} \/ wr # NULL =>
        NumbersOK(ob) /\ \E w : WalkOK(w, st, ToSet(ob))

WalkInv ==
    /\ graph \in Graphs /\ root \in {Root, NULL}
    /\ WalkState(progress, stack, objects, held, written)

LEMMA SameGraph ==
    ASSUME graph' = graph
    PROVE  /\ \A n : Items(n)' = Items(n)
           /\ Elements' = Elements /\ Reachable' = Reachable
           /\ GoodNode' = GoodNode /\ GoodEntry' = GoodEntry
<1>1. \A n : Items(n)' = Items(n)
  BY DEF Items
<1>2. Elements' = Elements
  BY <1>1 DEF Elements
<1>3. Reachable' = Reachable
  BY <1>2 DEF Reachable
<1>4. GoodNode' = GoodNode
  BY <1>1 DEF GoodNode, KeyIsString
<1>5. GoodEntry' = GoodEntry
  BY <1>1 DEF GoodEntry, KeyIsString
<1>. QED BY <1>1, <1>2, <1>3, <1>4, <1>5

LEMMA WalkKept ==
    ASSUME WalkInv, graph' = graph, root' = root,
           WalkState(progress', stack', objects', held', written')
    PROVE  WalkInv'
<1>1. NumbersOK(objects)' <=> NumbersOK(objects')
  BY SameGraph DEF NumbersOK
<1>2. \A w : WalkOK(w, stack, ToSet(objects))' <=> WalkOK(w, stack', ToSet(objects'))
  BY SameGraph DEF WalkOK, NodesOn, Past
<1>. QED BY <1>1, <1>2 DEF WalkInv, WalkState

LEMMA InitWalks == WriterInit => WalkInv
<1>. SUFFICES ASSUME WriterInit PROVE WalkInv
  OBVIOUS
<1>1. <<>> \in Seq(StackEntry) /\ <<>> \in Seq(Node) /\ Len(<<>>) = 0
  BY EmptySeq
<1>2. Len(<<>>) <= MaxDepth
  BY <1>1, BoundsOK
<1>. QED BY <1>1, <1>2 DEF WriterInit, WalkInv, WalkState

\* A walk that has not begun.
LEMMA WalkNothing == WalkOK({}, <<>>, {}) /\ NumbersOK(<<>>)
<1>1. <<>> \in Seq(GoodEntry) /\ <<>> \in Seq(Reachable) /\ Len(<<>>) = 0
  BY EmptySeq
<1>2. NodesOn(<<>>) = {}
  BY <1>1 DEF NodesOn
<1>. QED BY <1>1, <1>2, LayeredEmpty DEF WalkOK, NumbersOK

LEMMA SetOfNone == ToSet(<<>>) = {}
BY DEF ToSet

LEMMA OnStack ==
    ASSUME WalkInv
    PROVE  /\ \A o : StackContains(o) <=> o \in NodesOn(stack)
           /\ \A o : Collected(o) <=> o \in ToSet(objects)
<1>1. DOMAIN stack = 1..Len(stack)
  BY SeqIs DEF WalkInv, WalkState
<1>2. \A o : StackContains(o) <=> o \in NodesOn(stack)
  BY <1>1 DEF StackContains, NodesOn
<1>3. \A o : Collected(o) <=> o \in ToSet(objects)
  BY DEF Collected, ToSet
<1>. QED BY <1>2, <1>3

\* The innermost activation.
LEMMA EntryIs ==
    ASSUME WalkInv, progress = "collect", stack # <<>>
    PROVE  /\ Len(stack) \in Nat \ {0} /\ TopEntry = stack[Len(stack)]
           /\ TopEntry \in GoodEntry /\ TopEntry.node \in Node /\ TopEntry.next \in Nat \ {0}
           /\ TopEntry.node \in ToSet(objects) /\ TopEntry.node \in Reachable
           /\ graph[TopEntry.node].kind \in Containers
           /\ Len(Items(TopEntry.node)) \in Nat
           /\ DOMAIN Items(TopEntry.node) = 1..Len(Items(TopEntry.node))
           /\ TopEntry.next <= Len(Items(TopEntry.node)) + 1
           /\ Finished <=> TopEntry.next > Len(Items(TopEntry.node))
<1>1. PICK w : WalkOK(w, stack, ToSet(objects)) /\ NumbersOK(objects)
  BY DEF WalkInv, WalkState
<1>2. Len(stack) \in Nat \ {0} /\ TopEntry = stack[Len(stack)] /\ stack \in Seq(GoodEntry)
  BY <1>1, SeqIs, EmptySeq DEF WalkOK, TopEntry, Last
<1>3. TopEntry \in GoodEntry /\ Len(stack) \in 1..Len(stack)
  BY <1>2, SeqIs
<1>4. TopEntry.node \in Node /\ TopEntry.next \in Nat \ {0}
      /\ graph[TopEntry.node].kind \in Containers
      /\ TopEntry.next <= Len(Items(TopEntry.node)) + 1
  BY <1>3 DEF GoodEntry, StackEntry
<1>5. Len(Items(TopEntry.node)) \in Nat
      /\ DOMAIN Items(TopEntry.node) = 1..Len(Items(TopEntry.node))
  BY <1>4, GraphIs DEF WalkInv
<1>6. TopEntry.node \in ToSet(objects)
  BY <1>1, <1>2, <1>3 DEF WalkOK, NodesOn
<1>7. TopEntry.node \in Reachable
  BY <1>1, <1>6, SeqIs DEF NumbersOK, ToSet
<1>8. Finished <=> TopEntry.next > Len(Items(TopEntry.node))
  BY DEF Finished
<1>. QED BY <1>2, <1>3, <1>4, <1>5, <1>6, <1>7, <1>8

\* The object that the walk looks at.
LEMMA CurrentIs ==
    ASSUME WalkInv, progress = "collect", ~Finished, Current # NULL
    PROVE  /\ Current \in Reachable /\ Current \in Node
           /\ stack = <<>> => Current = Root /\ root = Root /\ objects = <<>>
           /\ stack # <<>> =>
                /\ TopEntry.next <= Len(Items(TopEntry.node))
                /\ TopEntry.next \in DOMAIN Items(TopEntry.node)
                /\ Current = Items(TopEntry.node)[TopEntry.next]
                /\ Current \in Elements[TopEntry.node]
                /\ objects # <<>> /\ root = Root
                /\ ~IsBadKey(Current) <=> KeyIsString(TopEntry.node, TopEntry.next)
<1>1. CASE stack = <<>>
  <2>1. Current = Root /\ root = Root
    BY <1>1 DEF Current, WalkInv
  <2>2. objects = <<>>
    BY <1>1 DEF WalkInv, WalkState
  <2>. QED BY <1>1, <2>1, <2>2, ReachableIs, RootOK DEF WalkInv
<1>2. CASE stack # <<>>
  <2>1. TopEntry.next <= Len(Items(TopEntry.node)) /\ TopEntry.next \in DOMAIN Items(TopEntry.node)
    BY <1>2, EntryIs
  <2>2. Current = Items(TopEntry.node)[TopEntry.next]
    BY <1>2 DEF Current
  <2>3. Current \in Elements[TopEntry.node] /\ Current \in Node
    BY <1>2, <2>1, <2>2, EntryIs, GraphIs DEF WalkInv
  <2>4. Current \in Reachable
    BY <1>2, <2>3, EntryIs, ReachableIs DEF WalkInv, Closed
  <2>5. objects # <<>>
    BY <1>2, EntryIs, SetOfNone
  <2>6. root = Root
    BY <2>5 DEF WalkInv, WalkState
  <2>7. ~IsBadKey(Current) <=> KeyIsString(TopEntry.node, TopEntry.next)
    BY <1>2, <2>2 DEF IsBadKey, KeyIsString
  <2>. QED BY <1>2, <2>1, <2>2, <2>3, <2>4, <2>5, <2>6, <2>7
<1>. QED BY <1>1, <1>2

\* Good entries are entries.
LEMMA EntriesAre ==
    ASSUME NEW w, NEW st, NEW C, WalkOK(w, st, C)
    PROVE  st \in Seq(StackEntry)
<1>1. st \in Seq(GoodEntry) /\ \A k \in DOMAIN st : st[k] \in GoodEntry
  BY SeqIs DEF WalkOK
<1>2. \A k \in DOMAIN st : st[k] \in StackEntry
  BY <1>1 DEF GoodEntry
<1>. QED BY <1>1, <1>2, SeqInto

LEMMA NumbersAre ==
    ASSUME graph \in Graphs, NEW ob, NumbersOK(ob)
    PROVE  ob \in Seq(Node)
<1>1. ob \in Seq(Reachable) /\ \A k \in DOMAIN ob : ob[k] \in Reachable
  BY SeqIs DEF NumbersOK
<1>. QED BY <1>1, ReachableIs, SeqInto

\* A step of the walk that has led to a walk as it should be.
LEMMA WalkStep ==
    ASSUME WalkInv, graph' = graph, root' = root, progress = "collect",
           written' = written, held' \subseteq {"objects", "bytes"},
           progress' = (IF stack' = <<>> THEN "encode" ELSE "collect"),
           objects' # <<>>, root = Root, NumbersOK(objects'),
           NEW w, WalkOK(w, stack', ToSet(objects')), Len(stack') <= MaxDepth
    PROVE  WalkInv'
<1>1. stack' \in Seq(StackEntry) /\ objects' \in Seq(Node)
  BY EntriesAre, NumbersAre DEF WalkInv
<1>2. written' = NULL
  BY DEF WalkInv, WalkState
<1>3. WalkState(progress', stack', objects', held', written')
  BY <1>1, <1>2 DEF WalkState
<1>. QED BY <1>3, WalkKept

\* The activation below goes on, if there is one.
LEMMA AdvancedIs ==
    ASSUME WalkInv, progress = "collect", ~Finished, Current # NULL, ~IsBadKey(Current),
           NEW w, NEW C, WalkOK(w, stack, C), Current \in w
    PROVE  /\ WalkOK(w, Advanced, C) /\ Len(Advanced) = Len(stack)
           /\ Advanced = <<>> <=> stack = <<>>
<1>1. CASE stack = <<>>
  BY <1>1 DEF Advanced
<1>2. CASE stack # <<>>
  <2>1. Advanced = [stack EXCEPT ![Len(stack)] = [stack[Len(stack)] EXCEPT !.next = @ + 1]]
    BY <1>2 DEF Advanced
  <2>2. WalkOK(w, Advanced, C) /\ Advanced # <<>>
    <3>1. /\ TopEntry = stack[Len(stack)] /\ Len(stack) # 0
          /\ TopEntry.next <= Len(Items(TopEntry.node))
          /\ Items(TopEntry.node)[TopEntry.next] \in w
          /\ KeyIsString(TopEntry.node, TopEntry.next)
      BY <1>2, EntryIs, CurrentIs
    <3>2. graph \in Graphs
      BY DEF WalkInv
    <3>. QED BY <2>1, <3>1, <3>2, WalkAdvance
  <2>3. Len(Advanced) = Len(stack)
    BY <1>2, <2>1 DEF WalkInv, WalkState
  <2>. QED BY <1>2, <2>2, <2>3
<1>. QED BY <1>1, <1>2

LEMMA CollectSharedWalks == ASSUME WalkInv, CollectShared PROVE WalkInv'
<1>1. /\ progress = "collect" /\ ~Finished /\ Current # NULL /\ ~IsBadKey(Current)
      /\ ~StackContains(Current) /\ Collected(Current)
      /\ UNCHANGED <<graph, root, objects, held, written>> /\ Continue(Advanced)
  BY DEF CollectShared, argument
<1>2. PICK w : WalkOK(w, stack, ToSet(objects)) /\ NumbersOK(objects)
  BY <1>1 DEF WalkInv, WalkState
<1>3. Current \in w
  BY <1>1, <1>2, OnStack DEF WalkOK
<1>4. stack # <<>> /\ objects # <<>> /\ root = Root
  BY <1>1, CurrentIs, OnStack, SetOfNone
<1>5. WalkOK(w, Advanced, ToSet(objects)) /\ Len(Advanced) = Len(stack) /\ Advanced # <<>>
  BY <1>1, <1>2, <1>3, <1>4, AdvancedIs
<1>6. stack' = Advanced /\ progress' = "collect"
  BY <1>1, <1>5 DEF Continue
<1>7. Len(stack') <= MaxDepth /\ held' \subseteq {"objects", "bytes"}
  BY <1>1, <1>5, <1>6 DEF WalkInv, WalkState
<1>. QED BY <1>1, <1>2, <1>4, <1>5, <1>6, <1>7, WalkStep

\* What is new gets its number.
LEMMA NewNumber ==
    ASSUME WalkInv, New, CollectorAppend
    PROVE  /\ NumbersOK(objects') /\ ToSet(objects') = ToSet(objects) \cup {Current}
           /\ objects' # <<>> /\ root = Root /\ Current \notin ToSet(objects)
           /\ Current \in Node /\ Current \in Reachable
           /\ held' \subseteq {"objects", "bytes"}
<1>1. /\ progress = "collect" /\ ~Finished /\ Current # NULL /\ ~Collected(Current)
      /\ objects' = Append(objects, Current)
  BY DEF New, CollectorAppend
<1>2. NumbersOK(objects)
  BY <1>1 DEF WalkInv, WalkState
<1>3. Current \notin ToSet(objects)
  BY <1>1, OnStack
<1>4. Current \in Reachable /\ Current \in Node /\ root = Root /\ (objects = <<>> => Current = Root)
  BY <1>1, CurrentIs
<1>5. NumbersOK(objects') /\ ToSet(objects') = ToSet(objects) \cup {Current}
  BY <1>1, <1>2, <1>3, <1>4, NumbersAppend
<1>6. objects' # <<>>
  BY <1>5, SetOfNone
<1>7. held' \subseteq {"objects", "bytes"}
  BY DEF CollectorAppend, WalkInv, WalkState
<1>. QED BY <1>3, <1>4, <1>5, <1>6, <1>7

LEMMA CollectLeafWalks == ASSUME WalkInv, CollectLeaf PROVE WalkInv'
<1>1. /\ New /\ graph[Current].kind \in Leaves /\ CollectorAppend
      /\ UNCHANGED <<graph, root, written>> /\ Continue(Advanced)
  BY DEF CollectLeaf, argument
<1>2. progress = "collect" /\ ~Finished /\ Current # NULL /\ ~IsBadKey(Current)
  BY <1>1 DEF New
<1>3. PICK w : WalkOK(w, stack, ToSet(objects))
  BY <1>2 DEF WalkInv, WalkState
<1>4. /\ NumbersOK(objects') /\ ToSet(objects') = ToSet(objects) \cup {Current}
      /\ objects' # <<>> /\ root = Root /\ Current \notin ToSet(objects) /\ Current \in Node
      /\ held' \subseteq {"objects", "bytes"}
  BY <1>1, NewNumber
<1>5. Current \in GoodNode /\ Elements[Current] = {}
  <2>1. Items(Current) = <<>> /\ Elements[Current] = {}
    BY <1>1, <1>4, GraphIs DEF WalkInv, Leaves, Containers
  <2>. QED BY <1>1, <1>4, <2>1 DEF GoodNode, Leaves
<1>6. WalkOK(w \cup {Current}, stack, ToSet(objects'))
  BY <1>3, <1>4, <1>5, WalkLeaf
<1>7. /\ WalkOK(w \cup {Current}, Advanced, ToSet(objects')) /\ Len(Advanced) = Len(stack)
  BY <1>2, <1>6, AdvancedIs
<1>8. stack' = Advanced /\ progress' = IF stack' = <<>> THEN "encode" ELSE "collect"
  BY <1>1, <1>2 DEF Continue
<1>9. Len(stack') <= MaxDepth
  BY <1>7, <1>8 DEF WalkInv, WalkState
<1>. QED BY <1>1, <1>2, <1>4, <1>7, <1>8, <1>9, WalkStep

LEMMA CollectContainerWalks == ASSUME WalkInv, CollectContainer PROVE WalkInv'
<1>1. /\ New /\ graph[Current].kind \in Containers /\ CollectorAppend /\ ~TooDeep
      /\ stack' = Append(Advanced, [node |-> Current, next |-> 1])
      /\ UNCHANGED <<graph, root, progress, written>>
  BY DEF CollectContainer, argument
<1>2. progress = "collect" /\ ~Finished /\ Current # NULL /\ ~IsBadKey(Current)
  BY <1>1 DEF New
<1>3. PICK w : WalkOK(w, stack, ToSet(objects))
  BY <1>2 DEF WalkInv, WalkState
<1>4. /\ NumbersOK(objects') /\ ToSet(objects') = ToSet(objects) \cup {Current}
      /\ objects' # <<>> /\ root = Root /\ Current \notin ToSet(objects) /\ Current \in Node
      /\ held' \subseteq {"objects", "bytes"}
  BY <1>1, NewNumber
<1>5. PICK n \in Nat : n = Len(stack) /\ (n = 0 <=> stack = <<>>) /\ n <= MaxDepth /\ ~(n >= MaxDepth)
  BY <1>1, SeqIs, EmptySeq DEF WalkInv, WalkState, TooDeep
<1>6. /\ n = 0 => Current = Root /\ Advanced = <<>>
      /\ n # 0 => /\ stack[n].next <= Len(Items(stack[n].node))
                  /\ Items(stack[n].node)[stack[n].next] = Current
                  /\ KeyIsString(stack[n].node, stack[n].next)
                  /\ Advanced = [stack EXCEPT ![n] = [stack[n] EXCEPT !.next = @ + 1]]
  <2>1. CASE n = 0
    BY <1>2, <1>5, <2>1, CurrentIs DEF Advanced
  <2>2. CASE n # 0
    <3>1. TopEntry = stack[n]
      BY <1>2, <1>5, <2>2, EntryIs
    <3>2. Advanced = [stack EXCEPT ![n] = [stack[n] EXCEPT !.next = @ + 1]]
      BY <1>5, <2>2 DEF Advanced
    <3>. QED BY <1>2, <1>5, <2>2, <3>1, <3>2, CurrentIs
  <2>. QED BY <2>1, <2>2
<1>7. WalkOK(w, stack', ToSet(objects'))
  BY <1>1, <1>3, <1>4, <1>5, <1>6, WalkPush DEF WalkInv
<1>8. Len(Advanced) = n /\ Advanced \in Seq(StackEntry \cup GoodEntry)
  <2>1. CASE n = 0
    BY <1>6, <2>1, EmptySeq
  <2>2. CASE n # 0
    <3>1. stack \in Seq(StackEntry) /\ n \in 1..n /\ stack[n] \in StackEntry
      BY <1>5, <2>2, SeqIs DEF WalkInv, WalkState
    <3>. DEFINE g == [stack[n] EXCEPT !.next = @ + 1]
    <3>2. g \in StackEntry
      BY <3>1 DEF StackEntry
    <3>. HIDE DEF g
    <3>3. [stack EXCEPT ![n] = g] \in Seq(StackEntry) /\ Len([stack EXCEPT ![n] = g]) = n
      BY <1>5, <3>1, <3>2, ExceptSeq
    <3>4. Advanced = [stack EXCEPT ![n] = g]
      BY <1>6, <2>2 DEF g
    <3>5. StackEntry \cup GoodEntry = StackEntry
      BY DEF GoodEntry
    <3>. QED BY <3>3, <3>4, <3>5
  <2>. QED BY <2>1, <2>2
<1>9. Len(stack') = n + 1 /\ stack' # <<>>
  BY <1>1, <1>8, AppendProperties, EmptySeq
<1>10. Len(stack') <= MaxDepth
  BY <1>5, <1>9, BoundsOK
<1>. QED BY <1>1, <1>2, <1>4, <1>7, <1>9, <1>10, WalkStep

LEMMA CollectReturnWalks == ASSUME WalkInv, CollectReturn PROVE WalkInv'
<1>1. /\ progress = "collect" /\ Finished /\ stack # <<>>
      /\ UNCHANGED <<graph, root, objects, held, written>> /\ Continue(Front(stack))
  BY DEF CollectReturn, Finished, argument
<1>2. PICK w : WalkOK(w, stack, ToSet(objects)) /\ NumbersOK(objects)
  BY <1>1 DEF WalkInv, WalkState
<1>3. WalkOK(w \cup {TopEntry.node}, Front(stack), ToSet(objects))
  BY <1>1, <1>2, EntryIs, WalkPop DEF WalkInv
<1>4. stack' = Front(stack) /\ progress' = IF stack' = <<>> THEN "encode" ELSE "collect"
  BY <1>1 DEF Continue
<1>5. objects # <<>> /\ root = Root
  <2>1. objects # <<>>
    BY <1>1, EntryIs, SetOfNone
  <2>. QED BY <2>1 DEF WalkInv, WalkState
<1>6. Len(stack') <= MaxDepth
  <2>1. PICK n \in Nat \ {0} : n = Len(stack) /\ n <= MaxDepth
    BY <1>1, EntryIs DEF WalkInv, WalkState
  <2>2. stack \in Seq(StackEntry)
    BY DEF WalkInv, WalkState
  <2>3. Len(Front(stack)) = n - 1
    BY <2>1, <2>2, SubSeqProperties DEF Front
  <2>. QED BY <1>4, <2>1, <2>3, BoundsOK
<1>7. held' \subseteq {"objects", "bytes"}
  BY <1>1 DEF WalkInv, WalkState
<1>. QED BY <1>1, <1>2, <1>3, <1>4, <1>5, <1>6, <1>7, WalkStep

\* The other steps end the walk, or come after it.
LEMMA OtherWalks ==
    ASSUME WalkInv,
           \/ CreateDataRefuses \/ CreateData \/ CollectRefuses \/ CollectBadKey
           \/ CollectUnsupported \/ CollectNoMemory \/ Unwind \/ GiveUp
           \/ Encode \/ EncodeNoMemory \/ Wrap
    PROVE  WalkInv'
<1>1. graph' = graph /\ root' = root
  BY DEF CreateDataRefuses, CreateData, CollectRefuses, CollectBadKey, CollectUnsupported,
     CollectNoMemory, Unwind, GiveUp, Encode, EncodeNoMemory, Wrap, argument
<1>. SUFFICES WalkState(progress', stack', objects', held', written')
  BY <1>1, WalkKept
<1>. USE DEF WalkState
<1>0. WalkState(progress, stack, objects, held, written)
  BY DEF WalkInv
<1>2. CASE CreateDataRefuses
  <2>1. progress = "idle" /\ progress' = "done" /\ UNCHANGED <<stack, objects, held, written>>
    BY <1>2 DEF CreateDataRefuses
  <2>. QED BY <1>0, <2>1
<1>3. CASE CreateData
  <2>1. progress = "idle" /\ progress' = "collect" /\ UNCHANGED <<stack, objects, held, written>>
    BY <1>3 DEF CreateData
  <2>. QED BY <1>0, <2>1, WalkNothing, SetOfNone
<1>4. CASE CollectRefuses \/ CollectBadKey \/ CollectNoMemory
  <2>1. progress = "collect" /\ progress' = "unwind" /\ UNCHANGED <<stack, objects, held, written>>
    BY <1>4 DEF CollectRefuses, CollectBadKey, CollectNoMemory, New
  <2>. QED BY <1>0, <2>1
<1>5. CASE CollectUnsupported
  <2>1. progress = "collect" /\ progress' = "unwind" /\ UNCHANGED <<stack, written>>
        /\ New /\ CollectorAppend
    BY <1>5 DEF CollectUnsupported, New
  <2>2. root = Root /\ held' \subseteq {"objects", "bytes"} /\ objects' \in Seq(Node)
    BY <2>1, NewNumber, NumbersAre DEF WalkInv
  <2>. QED BY <1>0, <2>1, <2>2
<1>6. CASE Unwind
  <2>1. progress = "unwind" /\ stack # <<>> /\ stack' = Front(stack)
        /\ UNCHANGED <<progress, objects, held, written>>
    BY <1>6 DEF Unwind
  <2>2. PICK n \in Nat \ {0} : n = Len(stack) /\ n <= MaxDepth
    BY <1>0, <2>1, SeqIs, EmptySeq
  <2>3. Front(stack) \in Seq(StackEntry) /\ Len(Front(stack)) = n - 1
    BY <1>0, <2>2, SubSeqProperties DEF Front
  <2>4. Len(stack') <= MaxDepth
    BY <2>1, <2>2, <2>3, BoundsOK
  <2>. QED BY <1>0, <2>1, <2>3, <2>4
<1>7. CASE GiveUp \/ EncodeNoMemory
  <2>1. progress \in {"unwind", "encode"} /\ progress' = "done" /\ held' = {}
        /\ UNCHANGED <<stack, objects, written>>
    BY <1>7 DEF GiveUp, EncodeNoMemory, FreeAll
  <2>. QED BY <1>0, <2>1
<1>8. CASE Encode
  <2>1. progress = "encode" /\ UNCHANGED <<stack, objects, written>>
        /\ \/ progress' = progress /\ held' = held \cup {"bytes"}
           \/ progress' = "done" /\ held' = {}
    BY <1>8 DEF Encode, FreeAll
  <2>. QED BY <1>0, <2>1
<1>9. CASE Wrap
  <2>1. progress = "encode" /\ progress' = "done" /\ held' = {} /\ UNCHANGED <<stack, objects>>
    BY <1>9 DEF Wrap, FreeAll
  <2>. QED BY <1>0, <2>1
<1>. QED BY <1>2, <1>3, <1>4, <1>5, <1>6, <1>7, <1>8, <1>9

LEMMA NextWalks == WalkInv /\ [WriterNext]_writerVars => WalkInv'
<1>. SUFFICES ASSUME WalkInv, [WriterNext]_writerVars PROVE WalkInv'
  OBVIOUS
<1>1. CASE UNCHANGED writerVars
  <2>1. UNCHANGED <<graph, root, progress, stack, objects, held, written>>
    BY <1>1 DEF writerVars
  <2>. QED BY <2>1, WalkKept DEF WalkInv
<1>. QED BY <1>1, CollectSharedWalks, CollectLeafWalks, CollectContainerWalks,
            CollectReturnWalks, OtherWalks DEF WriterNext

-----------------------------------------------------------------------------
(* What is encoded names what the objects contain.                         *)

\* e is what becomes of n, when ob are the objects by their numbers.
CodeOK(e, n, ob) ==
    /\ e \in Encoded /\ e.kind = graph[n].kind /\ e.node = n
    /\ e.refs \in Seq(Nat) /\ Len(e.refs) = Len(Items(n))
    /\ \A i \in DOMAIN Items(n) :
        e.refs[i] \in Nat /\ e.refs[i] < Len(ob) /\ ob[e.refs[i] + 1] = RefOrder(n)[i]

EncodeState(ph, ob, enc, rs, wr) ==
    /\ rs \in {0, 1, 2, 4, 8} /\ enc \in Seq(Encoded)
    /\ ph \in {"idle", "collect", "unwind"} => enc = <<>>
    /\ ph = "encode" \/ wr # NULL =>
        /\ rs = ReferenceSize(Len(ob)) /\ Len(enc) <= Len(ob)
        /\ \A k \in 1..Len(enc) : CodeOK(enc[k], ob[k], ob)
    /\ wr # NULL => Len(enc) = Len(ob) /\ wr = [top |-> 0, refSize |-> rs, table |-> enc]

EncodeInv == EncodeState(progress, objects, encoded, refSize, written)

LEMMA NodesCounted ==
    ASSUME graph \in Graphs, NEW ob, NumbersOK(ob)
    PROVE  /\ Len(ob) \in Nat /\ DOMAIN ob = 1..Len(ob) /\ Len(ob) <= ByteBase ^ 8
           /\ ob # <<>> => Len(ob) # 0
           /\ IsFiniteSet(ToSet(ob)) /\ Cardinality(ToSet(ob)) = Len(ob)
<1>1. PICK n \in Nat : n = Len(ob) /\ DOMAIN ob = 1..n /\ (n = 0 <=> ob = <<>>) /\ ob \in Seq(Node)
  BY NumbersAre, SeqIs, EmptySeq
<1>2. ob \in [1..n -> ToSet(ob)] /\ \A y \in ToSet(ob) : \E k \in 1..n : ob[k] = y
  <2>1. \A y : y \in ToSet(ob) <=> \E k \in 1..n : y = ob[k]
    BY <1>1 DEF ToSet
  <2>2. ob \in [1..n -> Node]
    BY <1>1, SeqDef
  <2>3. \A k \in 1..n : ob[k] \in ToSet(ob)
    BY <2>1
  <2>. QED BY <2>1, <2>2, <2>3
<1>3. \A i, j \in 1..n : ob[i] = ob[j] => i = j
  BY <1>1 DEF NumbersOK
<1>4. ob \in Bijection(1..n, ToSet(ob))
  BY <1>2, <1>3 DEF Bijection, Injection, Surjection, IsInjective
<1>5. IsFiniteSet(1..n) /\ Cardinality(1..n) = n
  <2>1. 1 \in Int /\ n \in Int
    BY <1>1
  <2>2. IsFiniteSet(1..n) /\ Cardinality(1..n) = IF 1 > n THEN 0 ELSE n - 1 + 1
    BY <2>1, FS_Interval
  <2>. QED BY <1>1, <2>2
<1>6. IsFiniteSet(ToSet(ob)) /\ Cardinality(ToSet(ob)) = n
  BY <1>4, <1>5, FS_Bijection DEF ExistsBijection
<1>7. ToSet(ob) \in SUBSET Node
  BY <1>1, SeqIs DEF ToSet
<1>8. n <= Cardinality(Node) /\ Cardinality(Node) \in Nat
  BY <1>6, <1>7, NodesOK, FS_Subset, FS_CardinalityType
<1>9. ByteBase ^ 8 \in Int
  BY BoundsOK
<1>10. n <= ByteBase ^ 8
  BY <1>8, <1>9, NodesOK
<1>. QED BY <1>1, <1>6, <1>10

LEMMA LeastWidth ==
    ASSUME NEW fits \in SUBSET {1, 2, 4, 8}, fits # {}
    PROVE  (CHOOSE w \in fits : \A v \in fits : w <= v) \in fits
<1>1. \A v \in fits : v \in {1, 2, 4, 8}
  OBVIOUS
<1>2. \E w \in fits : \A v \in fits : w <= v
  <2>1. CASE 1 \in fits
    BY <1>1, <2>1
  <2>2. CASE 1 \notin fits /\ 2 \in fits
    BY <1>1, <2>2
  <2>3. CASE 1 \notin fits /\ 2 \notin fits /\ 4 \in fits
    BY <1>1, <2>3
  <2>4. CASE 1 \notin fits /\ 2 \notin fits /\ 4 \notin fits
    <3>1. 8 \in fits
      BY <1>1, <2>4
    <3>. QED BY <1>1, <2>4, <3>1
  <2>. QED BY <2>1, <2>2, <2>3, <2>4
<1>. QED BY <1>2

\* The references have room for every number.
LEMMA ReferenceFits ==
    ASSUME NEW n \in Nat \ {0}, n <= ByteBase ^ 8, NEW i \in Nat, i < n,
           NEW rs, rs = ReferenceSize(n)
    PROVE  rs \in {1, 2, 4, 8} /\ i % (ByteBase ^ rs) = i
<1>. DEFINE fits == {w \in {1, 2, 4, 8} : n - 1 < ByteBase ^ w}
<1>1. 8 \in fits
  <2>1. ByteBase ^ 8 \in Int
    BY BoundsOK
  <2>. QED BY <2>1
<1>2. rs = CHOOSE w \in fits : \A v \in fits : w <= v
  BY <1>1 DEF ReferenceSize
<1>3. fits \in SUBSET {1, 2, 4, 8} /\ fits # {}
  BY <1>1
<1>4. rs \in fits
  <2>. HIDE DEF fits
  <2>. QED BY <1>2, <1>3, LeastWidth
<1>5. rs \in {1, 2, 4, 8} /\ n - 1 < ByteBase ^ rs
  BY <1>4
<1>6. CASE rs = 1
  <2>1. ByteBase ^ 1 \in Int
    BY BoundsOK
  <2>2. i < ByteBase ^ 1
    BY <1>5, <1>6, <2>1
  <2>. QED BY <1>6, <2>1, <2>2
<1>7. CASE rs = 2
  <2>1. ByteBase ^ 2 \in Int
    BY BoundsOK
  <2>2. i < ByteBase ^ 2
    BY <1>5, <1>7, <2>1
  <2>. QED BY <1>7, <2>1, <2>2
<1>8. CASE rs = 4
  <2>1. ByteBase ^ 4 \in Int
    BY BoundsOK
  <2>2. i < ByteBase ^ 4
    BY <1>5, <1>8, <2>1
  <2>. QED BY <1>8, <2>1, <2>2
<1>9. CASE rs = 8
  <2>1. ByteBase ^ 8 \in Int
    BY BoundsOK
  <2>2. i < ByteBase ^ 8
    BY <1>5, <1>9, <2>1
  <2>. QED BY <1>9, <2>1, <2>2
<1>. QED BY <1>5, <1>6, <1>7, <1>8, <1>9

LEMMA FindIs ==
    ASSUME graph \in Graphs, NumbersOK(objects), NEW o \in ToSet(objects)
    PROVE  /\ FindObjectIndex(o) \in Nat /\ FindObjectIndex(o) < Len(objects)
           /\ objects[FindObjectIndex(o) + 1] = o
<1>1. PICK n \in Nat : n = Len(objects) /\ DOMAIN objects = 1..n
  BY NodesCounted
<1>2. PICK k \in 1..n : objects[k] = o
  BY <1>1 DEF ToSet
<1>3. \A j \in 1..n : objects[j] = o => j = k
  BY <1>1, <1>2 DEF NumbersOK
<1>. DEFINE c == CHOOSE i \in DOMAIN objects :
                    objects[i] = o /\ \A j \in DOMAIN objects : objects[j] = o => i <= j
<1>4. c \in 1..n /\ objects[c] = o
  <2>1. \E i \in DOMAIN objects :
            objects[i] = o /\ \A j \in DOMAIN objects : objects[j] = o => i <= j
    <3>1. \A j \in DOMAIN objects : objects[j] = o => k <= j
      BY <1>1, <1>3
    <3>. QED BY <1>1, <1>2, <3>1
  <2>. QED BY <1>1, <2>1
<1>5. FindObjectIndex(o) = c - 1
  BY DEF FindObjectIndex
<1>. HIDE DEF c
<1>6. c - 1 \in Nat /\ c - 1 < n /\ c - 1 + 1 = c
  BY <1>4
<1>. QED BY <1>1, <1>4, <1>5, <1>6

\* A dictionary's keys come first, then its values.
LEMMA RefOrderIs ==
    ASSUME graph \in Graphs, NEW n \in Node
    PROVE  /\ DOMAIN RefOrder(n) = DOMAIN Items(n)
           /\ \A i \in DOMAIN Items(n) : RefOrder(n)[i] \in Node /\ RefOrder(n)[i] \in Elements[n]
           /\ graph[n].kind # "dictionary" => RefOrder(n) = Items(n)
           /\ graph[n].kind = "dictionary" =>
                LET half == Len(Items(n)) \div 2
                IN  /\ half \in Nat /\ Len(Items(n)) = half + half
                    /\ \A i \in 1..half : /\ RefOrder(n)[i] = Items(n)[2 * i - 1]
                                          /\ RefOrder(n)[half + i] = Items(n)[2 * i]
<1>1. /\ Len(Items(n)) \in Nat /\ DOMAIN Items(n) = 1..Len(Items(n))
      /\ \A i \in DOMAIN Items(n) : Items(n)[i] \in Node /\ Items(n)[i] \in Elements[n]
      /\ graph[n].kind = "dictionary" => Len(Items(n)) % 2 = 0
  BY GraphIs
<1>2. CASE graph[n].kind # "dictionary"
  <2>1. RefOrder(n) = Items(n)
    BY <1>2 DEF RefOrder
  <2>. QED BY <1>1, <1>2, <2>1
<1>3. CASE graph[n].kind = "dictionary"
  <2>1. PICK h \in Nat : h = Len(Items(n)) \div 2 /\ Len(Items(n)) = h + h
    <3>1. Len(Items(n)) % 2 = 0 /\ Len(Items(n)) \in Nat
      BY <1>1, <1>3
    <3>. HIDE DEF Items
    <3>. QED BY <3>1
  <2>2. RefOrder(n) = [i \in 1..(2 * h) |-> IF i <= h THEN Items(n)[2 * i - 1]
                                            ELSE Items(n)[2 * (i - h)]]
    BY <1>3, <2>1 DEF RefOrder
  <2>3. 2 * h = h + h
    BY <2>1
  <2>4. DOMAIN RefOrder(n) = DOMAIN Items(n)
    BY <1>1, <2>1, <2>2, <2>3
  <2>5. \A i \in 1..h : RefOrder(n)[i] = Items(n)[2 * i - 1] /\ 2 * i - 1 \in DOMAIN Items(n)
    <3>1. \A i \in 1..h : i \in 1..(2 * h) /\ i <= h /\ 2 * i - 1 \in 1..(h + h)
      BY <2>1
    <3>. QED BY <1>1, <2>1, <2>2, <3>1
  <2>6. \A i \in 1..h : RefOrder(n)[h + i] = Items(n)[2 * i] /\ 2 * i \in DOMAIN Items(n)
    <3>1. \A i \in 1..h : /\ h + i \in 1..(2 * h) /\ ~(h + i <= h) /\ 2 * ((h + i) - h) = 2 * i
                          /\ 2 * i \in 1..(h + h)
      BY <2>1
    <3>. QED BY <1>1, <2>1, <2>2, <3>1
  <2>7. ASSUME NEW i \in DOMAIN Items(n)
        PROVE  RefOrder(n)[i] \in Node /\ RefOrder(n)[i] \in Elements[n]
    <3>1. i \in 1..h \/ \E j \in 1..h : i = h + j
      <4>1. i \in 1..(h + h)
        BY <1>1, <2>1, <2>7
      <4>2. CASE i <= h
        BY <4>1, <4>2
      <4>3. CASE ~(i <= h)
        <5>1. i - h \in 1..h /\ i = h + (i - h)
          BY <4>1, <4>3
        <5>. QED BY <5>1
      <4>. QED BY <4>2, <4>3
    <3>. QED BY <1>1, <2>5, <2>6, <3>1
  <2>. QED BY <1>3, <2>1, <2>4, <2>5, <2>6, <2>7
<1>. QED BY <1>2, <1>3

LEMMA CodeIs ==
    ASSUME graph \in Graphs, NumbersOK(objects), NEW n \in Node, Elements[n] \subseteq ToSet(objects),
           refSize = ReferenceSize(Len(objects)), objects # <<>>
    PROVE  CodeOK(EncodeObject(n), n, objects)
<1>. DEFINE ro == RefOrder(n)
            refs == [i \in DOMAIN ro |-> Reference(FindObjectIndex(ro[i]))]
            find == [i \in DOMAIN ro |-> FindObjectIndex(ro[i])]
<1>1. /\ DOMAIN ro = DOMAIN Items(n) /\ DOMAIN Items(n) = 1..Len(Items(n))
      /\ Len(Items(n)) \in Nat /\ \A i \in DOMAIN ro : ro[i] \in ToSet(objects)
      /\ graph[n].kind \in ObjectKinds
  BY RefOrderIs, GraphIs
<1>. HIDE DEF ro
<1>2. PICK m \in Nat \ {0} : m = Len(objects) /\ m <= ByteBase ^ 8
  BY NodesCounted
<1>3. ASSUME NEW i \in DOMAIN ro
      PROVE  refs[i] \in Nat /\ refs[i] < m /\ objects[refs[i] + 1] = ro[i]
  <2>1. PICK f \in Nat : f = FindObjectIndex(ro[i]) /\ f < m /\ objects[f + 1] = ro[i]
    BY <1>1, <1>2, <1>3, FindIs
  <2>2. f % (ByteBase ^ refSize) = f
    BY <1>2, <2>1, ReferenceFits
  <2>3. refs[i] = f
    BY <1>3, <2>1, <2>2 DEF Reference
  <2>. QED BY <2>1, <2>3
<1>4. EncodeObject(n) = [kind |-> graph[n].kind, node |-> n, refs |-> refs]
  BY DEF EncodeObject, ro
<1>5. DOMAIN refs = 1..Len(Items(n))
  BY <1>1
<1>. HIDE DEF refs
<1>6. refs \in [1..Len(Items(n)) -> Nat]
  BY <1>1, <1>3, <1>5, <1>4 DEF refs
<1>7. refs \in Seq(Nat) /\ Len(refs) = Len(Items(n))
  BY <1>1, <1>6, SeqDef, LenProperties
<1>8. EncodeObject(n) \in Encoded
  BY <1>1, <1>4, <1>7 DEF Encoded
<1>9. \A i \in DOMAIN Items(n) :
        refs[i] \in Nat /\ refs[i] < Len(objects) /\ objects[refs[i] + 1] = RefOrder(n)[i]
  BY <1>1, <1>2, <1>3 DEF ro
<1>. QED BY <1>4, <1>7, <1>8, <1>9 DEF CodeOK

\* Once the walk has ended, what is numbered is closed and without cycles.
LEMMA WalkEnded ==
    ASSUME WalkInv, progress = "encode" \/ written # NULL
    PROVE  /\ NumbersOK(objects) /\ objects # <<>> /\ root = Root /\ stack = <<>>
           /\ Layered(Elements, ToSet(objects)) /\ ToSet(objects) \subseteq GoodNode
           /\ Root \in ToSet(objects)
<1>1. NumbersOK(objects) /\ objects # <<>> /\ root = Root /\ stack = <<>>
  BY DEF WalkInv, WalkState
<1>2. PICK w : WalkOK(w, stack, ToSet(objects))
  BY DEF WalkInv, WalkState
<1>3. NodesOn(stack) = {}
  <2>1. Len(<<>>) = 0
    BY EmptySeq
  <2>. QED BY <1>1, <2>1 DEF NodesOn
<1>4. w = ToSet(objects)
  BY <1>2, <1>3 DEF WalkOK
<1>5. objects[1] = Root /\ 1 \in DOMAIN objects
  BY <1>1, NodesCounted DEF NumbersOK, WalkInv
<1>6. Root \in ToSet(objects)
  BY <1>5 DEF ToSet
<1>. QED BY <1>1, <1>2, <1>4, <1>6 DEF WalkOK

\* No object lacks its number.
LEMMA AllNumbered ==
    ASSUME WalkInv, progress = "encode", NEW k \in DOMAIN objects
    PROVE  /\ objects[k] \in Node /\ Elements[objects[k]] \subseteq ToSet(objects)
           /\ \A i \in DOMAIN Items(objects[k]) : Collected(Items(objects[k])[i])
<1>1. NumbersOK(objects) /\ Layered(Elements, ToSet(objects)) /\ graph \in Graphs
  BY WalkEnded DEF WalkInv
<1>2. objects[k] \in ToSet(objects) /\ objects[k] \in Node
  BY <1>1, NumbersAre, SeqIs DEF ToSet
<1>3. Elements[objects[k]] \subseteq ToSet(objects)
  BY <1>1, <1>2 DEF Layered, Closed
<1>4. \A i \in DOMAIN Items(objects[k]) : Items(objects[k])[i] \in ToSet(objects)
  BY <1>1, <1>2, <1>3, GraphIs
<1>. QED BY <1>2, <1>3, <1>4, OnStack

LEMMA CodeKept ==
    ASSUME EncodeInv, graph' = graph,
           EncodeState(progress', objects', encoded', refSize', written')
    PROVE  EncodeInv'
<1>1. \A n : Items(n)' = Items(n)
  BY SameGraph
<1>2. \A n : RefOrder(n)' = RefOrder(n)
  BY <1>1 DEF RefOrder
<1>3. \A e, n : CodeOK(e, n, objects)' <=> CodeOK(e, n, objects')
  BY <1>1, <1>2 DEF CodeOK
<1>. QED BY <1>3 DEF EncodeInv, EncodeState

LEMMA InitEncodes == WriterInit => EncodeInv
<1>1. <<>> \in Seq(Encoded)
  BY EmptySeq
<1>. QED BY <1>1 DEF WriterInit, EncodeInv, EncodeState

LEMMA ContinueIs ==
    ASSUME NEW new, Continue(new)
    PROVE  \/ progress' = "encode" /\ refSize' = ReferenceSize(Len(objects')) /\ new = <<>>
           \/ UNCHANGED <<progress, refSize>>
BY DEF Continue

LEMMA SizeKind == ASSUME NEW n PROVE ReferenceSize(n) \in {1, 2, 4, 8}
<1>. DEFINE fits == {w \in {1, 2, 4, 8} : n - 1 < ByteBase ^ w}
<1>1. ReferenceSize(n) = IF fits = {} THEN 8 ELSE CHOOSE w \in fits : \A v \in fits : w <= v
  BY DEF ReferenceSize
<1>2. fits \in SUBSET {1, 2, 4, 8}
  OBVIOUS
<1>. HIDE DEF fits
<1>3. CASE fits = {}
  BY <1>1, <1>3
<1>4. CASE fits # {}
  BY <1>1, <1>2, <1>4, LeastWidth
<1>. QED BY <1>3, <1>4

LEMMA EncodeGoes ==
    ASSUME WalkInv, EncodeInv, Encode
    PROVE  /\ progress' = progress /\ UNCHANGED <<errorOut, errors, exhausted>>
           /\ encoded' = Append(encoded, EncodeObject(objects[Len(encoded) + 1]))
           /\ Len(encoded) + 1 \in DOMAIN objects
<1>1. progress = "encode" /\ Len(encoded) < Len(objects)
  BY DEF Encode
<1>2. PICK n, m \in Nat : /\ n = Len(objects) /\ DOMAIN objects = 1..n /\ m = Len(encoded) /\ m < n
  BY <1>1, SeqIs DEF EncodeInv, EncodeState, WalkInv, WalkState
<1>3. m + 1 \in DOMAIN objects
  BY <1>2
<1>4. \A i \in DOMAIN Items(objects[m + 1]) : Collected(Items(objects[m + 1])[i])
  BY <1>1, <1>3, AllNumbered
<1>. QED BY <1>2, <1>3, <1>4 DEF Encode

LEMMA WrittenIs ==
    ASSUME EncodeInv, Wrap
    PROVE  written' # NULL
<1>1. /\ refSize \in {1, 2, 4, 8} /\ encoded \in Seq(Encoded)
      /\ written' = [top |-> 0, refSize |-> refSize, table |-> encoded]
  BY SizeKind DEF EncodeInv, EncodeState, Wrap
<1>. QED BY <1>1, NullIsNoData

LEMMA NextEncodes ==
    ASSUME WalkInv, WalkInv', EncodeInv, [WriterNext]_writerVars PROVE EncodeInv'
<1>0. EncodeState(progress, objects, encoded, refSize, written)
  BY DEF EncodeInv
<1>1. CASE UNCHANGED writerVars
  <2>1. UNCHANGED <<graph, progress, objects, encoded, refSize, written>>
    BY <1>1 DEF writerVars
  <2>. QED BY <1>0, <2>1, CodeKept
<1>2. CASE CollectReturn \/ CollectShared \/ CollectLeaf
  <2>1. /\ progress = "collect" /\ graph' = graph /\ UNCHANGED <<encoded, written>>
        /\ \/ progress' = "encode" /\ refSize' = ReferenceSize(Len(objects'))
           \/ UNCHANGED <<progress, refSize>>
    BY <1>2, ContinueIs DEF CollectReturn, CollectShared, CollectLeaf, New, argument
  <2>2. written = NULL /\ encoded = <<>> /\ Len(<<>>) = 0
    BY <1>0, <2>1, EmptySeq DEF WalkInv, WalkState, EncodeState
  <2>3. 0 <= Len(objects')
    <3>1. objects' \in Seq(Node)
      BY DEF WalkInv, WalkState
    <3>. QED BY <3>1, SeqIs
  <2>4. EncodeState(progress', objects', encoded', refSize', written')
    BY <1>0, <2>1, <2>2, <2>3, SizeKind DEF EncodeState
  <2>. QED BY <2>1, <2>4, CodeKept
<1>3. CASE \/ CreateDataRefuses \/ CreateData \/ CollectContainer \/ CollectRefuses
           \/ CollectBadKey \/ CollectUnsupported \/ CollectNoMemory \/ Unwind \/ GiveUp
  <2>1. /\ progress \in {"idle", "collect", "unwind"} /\ progress' # "encode"
        /\ graph' = graph /\ UNCHANGED <<encoded, refSize, written>>
    BY <1>3 DEF CreateDataRefuses, CreateData, CollectContainer, CollectRefuses, CollectBadKey,
       CollectUnsupported, CollectNoMemory, Unwind, GiveUp, New, argument
  <2>2. written = NULL
    BY <2>1 DEF WalkInv, WalkState
  <2>3. EncodeState(progress', objects', encoded', refSize', written')
    BY <1>0, <2>1, <2>2 DEF EncodeState
  <2>. QED BY <2>1, <2>3, CodeKept
<1>4. CASE Encode
  <2>1. /\ progress = "encode" /\ Len(encoded) < Len(objects)
        /\ graph' = graph /\ UNCHANGED <<objects, refSize, written>>
    BY <1>4 DEF Encode, argument
  <2>2. NumbersOK(objects) /\ objects # <<>> /\ graph \in Graphs /\ written = NULL
    BY <2>1, WalkEnded DEF WalkInv, WalkState
  <2>3. PICK n, m \in Nat : /\ n = Len(objects) /\ DOMAIN objects = 1..n
                            /\ m = Len(encoded) /\ m < n /\ encoded \in Seq(Encoded)
    BY <1>0, <2>1, <2>2, NodesCounted, SeqIs DEF EncodeState
  <2>. DEFINE o == objects[m + 1]
  <2>4. m + 1 \in DOMAIN objects /\ encoded' = Append(encoded, EncodeObject(o)) /\ progress' = progress
    BY <1>4, <2>3, EncodeGoes
  <2>5. o \in Node /\ Elements[o] \subseteq ToSet(objects)
    BY <2>1, <2>4, AllNumbered
  <2>7. CodeOK(EncodeObject(o), o, objects)
    BY <1>0, <2>1, <2>2, <2>5, CodeIs DEF EncodeState
  <2>8. EncodeObject(o) \in Encoded
    BY <2>7 DEF CodeOK
  <2>9. /\ encoded' \in Seq(Encoded) /\ Len(encoded') = m + 1 /\ encoded'[m + 1] = EncodeObject(o)
        /\ \A k \in 1..m : encoded'[k] = encoded[k]
    BY <2>3, <2>4, <2>8, AppendProperties
  <2>10. \A k \in 1..m : CodeOK(encoded[k], objects[k], objects)
    BY <1>0, <2>1, <2>3 DEF EncodeState
  <2>11. \A k \in 1..(m + 1) : CodeOK(encoded'[k], objects[k], objects)
    <3>1. \A k \in 1..(m + 1) : k \in 1..m \/ k = m + 1
      BY <2>3
    <3>. QED BY <2>7, <2>9, <2>10, <3>1
  <2>12. m + 1 <= n
    BY <2>3
  <2>13. EncodeState(progress', objects', encoded', refSize', written')
    BY <1>0, <2>1, <2>2, <2>3, <2>4, <2>9, <2>11, <2>12 DEF EncodeState
  <2>. QED BY <2>1, <2>13, CodeKept
<1>5. CASE EncodeNoMemory
  <2>1. /\ progress = "encode" /\ progress' = "done" /\ graph' = graph
        /\ UNCHANGED <<objects, encoded, refSize, written>>
    BY <1>5 DEF EncodeNoMemory, argument
  <2>2. written = NULL
    BY <2>1 DEF WalkInv, WalkState
  <2>3. EncodeState(progress', objects', encoded', refSize', written')
    BY <1>0, <2>1, <2>2 DEF EncodeState
  <2>. QED BY <2>1, <2>3, CodeKept
<1>6. CASE Wrap
  <2>1. /\ progress = "encode" /\ progress' = "done" /\ graph' = graph
        /\ Len(encoded) = Len(objects) /\ UNCHANGED <<objects, encoded, refSize>>
        /\ written' = [top |-> 0, refSize |-> refSize, table |-> encoded]
    BY <1>6 DEF Wrap, argument
  <2>2. EncodeState(progress', objects', encoded', refSize', written')
    BY <1>0, <2>1 DEF EncodeState
  <2>. QED BY <2>1, <2>2, CodeKept
<1>. QED BY <1>1, <1>2, <1>3, <1>4, <1>5, <1>6 DEF WriterNext

-----------------------------------------------------------------------------
(* Whatever makes the walk fail is wrong with the objects.                 *)

Writable == IsPropertyList /\ Shallow

RefuseInv ==
    progress \in {"unwind", "done"} /\ written = NULL /\ ~exhausted /\ objects # <<>> => ~Writable

LEMMA SameWritable == ASSUME graph' = graph PROVE Writable' = Writable
<1>1. /\ \A n : Items(n)' = Items(n)
      /\ Elements' = Elements /\ Reachable' = Reachable
  BY SameGraph
<1>2. IsPropertyList' = IsPropertyList
  BY <1>1 DEF IsPropertyList
<1>3. Shallow' = Shallow
  BY <1>1 DEF Shallow
<1>. QED BY <1>2, <1>3 DEF Writable

\* The activations are a path from the root through what each of them contains.
LEMMA StackPath ==
    ASSUME WalkInv, progress = "collect", stack # <<>>
    PROVE  /\ Len(stack) \in Nat \ {0} /\ stack[1].node = Root
           /\ \A k \in 1..Len(stack) : stack[k].node \in Reachable /\ stack[k].node \in Node
           /\ \A k \in 1..(Len(stack) - 1) : stack[k + 1].node \in Elements[stack[k].node]
<1>1. PICK w : WalkOK(w, stack, ToSet(objects)) /\ NumbersOK(objects)
  BY DEF WalkInv, WalkState
<1>2. PICK n \in Nat \ {0} : n = Len(stack) /\ DOMAIN stack = 1..n
                              /\ \A k \in 1..n : stack[k] \in GoodEntry
  BY <1>1, EntryIs, SeqIs DEF WalkOK
<1>3. stack[1].node = Root
  BY <1>1, <1>2 DEF WalkOK
<1>4. ASSUME NEW k \in 1..n PROVE stack[k].node \in Reachable /\ stack[k].node \in Node
  <2>1. stack[k].node \in ToSet(objects)
    BY <1>1, <1>2 DEF WalkOK, NodesOn
  <2>2. stack[k].node \in Reachable
    BY <1>1, <2>1, SeqIs DEF NumbersOK, ToSet
  <2>. QED BY <2>2, ReachableIs DEF WalkInv
<1>5. ASSUME NEW k \in 1..(n - 1) PROVE stack[k + 1].node \in Elements[stack[k].node]
  <2>1. k \in 1..n
    BY <1>2
  <2>2. /\ stack[k].node \in Node /\ stack[k].next \in Nat
        /\ stack[k].next <= Len(Items(stack[k].node)) + 1
    BY <1>2, <2>1 DEF GoodEntry, StackEntry
  <2>3. stack[k].next > 1 /\ Items(stack[k].node)[stack[k].next - 1] = stack[k + 1].node
    BY <1>1, <1>2 DEF WalkOK
  <2>4. Len(Items(stack[k].node)) \in Nat
        /\ DOMAIN Items(stack[k].node) = 1..Len(Items(stack[k].node))
    BY <2>2, GraphIs DEF WalkInv
  <2>5. stack[k].next - 1 \in DOMAIN Items(stack[k].node)
    BY <2>2, <2>3, <2>4
  <2>. QED BY <2>2, <2>3, <2>5, GraphIs DEF WalkInv
<1>. QED BY <1>2, <1>3, <1>4, <1>5

LEMMA CycleIsNone ==
    ASSUME WalkInv, progress = "collect", ~Finished, Current # NULL, StackContains(Current)
    PROVE  ~Writable
<1>1. PICK k \in DOMAIN stack : stack[k].node = Current
  BY DEF StackContains
<1>2. stack \in Seq(StackEntry)
  BY DEF WalkInv, WalkState
<1>3. stack # <<>>
  BY <1>1, <1>2, SeqIs, EmptySeq
<1>4. PICK n \in Nat \ {0} : n = Len(stack) /\ DOMAIN stack = 1..n
  BY <1>2, <1>3, SeqIs, EmptySeq
<1>. DEFINE path == [j \in 1..n |-> stack[j].node]
<1>5. path[k] \in Elements[path[n]]
  BY <1>1, <1>3, <1>4, CurrentIs, EntryIs
<1>6. /\ \A j \in 1..n : path[j] \in Reachable
      /\ \A j \in 1..(n - 1) : path[j + 1] \in Elements[path[j]]
  BY <1>3, <1>4, StackPath
<1>7. k \in 1..n
  BY <1>4
<1>. HIDE DEF path
<1>8. ~Acyclic(Elements, Reachable)
  BY <1>5, <1>6, <1>7, NoWayBack
<1>. QED BY <1>8 DEF Writable, IsPropertyList

LEMMA BadKeyIsNone ==
    ASSUME WalkInv, progress = "collect", ~Finished, Current # NULL, IsBadKey(Current)
    PROVE  ~Writable
<1>1. /\ stack # <<>> /\ graph[TopEntry.node].kind = "dictionary" /\ TopEntry.next % 2 = 1
      /\ graph[Current].kind # "string"
  BY DEF IsBadKey
<1>2. /\ TopEntry.node \in Reachable /\ TopEntry.next \in DOMAIN Items(TopEntry.node)
      /\ Current = Items(TopEntry.node)[TopEntry.next]
  BY <1>1, CurrentIs, EntryIs
<1>. QED BY <1>1, <1>2 DEF Writable, IsPropertyList

LEMMA UnsupportedIsNone ==
    ASSUME WalkInv, New, \/ graph[Current].kind \notin Containers \cup Leaves
                         \/ graph[Current].kind \in Containers /\ TooDeep
    PROVE  ~Writable
<1>1. progress = "collect" /\ ~Finished /\ Current # NULL
  BY DEF New
<1>2. Current \in Reachable /\ Current \in Node
  BY <1>1, CurrentIs
<1>3. CASE graph[Current].kind \notin Containers \cup Leaves
  <2>1. graph[Current].kind = "other"
    BY <1>2, <1>3, GraphIs DEF WalkInv, ObjectKinds
  <2>. QED BY <1>2, <2>1 DEF Writable, IsPropertyList
<1>4. CASE graph[Current].kind \in Containers /\ TooDeep
  <2>1. Len(stack) = MaxDepth /\ MaxDepth \in Nat
    <3>1. PICK n \in Nat : n = Len(stack) /\ n <= MaxDepth
      BY SeqIs DEF WalkInv, WalkState
    <3>. QED BY <1>4, <3>1, BoundsOK DEF TooDeep
  <2>. DEFINE path == [k \in 0..MaxDepth |-> IF k = MaxDepth THEN Current ELSE stack[k + 1].node]
  <2>2. CASE stack = <<>>
    <3>1. MaxDepth = 0
      BY <2>1, <2>2, EmptySeq
    <3>2. Current = Root
      BY <1>1, <2>2, CurrentIs
    <3>3. path \in [0..MaxDepth -> Node] /\ path[0] = Root /\ path[MaxDepth] = Current
      BY <1>2, <3>1, <3>2
    <3>4. \A k \in 1..MaxDepth : path[k] \in Elements[path[k - 1]]
      BY <3>1
    <3>. HIDE DEF path
    <3>. QED BY <1>4, <3>3, <3>4 DEF Writable, Shallow
  <2>3. CASE stack # <<>>
    <3>1. PICK n \in Nat \ {0} : n = MaxDepth /\ n = Len(stack)
      BY <1>1, <2>1, <2>3, EntryIs
    <3>2. /\ stack[1].node = Root
          /\ \A k \in 1..n : stack[k].node \in Node
          /\ \A k \in 1..(n - 1) : stack[k + 1].node \in Elements[stack[k].node]
      BY <1>1, <2>3, <3>1, StackPath
    <3>3. Current \in Elements[stack[n].node]
      BY <1>1, <2>3, <3>1, CurrentIs, EntryIs
    <3>4. path[MaxDepth] = Current /\ path[0] = Root
      BY <3>1, <3>2
    <3>5. path \in [0..MaxDepth -> Node]
      <4>1. \A k \in 0..MaxDepth : k # MaxDepth => k + 1 \in 1..n
        BY <3>1
      <4>. QED BY <1>2, <3>2, <4>1
    <3>6. ASSUME NEW k \in 1..MaxDepth PROVE path[k] \in Elements[path[k - 1]]
      <4>1. path[k - 1] = stack[k].node
        <5>1. k - 1 \in 0..MaxDepth /\ k - 1 # MaxDepth /\ k - 1 + 1 = k
          BY <3>1
        <5>. QED BY <5>1
      <4>2. CASE k = MaxDepth
        BY <3>1, <3>3, <3>4, <4>1, <4>2
      <4>3. CASE k # MaxDepth
        <5>1. k \in 1..(n - 1) /\ k \in 0..MaxDepth
          BY <3>1, <4>3
        <5>. QED BY <3>2, <4>1, <4>3, <5>1
      <4>. QED BY <4>2, <4>3
    <3>. HIDE DEF path
    <3>. QED BY <1>4, <3>4, <3>5, <3>6 DEF Writable, Shallow
  <2>. QED BY <2>2, <2>3
<1>. QED BY <1>3, <1>4

LEMMA ExhaustedStays ==
    ASSUME NEW out \in BOOLEAN, exhausted \in BOOLEAN, SetWriteError(out)
    PROVE  (exhausted => exhausted') /\ (out => exhausted')
BY DEF SetWriteError

LEMMA NextRefuses ==
    ASSUME WalkInv, WalkInv', EncodeInv, RefuseInv, exhausted \in BOOLEAN, [WriterNext]_writerVars
    PROVE  RefuseInv'
<1>1. CASE UNCHANGED writerVars
  <2>1. UNCHANGED <<graph, progress, written, exhausted, objects>>
    BY <1>1 DEF writerVars
  <2>. QED BY <2>1, SameWritable DEF RefuseInv
<1>2. CASE CreateDataRefuses \/ CreateData
  <2>1. progress = "idle" /\ UNCHANGED objects
    BY <1>2 DEF CreateDataRefuses, CreateData
  <2>. QED BY <2>1 DEF WalkInv, WalkState, RefuseInv
<1>3. CASE CollectReturn \/ CollectShared \/ CollectLeaf \/ CollectContainer
  <2>1. progress = "collect" /\ progress' \in {"collect", "encode"}
    BY <1>3, ContinueIs DEF CollectReturn, CollectShared, CollectLeaf, CollectContainer, New
  <2>. QED BY <2>1 DEF RefuseInv
<1>4. CASE CollectRefuses
  <2>1. /\ progress = "collect" /\ ~Finished /\ graph' = graph /\ UNCHANGED objects
        /\ Current = NULL \/ StackContains(Current)
    BY <1>4 DEF CollectRefuses, argument
  <2>2. CASE Current = NULL
    <3>1. stack = <<>>
      <4>1. SUFFICES ASSUME stack # <<>> PROVE FALSE
        OBVIOUS
      <4>2. TopEntry.next \in DOMAIN Items(TopEntry.node) /\ TopEntry.node \in Node
        BY <2>1, <4>1, EntryIs
      <4>3. Current \in Node
        BY <4>1, <4>2, GraphIs DEF Current, WalkInv
      <4>. QED BY <2>2, <4>3, RootOK
    <3>2. objects = <<>>
      BY <2>1, <3>1 DEF WalkInv, WalkState
    <3>. QED BY <2>1, <3>2 DEF RefuseInv
  <2>3. CASE Current # NULL
    BY <2>1, <2>3, CycleIsNone, SameWritable DEF RefuseInv
  <2>. QED BY <2>2, <2>3
<1>5. CASE CollectBadKey
  <2>1. progress = "collect" /\ ~Finished /\ graph' = graph /\ Current # NULL /\ IsBadKey(Current)
    BY <1>5 DEF CollectBadKey, argument
  <2>. QED BY <2>1, BadKeyIsNone, SameWritable DEF RefuseInv
<1>6. CASE CollectUnsupported
  <2>1. graph' = graph
    BY <1>6 DEF CollectUnsupported, argument
  <2>2. ~Writable
    BY <1>6, UnsupportedIsNone DEF CollectUnsupported
  <2>. QED BY <2>1, <2>2, SameWritable DEF RefuseInv
<1>7. CASE CollectNoMemory \/ EncodeNoMemory
  <2>1. SetWriteError(TRUE)
    BY <1>7 DEF CollectNoMemory, EncodeNoMemory
  <2>. QED BY <2>1, ExhaustedStays DEF RefuseInv
<1>8. CASE Unwind \/ GiveUp
  <2>1. /\ progress = "unwind" /\ graph' = graph /\ UNCHANGED <<objects, written>>
        /\ SetWriteError(FALSE) \/ exhausted' = exhausted
    BY <1>8 DEF Unwind, GiveUp, argument
  <2>2. exhausted => exhausted'
    BY <2>1, ExhaustedStays
  <2>. QED BY <2>1, <2>2, SameWritable DEF RefuseInv
<1>9. CASE Encode
  <2>1. progress = "encode" /\ progress' = progress
    BY <1>9, EncodeGoes DEF Encode
  <2>. QED BY <2>1 DEF RefuseInv
<1>10. CASE Wrap
  <2>1. written' # NULL
    BY <1>10, WrittenIs
  <2>. QED BY <2>1 DEF RefuseInv
<1>. QED BY <1>1, <1>2, <1>3, <1>4, <1>5, <1>6, <1>7, <1>8, <1>9, <1>10 DEF WriterNext

-----------------------------------------------------------------------------
(* The caller's error.                                                     *)

\* There is an error, or there was no memory for it.
Told == errorOut = "write" \/ exhausted

\* errorOut and errors once the call has begun.
OneError == errorOut \in {"none", "write"} /\ errors = IF errorOut = "write" THEN 1 ELSE 0

ErrorInv ==
    /\ wantsError \in BOOLEAN /\ exhausted \in BOOLEAN
    /\ IF progress = "idle" THEN /\ errorOut = IF wantsError THEN "stale" ELSE "none"
                                 /\ errors = 0
       ELSE OneError
    /\ progress \in {"collect", "encode"} \/ written # NULL => errorOut = "none"
    /\ progress = "unwind" /\ wantsError =>
        Told \/ (stack # <<>> /\ graph[TopEntry.node].kind = "dictionary")
    /\ progress = "done" /\ written = NULL /\ wantsError => Told

LEMMA SetWriteErrorTells ==
    ASSUME NEW out \in BOOLEAN, exhausted \in BOOLEAN, wantsError \in BOOLEAN, OneError,
           SetWriteError(out)
    PROVE  /\ exhausted' \in BOOLEAN /\ OneError' /\ (wantsError => Told')
           /\ (exhausted => exhausted')
<1>1. CASE errorOut' = "write" /\ errors' = errors + 1 /\ errorOut = "none"
           /\ exhausted' = (exhausted \/ out)
  <2>1. OneError'
    BY <1>1 DEF OneError
  <2>2. exhausted' \in BOOLEAN /\ (exhausted => exhausted')
    BY <1>1
  <2>. QED BY <1>1, <2>1, <2>2 DEF Told
<1>2. CASE UNCHANGED <<errorOut, errors>>
           /\ exhausted' = (exhausted \/ out \/ (wantsError /\ errorOut = "none"))
  <2>1. OneError'
    BY <1>2 DEF OneError
  <2>2. exhausted' \in BOOLEAN /\ (exhausted => exhausted')
        /\ (wantsError /\ errorOut = "none" => exhausted')
    BY <1>2
  <2>3. errorOut \in {"none", "write"} /\ errorOut' = errorOut
    BY <1>2 DEF OneError
  <2>4. wantsError => Told'
    BY <2>2, <2>3 DEF Told
  <2>. QED BY <2>1, <2>2, <2>4
<1>. QED BY <1>1, <1>2 DEF SetWriteError

\* A step that reports leaves the caller told.
LEMMA Reports ==
    ASSUME ErrorInv, progress # "idle", progress' \in {"unwind", "done"}, written' = NULL,
           wantsError' = wantsError, NEW out \in BOOLEAN, SetWriteError(out)
    PROVE  ErrorInv'
<1>1. exhausted \in BOOLEAN /\ wantsError \in BOOLEAN /\ OneError
  BY DEF ErrorInv
<1>2. exhausted' \in BOOLEAN /\ OneError' /\ (wantsError => Told')
  BY <1>1, SetWriteErrorTells
<1>. QED BY <1>1, <1>2 DEF ErrorInv

\* A step that leaves the error alone and does not end the walk.
LEMMA TellsStill ==
    ASSUME ErrorInv, UNCHANGED <<wantsError, errorOut, errors, exhausted>>,
           progress # "idle", progress' # "idle",
           progress' \in {"collect", "encode"} \/ written' # NULL =>
                progress \in {"collect", "encode"} \/ written # NULL,
           progress' = "unwind" /\ wantsError =>
                Told \/ (stack' # <<>> /\ graph'[TopEntry'.node].kind = "dictionary"),
           progress' = "done" /\ written' = NULL /\ wantsError => Told
    PROVE  ErrorInv'
<1>1. (OneError' <=> OneError) /\ (Told' <=> Told)
  BY DEF OneError, Told
<1>. QED BY <1>1 DEF ErrorInv

LEMMA NextReports ==
    ASSUME WalkInv, WalkInv', EncodeInv, ErrorInv, [WriterNext]_writerVars PROVE ErrorInv'
<1>1. CASE UNCHANGED writerVars
  <2>1. UNCHANGED <<graph, wantsError, progress, stack, written, errorOut, errors, exhausted>>
    BY <1>1 DEF writerVars
  <2>2. (OneError' <=> OneError) /\ (Told' <=> Told) /\ TopEntry' = TopEntry
    BY <2>1 DEF OneError, Told, TopEntry
  <2>. QED BY <2>1, <2>2 DEF ErrorInv
<1>2. CASE CreateDataRefuses
  <2>1. /\ progress = "idle" /\ progress' = "done" /\ UNCHANGED <<wantsError, written>>
        /\ errorOut' \in IF wantsError THEN {"write", "none"} ELSE {errorOut}
        /\ errors' = IF errorOut' = "write" THEN 1 ELSE 0
        /\ exhausted' = (wantsError /\ errorOut' # "write")
    BY <1>2 DEF CreateDataRefuses, ClearError, argument
  <2>2. wantsError \in BOOLEAN /\ exhausted' \in BOOLEAN /\ written = NULL
        /\ errorOut = IF wantsError THEN "stale" ELSE "none"
    BY <2>1 DEF ErrorInv, WalkInv, WalkState
  <2>3. OneError'
    BY <2>1, <2>2 DEF OneError
  <2>4. wantsError => Told'
    BY <2>1 DEF Told
  <2>. QED BY <2>1, <2>2, <2>3, <2>4 DEF ErrorInv
<1>3. CASE CreateData
  <2>1. /\ progress = "idle" /\ progress' = "collect"
        /\ UNCHANGED <<wantsError, written, errors, exhausted>>
        /\ errorOut' = IF wantsError THEN "none" ELSE errorOut
    BY <1>3 DEF CreateData, ClearError, argument
  <2>2. errorOut' = "none" /\ errors' = 0
    BY <2>1 DEF ErrorInv
  <2>3. OneError'
    BY <2>2 DEF OneError
  <2>. QED BY <2>1, <2>2, <2>3 DEF ErrorInv
<1>4. CASE CollectReturn \/ CollectShared \/ CollectLeaf \/ CollectContainer
  <2>1. /\ progress = "collect" /\ progress' \in {"collect", "encode"}
        /\ UNCHANGED <<wantsError, errorOut, errors, exhausted>>
    BY <1>4, ContinueIs DEF CollectReturn, CollectShared, CollectLeaf, CollectContainer, New, argument
  <2>. QED BY <2>1, TellsStill
<1>5. CASE CollectBadKey
  <2>1. /\ progress = "collect" /\ progress' = "unwind" /\ IsBadKey(Current)
        /\ UNCHANGED <<graph, stack, wantsError, written, errorOut, errors, exhausted>>
    BY <1>5 DEF CollectBadKey, argument
  <2>2. stack' # <<>> /\ graph'[TopEntry'.node].kind = "dictionary"
    BY <2>1 DEF IsBadKey, TopEntry
  <2>3. written = NULL
    BY <2>1 DEF WalkInv, WalkState
  <2>. QED BY <2>1, <2>2, <2>3, TellsStill
<1>6. CASE CollectRefuses \/ CollectUnsupported \/ CollectNoMemory \/ EncodeNoMemory
  <2>1. /\ progress \in {"collect", "encode"} /\ progress' \in {"unwind", "done"}
        /\ UNCHANGED <<wantsError, written>>
        /\ SetWriteError(FALSE) \/ SetWriteError(TRUE)
    BY <1>6 DEF CollectRefuses, CollectUnsupported, CollectNoMemory, EncodeNoMemory, New, argument
  <2>2. written' = NULL
    BY <2>1 DEF WalkInv, WalkState
  <2>. QED BY <2>1, <2>2, Reports
<1>7. CASE Unwind
  <2>1. /\ progress = "unwind" /\ progress' = progress /\ UNCHANGED <<graph, wantsError, written>>
        /\ IF graph[TopEntry.node].kind = "dictionary" THEN SetWriteError(FALSE)
           ELSE UNCHANGED <<errorOut, errors, exhausted>>
    BY <1>7 DEF Unwind, argument
  <2>2. written' = NULL
    BY <2>1 DEF WalkInv, WalkState
  <2>3. CASE graph[TopEntry.node].kind = "dictionary"
    BY <2>1, <2>2, <2>3, Reports
  <2>4. CASE graph[TopEntry.node].kind # "dictionary"
    <3>1. wantsError => Told
      BY <2>1, <2>4 DEF ErrorInv
    <3>. QED BY <2>1, <2>2, <2>4, <3>1, TellsStill
  <2>. QED BY <2>3, <2>4
<1>8. CASE GiveUp
  <2>1. /\ progress = "unwind" /\ progress' = "done" /\ stack = <<>>
        /\ UNCHANGED <<wantsError, written, errorOut, errors, exhausted>>
    BY <1>8 DEF GiveUp, argument
  <2>2. wantsError => Told
    BY <2>1 DEF ErrorInv
  <2>3. written' = NULL
    BY <2>1 DEF WalkInv, WalkState
  <2>. QED BY <2>1, <2>2, <2>3, TellsStill
<1>9. CASE Encode
  <2>1. progress = "encode" /\ UNCHANGED <<progress, wantsError, errorOut, errors, exhausted>>
    BY <1>9, EncodeGoes DEF Encode, argument
  <2>. QED BY <2>1, TellsStill
<1>10. CASE Wrap
  <2>1. progress = "encode" /\ progress' = "done" /\ UNCHANGED <<wantsError, errorOut, errors, exhausted>>
    BY <1>10 DEF Wrap, argument
  <2>2. written' # NULL
    BY <1>10, WrittenIs
  <2>. QED BY <2>1, <2>2, TellsStill
<1>11. CASE WriterNext
  <2>. HIDE DEF ErrorInv, WalkInv, EncodeInv
  <2>. QED BY <1>2, <1>3, <1>4, <1>5, <1>6, <1>7, <1>8, <1>9, <1>10, <1>11 DEF WriterNext
<1>. QED BY <1>1, <1>11

-----------------------------------------------------------------------------
(* The writer's theorems.                                                  *)

WriterInv == WalkInv /\ EncodeInv /\ RefuseInv /\ ErrorInv

LEMMA InitWrites == WriterInit => WriterInv
<1>. SUFFICES ASSUME WriterInit PROVE WriterInv
  OBVIOUS
<1>1. ErrorInv
  BY DEF WriterInit, ErrorInv
<1>2. RefuseInv
  BY DEF WriterInit, RefuseInv
<1>. QED BY <1>1, <1>2, InitWalks, InitEncodes DEF WriterInv

LEMMA NextWrites == WriterInv /\ [WriterNext]_writerVars => WriterInv'
<1>. SUFFICES ASSUME WriterInv, [WriterNext]_writerVars PROVE WriterInv'
  OBVIOUS
<1>1. WalkInv /\ EncodeInv /\ RefuseInv /\ ErrorInv /\ exhausted \in BOOLEAN
  BY DEF WriterInv, ErrorInv
<1>2. WalkInv'
  BY <1>1, NextWalks
<1>3. EncodeInv'
  BY <1>1, <1>2, NextEncodes
<1>4. RefuseInv'
  BY <1>1, <1>2, NextRefuses
<1>5. ErrorInv'
  BY <1>1, <1>2, NextReports
<1>. QED BY <1>2, <1>3, <1>4, <1>5 DEF WriterInv

LEMMA WriterEnds == WriterInv => WriterEndsCleanly
<1>. SUFFICES ASSUME WriterInv PROVE WriterEndsCleanly
  OBVIOUS
<1>0. WalkInv /\ EncodeInv /\ ErrorInv
  BY DEF WriterInv
<1>1. errorOut \in {"none", "stale", "write"} /\ errors \in Nat /\ errors <= 1
  <2>1. errorOut \in {"none", "stale", "write"} /\ errors \in {0, 1}
    BY <1>0 DEF ErrorInv, OneError
  <2>. QED BY <2>1
<1>2. WriterTypeOK
  <2>1. /\ graph \in Graphs /\ root \in {Root, NULL}
        /\ progress \in {"idle", "collect", "unwind", "encode", "done"}
        /\ stack \in Seq(StackEntry) /\ Len(stack) <= MaxDepth
        /\ objects \in Seq(Node) /\ held \subseteq {"objects", "bytes"}
    BY <1>0 DEF WalkInv, WalkState
  <2>2. /\ encoded \in Seq(Encoded) /\ refSize \in {0, 1, 2, 4, 8}
        /\ written = NULL \/ written = [top |-> 0, refSize |-> refSize, table |-> encoded]
    BY <1>0 DEF EncodeInv, EncodeState
  <2>3. wantsError \in BOOLEAN /\ exhausted \in BOOLEAN
    BY <1>0 DEF ErrorInv
  <2>. QED BY <1>1, <2>1, <2>2, <2>3 DEF WriterTypeOK
<1>3. ErrorTellsFailure
  <2>1. progress = "done" /\ wantsError /\ written # NULL => errorOut = "none"
    BY <1>0 DEF ErrorInv
  <2>2. progress = "done" /\ wantsError /\ written = NULL =>
            (errorOut = "write" \/ (exhausted /\ errorOut = "none"))
    BY <1>0 DEF ErrorInv, OneError, Told
  <2>. QED BY <1>1, <2>1, <2>2 DEF ErrorTellsFailure
<1>4. MemoryReturned
  BY <1>0 DEF WalkInv, WalkState, MemoryReturned
<1>. QED BY <1>2, <1>3, <1>4 DEF WriterEndsCleanly

LEMMA CodeNames ==
    ASSUME graph \in Graphs, NEW n \in Node, NEW e, CodeOK(e, n, objects)
    PROVE  LET Named(i) == objects[e.refs[i] + 1]
               half == Len(e.refs) \div 2
           IN  /\ Len(e.refs) = Len(Items(e.node))
               /\ \A i \in DOMAIN e.refs : e.refs[i] < Len(objects)
               /\ IF e.kind = "dictionary"
                  THEN \A i \in 1..half : /\ Named(i) = Items(e.node)[2 * i - 1]
                                          /\ Named(half + i) = Items(e.node)[2 * i]
                  ELSE \A i \in DOMAIN e.refs : Named(i) = Items(e.node)[i]
<1>1. /\ e.kind = graph[n].kind /\ e.node = n
      /\ e.refs \in Seq(Nat) /\ Len(e.refs) = Len(Items(n))
      /\ \A i \in DOMAIN Items(n) :
            e.refs[i] \in Nat /\ e.refs[i] < Len(objects) /\ objects[e.refs[i] + 1] = RefOrder(n)[i]
  BY DEF CodeOK
<1>2. DOMAIN Items(n) = 1..Len(Items(n)) /\ DOMAIN e.refs = 1..Len(e.refs)
  BY <1>1, GraphIs, SeqIs
<1>3. \A i \in DOMAIN e.refs : e.refs[i] < Len(objects) /\ objects[e.refs[i] + 1] = RefOrder(n)[i]
  BY <1>1, <1>2
<1>4. CASE e.kind = "dictionary"
  <2>. DEFINE half == Len(e.refs) \div 2
  <2>1. /\ half \in Nat /\ Len(Items(n)) = half + half
        /\ \A i \in 1..half : /\ RefOrder(n)[i] = Items(n)[2 * i - 1]
                              /\ RefOrder(n)[half + i] = Items(n)[2 * i]
    BY <1>1, <1>4, RefOrderIs
  <2>. HIDE DEF half
  <2>2. \A i \in 1..half : i \in DOMAIN e.refs /\ half + i \in DOMAIN e.refs
    BY <1>1, <1>2, <2>1
  <2>3. \A i \in 1..half : /\ objects[e.refs[i] + 1] = Items(e.node)[2 * i - 1]
                           /\ objects[e.refs[half + i] + 1] = Items(e.node)[2 * i]
    BY <1>1, <1>3, <2>1, <2>2
  <2>. QED BY <1>1, <1>3, <1>4, <2>3 DEF half
<1>5. CASE e.kind # "dictionary"
  <2>1. RefOrder(n) = Items(n)
    BY <1>1, <1>5, RefOrderIs
  <2>. QED BY <1>1, <1>3, <1>5, <2>1
<1>. QED BY <1>4, <1>5

LEMMA WriterWrites == WriterInv => WritesPropertyLists
<1>. SUFFICES ASSUME WriterInv PROVE WritesPropertyLists
  OBVIOUS
<1>0. WalkInv /\ EncodeInv /\ RefuseInv /\ graph \in Graphs
  BY DEF WriterInv, WalkInv
<1>1. AcceptsPropertyLists
  BY <1>0 DEF AcceptsPropertyLists, RefuseInv, Writable
<1>2. ASSUME written # NULL PROVE root = Root /\ IsPropertyList
  <2>1. /\ NumbersOK(objects) /\ root = Root /\ Layered(Elements, ToSet(objects))
        /\ ToSet(objects) \subseteq GoodNode /\ Root \in ToSet(objects)
    BY <1>0, <1>2, WalkEnded
  <2>2. ToSet(objects) \in SUBSET Node
    BY <2>1 DEF GoodNode
  <2>3. Reachable \subseteq ToSet(objects)
    BY <2>1, <2>2, RootOK, ReachInside DEF Layered, Reachable
  <2>4. Acyclic(Elements, Reachable)
    BY <2>1, <2>3, AcyclicPart DEF Layered
  <2>5. \A n \in Reachable : n \in GoodNode
    BY <2>1, <2>3
  <2>. QED BY <2>1, <2>4, <2>5 DEF IsPropertyList, GoodNode, KeyIsString
<1>3. ASSUME written # NULL
      PROVE  ToSet(objects) = Reachable /\ Len(objects) = Cardinality(Reachable)
  <2>1. /\ NumbersOK(objects) /\ Layered(Elements, ToSet(objects))
        /\ ToSet(objects) \subseteq GoodNode /\ Root \in ToSet(objects)
    BY <1>0, <1>3, WalkEnded
  <2>2. ToSet(objects) \in SUBSET Node
    BY <2>1 DEF GoodNode
  <2>3. Reachable \subseteq ToSet(objects)
    BY <2>1, <2>2, RootOK, ReachInside DEF Layered, Reachable
  <2>4. ToSet(objects) \subseteq Reachable
    BY <2>1, SeqIs DEF NumbersOK, ToSet
  <2>. QED BY <1>0, <2>1, <2>3, <2>4, NodesCounted
<1>4. ASSUME written # NULL, NEW e \in ToSet(encoded)
      PROVE  \E n \in Node : CodeOK(e, n, objects)
  <2>1. /\ encoded \in Seq(Encoded) /\ Len(encoded) = Len(objects)
        /\ \A k \in 1..Len(encoded) : CodeOK(encoded[k], objects[k], objects)
    BY <1>0, <1>4 DEF EncodeInv, EncodeState
  <2>2. PICK k \in DOMAIN encoded : e = encoded[k]
    BY <1>4 DEF ToSet
  <2>3. k \in 1..Len(encoded) /\ k \in DOMAIN objects /\ objects \in Seq(Node)
    BY <1>0, <2>1, <2>2, SeqIs DEF WalkInv, WalkState
  <2>4. objects[k] \in Node
    BY <2>3, SeqIs
  <2>. QED BY <2>1, <2>2, <2>3, <2>4
<1>5. ReferencesAgree
  <2>. SUFFICES ASSUME written # NULL PROVE ReferencesAgree
    BY DEF ReferencesAgree
  <2>1. ASSUME NEW e \in ToSet(encoded)
        PROVE  LET Named(i) == objects[e.refs[i] + 1]
                   half == Len(e.refs) \div 2
               IN  /\ Len(e.refs) = Len(Items(e.node))
                   /\ \A i \in DOMAIN e.refs : e.refs[i] < Len(objects)
                   /\ IF e.kind = "dictionary"
                      THEN \A i \in 1..half : /\ Named(i) = Items(e.node)[2 * i - 1]
                                              /\ Named(half + i) = Items(e.node)[2 * i]
                      ELSE \A i \in DOMAIN e.refs : Named(i) = Items(e.node)[i]
    BY <1>0, <1>4, <2>1, CodeNames
  <2>. QED BY <1>3, <2>1 DEF ReferencesAgree
<1>. QED BY <1>1, <1>2, <1>5 DEF WritesPropertyLists, WritesPropertyListsOnly

\* While somebody reads, the writer rests.
LEMMA WriterStep ==
    RoundTripNext => [WriterNext]_writerVars
BY DEF RoundTripNext, ReadBack

\* CFPropertyListCreateData: of all graphs of objects exactly the property lists
\* are written, when memory suffices and no path is too long; each object once, and
\* with references that name what it contains.
THEOREM Writes == RoundTripSpec => []WritesPropertyLists
<1>1. RoundTripInit => WriterInv
  BY InitWrites DEF RoundTripInit
<1>2. WriterInv /\ [RoundTripNext]_<<writerVars, vars>> => WriterInv'
  <2>1. [RoundTripNext]_<<writerVars, vars>> => [WriterNext]_writerVars
    BY WriterStep
  <2>. QED BY <2>1, NextWrites
<1>3. WriterInv => WritesPropertyLists
  BY WriterWrites
<1>. QED BY <1>1, <1>2, <1>3, PTL DEF RoundTripSpec

\* A call of the writer ends as it should, whichever of its steps fails: its memory
\* is given back, and the caller can tell.
THEOREM WriterEnding == RoundTripSpec => []WriterEndsCleanly
<1>1. RoundTripInit => WriterInv
  BY InitWrites DEF RoundTripInit
<1>2. WriterInv /\ [RoundTripNext]_<<writerVars, vars>> => WriterInv'
  <2>1. [RoundTripNext]_<<writerVars, vars>> => [WriterNext]_writerVars
    BY WriterStep
  <2>. QED BY <2>1, NextWrites
<1>3. WriterInv => WriterEndsCleanly
  BY WriterEnds
<1>. QED BY <1>1, <1>2, <1>3, PTL DEF RoundTripSpec

-----------------------------------------------------------------------------
(* The reader gets the data that the writer returned.                      *)

LEMMA AscendingAll ==
    ASSUME NEW n \in Nat
    PROVE  /\ Cardinality(1..n) = n /\ Ascending(1..n) = [k \in 1..n |-> k]
<1>1. ASSUME NEW m \in Nat PROVE IsFiniteSet(1..m) /\ Cardinality(1..m) = m
  <2>1. 1 \in Int /\ m \in Int
    BY <1>1
  <2>2. IsFiniteSet(1..m) /\ Cardinality(1..m) = IF 1 > m THEN 0 ELSE m - 1 + 1
    BY <2>1, FS_Interval
  <2>. QED BY <1>1, <2>2
<1>2. ASSUME NEW x \in 1..n PROVE Cardinality({y \in 1..n : y <= x}) = x
  <2>1. {y \in 1..n : y <= x} = 1..x /\ x \in Nat
    BY <1>2
  <2>. QED BY <1>1, <2>1
<1>3. ASSUME NEW k \in 1..n
      PROVE  (CHOOSE x \in 1..n : Cardinality({y \in 1..n : y <= x}) = k) = k
  BY <1>2, <1>3
<1>4. Cardinality(1..n) = n
  BY <1>1
<1>. QED BY <1>3, <1>4 DEF Ascending

LEMMA LenDomain ==
    ASSUME NEW X, NEW s \in Seq(X), NEW n \in Nat, DOMAIN s = 1..n
    PROVE  Len(s) = n
<1>1. PICK m \in Nat : m = Len(s) /\ DOMAIN s = 1..m
  BY SeqIs
<1>2. 1..m = 1..n
  BY <1>1
<1>. QED BY <1>1, <1>2

\* A dictionary with different keys keeps them all, and all values.
LEMMA AllStored ==
    ASSUME DocumentOK(doc), NEW o \in Numbers,
           Entry(o).kind = "dictionary" =>
                \A a, b \in 1..Pairs(o) : a # b => ~Same(Entry(o).refs[a], Entry(o).refs[b])
    PROVE  Stored(o) = Entry(o).refs
<1>1. Numbers = Numbered(doc) /\ Entry(o) = Item(doc, o)
  BY DEF Numbers, NumObjects, Numbered, Entry, Item
<1>2. CASE Entry(o).kind # "dictionary"
  BY <1>2 DEF Stored
<1>3. CASE Entry(o).kind = "dictionary"
  <2>1. PICK s \in Seq(Nat), n \in Nat :
            /\ s = Entry(o).refs /\ n = Pairs(o)
            /\ Len(s) = n + n /\ DOMAIN s = 1..(n + n)
    BY <1>1, <1>3, ItemIs DEF IsDict, Half, Pairs
  <2>2. \A a, b \in 1..n : a # b => ~Same(s[a], s[b])
    BY <1>3, <2>1
  <2>3. KeptKeys(o) = 1..n
    <3>1. \A i \in 1..n : \A j \in 1..(i - 1) : j \in 1..n /\ i # j
      BY <2>1
    <3>. QED BY <2>1, <2>2, <3>1 DEF KeptKeys
  <2>4. KeptValues(o) = 1..n
    <3>1. \A i \in 1..n : \A j \in (i + 1)..n : j \in 1..n /\ i # j
      BY <2>1
    <3>. QED BY <2>1, <2>2, <3>1 DEF KeptValues
  <2>. DEFINE keys == [k \in 1..n |-> s[0 + k]]
              vals == [k \in 1..n |-> s[n + k]]
  <2>5. Picked(s, 1..n, 0) = keys /\ Picked(s, 1..n, n) = vals
    BY <2>1, AscendingAll DEF Picked
  <2>6. keys \in Seq(Nat) /\ Len(keys) = n /\ vals \in Seq(Nat) /\ Len(vals) = n
    <3>1. \A k \in 1..n : 0 + k \in 1..(n + n) /\ n + k \in 1..(n + n)
      BY <2>1
    <3>2. \A k \in 1..n : s[0 + k] \in Nat /\ s[n + k] \in Nat
      BY <2>1, <3>1, SeqIs
    <3>3. keys \in [1..n -> Nat] /\ vals \in [1..n -> Nat]
      BY <3>2
    <3>4. keys \in Seq(Nat) /\ vals \in Seq(Nat)
      BY <3>3, SeqDef
    <3>5. DOMAIN keys = 1..n /\ DOMAIN vals = 1..n
      OBVIOUS
    <3>. HIDE DEF keys, vals
    <3>6. Len(keys) = n
      BY <2>1, <3>4, <3>5, LenDomain
    <3>7. Len(vals) = n
      BY <2>1, <3>4, <3>5, LenDomain
    <3>. QED BY <3>4, <3>6, <3>7
  <2>7. \A k \in 1..n : keys[k] = s[k] /\ vals[k] = s[n + k]
    <3>1. \A k \in 1..n : 0 + k = k
      BY <2>1
    <3>. QED BY <3>1
  <2>8. Stored(o) = keys \o vals
    BY <1>3, <2>1, <2>3, <2>4, <2>5 DEF Stored
  <2>. HIDE DEF keys, vals
  <2>9. /\ keys \o vals \in Seq(Nat) /\ Len(keys \o vals) = n + n
        /\ \A k \in 1..(n + n) : (keys \o vals)[k] = IF k <= n THEN keys[k] ELSE vals[k - n]
    <3>1. keys \in Seq(Nat) /\ vals \in Seq(Nat) /\ Len(keys) = n /\ Len(vals) = n
      BY <2>6
    <3>2. keys \o vals \in Seq(Nat) /\ Len(keys \o vals) = Len(keys) + Len(vals)
      BY <3>1, ConcatProperties
    <3>3. \A k \in 1..(Len(keys) + Len(vals)) :
              (keys \o vals)[k] = IF k <= Len(keys) THEN keys[k] ELSE vals[k - Len(keys)]
      BY <3>1, ConcatProperties
    <3>. QED BY <3>1, <3>2, <3>3
  <2>10. ASSUME NEW k \in 1..(n + n) PROVE (keys \o vals)[k] = s[k]
    <3>1. CASE k <= n
      <4>1. k \in 1..n
        BY <2>10, <3>1
      <4>. QED BY <2>7, <2>9, <3>1, <4>1
    <3>2. CASE ~(k <= n)
      <4>1. k - n \in 1..n /\ n + (k - n) = k
        BY <2>10, <3>2
      <4>. QED BY <2>7, <2>9, <3>2, <4>1
    <3>. QED BY <3>1, <3>2
  <2>11. keys \o vals = s
    <3>1. keys \o vals \in Seq(Nat) /\ s \in Seq(Nat) /\ Len(keys \o vals) = Len(s)
      BY <2>1, <2>9
    <3>2. \A k \in 1..Len(keys \o vals) : (keys \o vals)[k] = s[k]
      BY <2>9, <2>10
    <3>. QED BY <3>1, <3>2, SeqEqual
  <2>. QED BY <2>1, <2>8, <2>11
<1>. QED BY <1>2, <1>3

LEMMA WrittenHas ==
    ASSUME WriterInv, written # NULL
    PROVE  /\ graph \in Graphs /\ NumbersOK(objects) /\ root = Root /\ objects[1] = Root
           /\ written = [top |-> 0, refSize |-> refSize, table |-> encoded]
           /\ Len(objects) \in Nat \ {0} /\ DOMAIN objects = 1..Len(objects)
           /\ DOMAIN encoded = 1..Len(objects)
           /\ Layered(Elements, ToSet(objects))
           /\ \A k \in 1..Len(objects) :
                /\ CodeOK(encoded[k], objects[k], objects)
                /\ objects[k] \in GoodNode /\ objects[k] \in Node
                /\ objects[k] \in ToSet(objects)
<1>1. /\ graph \in Graphs /\ NumbersOK(objects) /\ objects # <<>> /\ root = Root
      /\ Layered(Elements, ToSet(objects)) /\ ToSet(objects) \subseteq GoodNode
  BY WalkEnded DEF WriterInv, WalkInv
<1>2. PICK n \in Nat : n = Len(objects) /\ n # 0 /\ DOMAIN objects = 1..n
  BY <1>1, NodesCounted
<1>3. /\ encoded \in Seq(Encoded) /\ Len(encoded) = n
      /\ \A k \in 1..Len(encoded) : CodeOK(encoded[k], objects[k], objects)
      /\ written = [top |-> 0, refSize |-> refSize, table |-> encoded]
  BY <1>2 DEF WriterInv, EncodeInv, EncodeState
<1>4. DOMAIN encoded = 1..n
  BY <1>3, SeqIs
<1>5. objects[1] = Root
  BY <1>1 DEF NumbersOK
<1>6. \A k \in 1..n : objects[k] \in ToSet(objects)
  BY <1>2 DEF ToSet
<1>7. \A k \in 1..n : objects[k] \in GoodNode /\ objects[k] \in Node
  BY <1>1, <1>6 DEF GoodNode
<1>. QED BY <1>1, <1>2, <1>3, <1>4, <1>5, <1>6, <1>7

LEMMA NoLength ==
    ASSUME NEW X, NEW s \in Seq(X), Len(s) = 0
    PROVE  s = <<>>
BY EmptySeq

\* The data is a document.
LEMMA DataIs ==
    ASSUME WriterInv, written # NULL
    PROVE  /\ DocumentOK(Data(written))
           /\ Data(written).trailer /\ Data(written).offsets /\ Data(written).top = 0
           /\ Len(Data(written).table) = Len(objects) /\ Len(written.table) = Len(objects)
           /\ \A k \in 1..Len(objects) :
                Data(written).table[k] =
                    [kind |-> graph[objects[k]].kind, refs |-> encoded[k].refs,
                     text |-> Text[objects[k]]]
<1>1. PICK n \in Nat \ {0} : n = Len(objects) /\ DOMAIN encoded = 1..n
  BY WrittenHas
<1>2. written.top = 0 /\ written.table = encoded /\ graph \in Graphs
  BY WrittenHas
<1>3. \A k \in 1..n : CodeOK(encoded[k], objects[k], objects) /\ objects[k] \in GoodNode
  BY <1>1, WrittenHas
<1>. DEFINE d == Data(written)
            rows == [k \in 1..n |-> [kind |-> encoded[k].kind, refs |-> encoded[k].refs,
                                      text |-> Text[encoded[k].node]]]
<1>4. d = [trailer |-> TRUE, offsets |-> TRUE, top |-> 0, table |-> rows]
  BY <1>1, <1>2 DEF Data
<1>5. d.trailer = TRUE /\ d.offsets = TRUE /\ d.top = 0 /\ d.table = rows
  BY <1>4
<1>6. \A k \in 1..n :
        rows[k] = [kind |-> graph[objects[k]].kind, refs |-> encoded[k].refs,
                    text |-> Text[objects[k]]]
  BY <1>3 DEF CodeOK
<1>7. Len(rows) = n /\ DOMAIN rows = 1..n
  <2>. DEFINE V == {rows[k] : k \in 1..n}
  <2>1. rows \in [1..n -> V]
    OBVIOUS
  <2>2. rows \in Seq(V)
    BY <2>1, SeqDef
  <2>3. DOMAIN rows = 1..n
    OBVIOUS
  <2>. HIDE DEF rows, V
  <2>. QED BY <2>2, <2>3, LenDomain
<1>8. Len(encoded) = n
  <2>1. encoded \in Seq(Encoded)
    BY DEF WriterInv, EncodeInv, EncodeState
  <2>. QED BY <1>1, <2>1, LenDomain
<1>9. ASSUME NEW k \in 1..n
      PROVE  /\ rows[k].kind \in Kinds /\ rows[k].refs \in Seq(Nat)
             /\ rows[k].kind = "dictionary" => Len(rows[k].refs) % 2 = 0
             /\ rows[k].kind \notin Containers => rows[k].refs = <<>>
  <2>1. PICK g : g = objects[k] /\ g \in GoodNode /\ CodeOK(encoded[k], g, objects)
    BY <1>3, <1>9
  <2>2. rows[k].kind = graph[g].kind /\ rows[k].refs = encoded[k].refs
    BY <1>6, <1>9, <2>1
  <2>3. encoded[k].refs \in Seq(Nat) /\ Len(encoded[k].refs) = Len(Items(g))
    BY <2>1 DEF CodeOK
  <2>4. g \in Node /\ graph[g].kind # "other"
    BY <2>1 DEF GoodNode
  <2>5. /\ graph[g].kind \in ObjectKinds
        /\ graph[g].kind = "dictionary" => Len(Items(g)) % 2 = 0
        /\ graph[g].kind \notin Containers => Items(g) = <<>>
    BY <1>2, <2>4, GraphIs
  <2>6. rows[k].kind \in Kinds
    BY <2>2, <2>4, <2>5 DEF Kinds, ObjectKinds
  <2>7. rows[k].kind = "dictionary" => Len(rows[k].refs) % 2 = 0
    BY <2>2, <2>3, <2>5
  <2>8. rows[k].kind \notin Containers => rows[k].refs = <<>>
    <3>1. Items(g) = <<>> => Len(encoded[k].refs) = 0
      BY <2>3
    <3>. QED BY <2>2, <2>3, <2>5, <3>1, NoLength
  <2>. QED BY <2>2, <2>3, <2>6, <2>7, <2>8
<1>. HIDE DEF rows
<1>10. DocumentOK(d)
  <2>1. d.trailer \in BOOLEAN /\ d.offsets \in BOOLEAN
    BY <1>5
  <2>2. /\ Len(d.table) \in Nat \ {0} /\ DOMAIN d.table = 1..Len(d.table)
        /\ d.top \in 0..(Len(d.table) - 1)
    BY <1>5, <1>7
  <2>3. DOMAIN d.table = 1..n
    BY <1>5, <1>7
  <2>. HIDE DEF d
  <2>. QED BY <1>5, <1>9, <2>1, <2>2, <2>3 DEF DocumentOK
<1>. QED BY <1>1, <1>2, <1>5, <1>6, <1>7, <1>8, <1>10

-----------------------------------------------------------------------------
(* Of a document that was written, entry o stands for object Original(o).  *)

LEMMA CopyIs ==
    ASSUME WriterInv, written # NULL, doc = Data(written), NEW o \in Numbers
    PROVE  /\ o + 1 \in 1..Len(objects) /\ Original(o) = objects[o + 1]
           /\ Original(o) \in Node /\ Original(o) \in GoodNode /\ Original(o) \in ToSet(objects)
           /\ Entry(o).kind = graph[Original(o)].kind
           /\ Entry(o).text = Text[Original(o)]
           /\ Entry(o).refs = encoded[o + 1].refs
           /\ CodeOK(encoded[o + 1], Original(o), objects)
<1>1. PICK n \in Nat \ {0} : n = Len(objects) /\ n = Len(doc.table)
  BY DataIs, WrittenHas
<1>2. o + 1 \in 1..n
  BY <1>1 DEF Numbers, NumObjects
<1>3. Entry(o) = [kind |-> graph[objects[o + 1]].kind, refs |-> encoded[o + 1].refs,
                  text |-> Text[objects[o + 1]]]
  BY <1>1, <1>2, DataIs DEF Entry
<1>. QED BY <1>1, <1>2, <1>3, WrittenHas DEF Original

\* What it refers to stands for what the object contains.
LEMMA CopyRefers ==
    ASSUME WriterInv, written # NULL, doc = Data(written), NEW o \in Numbers
    PROVE  /\ DOMAIN Entry(o).refs = DOMAIN Items(Original(o))
           /\ Entry(o).refs \in Seq(Nat) /\ Len(Entry(o).refs) = Len(Items(Original(o)))
           /\ \A k \in DOMAIN Entry(o).refs :
                /\ Entry(o).refs[k] \in Numbers
                /\ Original(Entry(o).refs[k]) = RefOrder(Original(o))[k]
                /\ Original(Entry(o).refs[k]) \in Elements[Original(o)]
<1>1. PICK g \in Node : /\ g = Original(o) /\ CodeOK(encoded[o + 1], g, objects)
                        /\ Entry(o).refs = encoded[o + 1].refs
  BY CopyIs
<1>2. PICK r \in Seq(Nat) :
        /\ r = Entry(o).refs /\ Len(r) = Len(Items(g))
        /\ \A i \in DOMAIN Items(g) :
            r[i] \in Nat /\ r[i] < Len(objects) /\ objects[r[i] + 1] = RefOrder(g)[i]
  BY <1>1 DEF CodeOK
<1>3. graph \in Graphs /\ Len(objects) \in Nat /\ Len(doc.table) = Len(objects)
  BY DataIs, WrittenHas
<1>4. DOMAIN r = DOMAIN Items(g)
  BY <1>2, <1>3, GraphIs, SeqIs
<1>5. \A i \in DOMAIN Items(g) : r[i] \in Numbers /\ Original(r[i]) = RefOrder(g)[i]
  BY <1>2, <1>3 DEF Numbers, NumObjects, Original
<1>6. \A i \in DOMAIN Items(g) : RefOrder(g)[i] \in Elements[g]
  BY <1>3, RefOrderIs
<1>. QED BY <1>1, <1>2, <1>4, <1>5, <1>6

\* The keys of a dictionary stand first, and are strings.
LEMMA CopyKeys ==
    ASSUME WriterInv, written # NULL, doc = Data(written), NEW o \in Numbers,
           Entry(o).kind = "dictionary", NEW k \in 1..Pairs(o)
    PROVE  /\ k \in Nat /\ k \in DOMAIN Entry(o).refs
           /\ 2 * k - 1 \in DOMAIN Items(Original(o)) /\ (2 * k - 1) % 2 = 1
           /\ Original(Entry(o).refs[k]) = Items(Original(o))[2 * k - 1]
           /\ graph[Items(Original(o))[2 * k - 1]].kind = "string"
<1>1. PICK g \in Node : /\ g = Original(o) /\ g \in GoodNode /\ graph[g].kind = "dictionary"
  BY CopyIs
<1>2. graph \in Graphs
  BY WrittenHas
<1>3. PICK h \in Nat : /\ h = Len(Items(g)) \div 2 /\ Len(Items(g)) = h + h
                       /\ \A i \in 1..h : RefOrder(g)[i] = Items(g)[2 * i - 1]
  BY <1>1, <1>2, RefOrderIs
<1>4. DOMAIN Items(g) = 1..(h + h)
  BY <1>2, <1>3, GraphIs
<1>5. Pairs(o) = h
  BY <1>1, <1>3, CopyRefers DEF Pairs
<1>6. k \in 1..h /\ k \in 1..(h + h) /\ 2 * k - 1 \in 1..(h + h) /\ (2 * k - 1) % 2 = 1
  BY <1>5
<1>7. k \in DOMAIN Entry(o).refs
  BY <1>1, <1>4, <1>6, CopyRefers
<1>8. Original(Entry(o).refs[k]) = Items(g)[2 * k - 1]
  BY <1>1, <1>3, <1>6, <1>7, CopyRefers
<1>9. graph[Items(g)[2 * k - 1]].kind = "string"
  BY <1>1, <1>4, <1>6 DEF GoodNode, KeyIsString
<1>. QED BY <1>1, <1>4, <1>6, <1>7, <1>8, <1>9

LEMMA CopySound ==
    ASSUME WriterInv, written # NULL, doc = Data(written), NEW o \in Numbers
    PROVE  Sound(o)
<1>1. Entry(o).kind # "corrupt"
  <2>1. graph[Original(o)].kind \in ObjectKinds
    BY CopyIs, WrittenHas, GraphIs
  <2>. QED BY <2>1, CopyIs DEF ObjectKinds, Containers, Leaves
<1>2. ASSUME Entry(o).kind = "dictionary", NEW k \in 1..Pairs(o)
      PROVE  Entry(Entry(o).refs[k]).kind = "string"
  <2>1. /\ Entry(o).refs[k] \in Numbers
        /\ graph[Original(Entry(o).refs[k])].kind = "string"
    BY <1>2, CopyKeys, CopyRefers
  <2>. QED BY <2>1, CopyIs
<1>. QED BY <1>1, <1>2 DEF Sound

\* No two keys have the same characters: the dictionary keeps all pairs.
LEMMA CopyStored ==
    ASSUME WriterInv, written # NULL, doc = Data(written), NEW o \in Numbers
    PROVE  Stored(o) = Entry(o).refs
<1>1. ASSUME Entry(o).kind = "dictionary", NEW a \in 1..Pairs(o), NEW b \in 1..Pairs(o), a # b
      PROVE  ~Same(Entry(o).refs[a], Entry(o).refs[b])
  <2>. DEFINE g == Original(o)
              i == 2 * a - 1
              j == 2 * b - 1
  <2>1. /\ a \in Nat /\ i \in DOMAIN Items(g) /\ i % 2 = 1 /\ graph[Items(g)[i]].kind = "string"
        /\ Entry(o).refs[a] \in Numbers /\ Original(Entry(o).refs[a]) = Items(g)[i]
    BY <1>1, CopyKeys, CopyRefers
  <2>2. /\ b \in Nat /\ j \in DOMAIN Items(g) /\ j % 2 = 1 /\ graph[Items(g)[j]].kind = "string"
        /\ Entry(o).refs[b] \in Numbers /\ Original(Entry(o).refs[b]) = Items(g)[j]
    BY <1>1, CopyKeys, CopyRefers
  <2>3. i # j
    BY <1>1, <2>1, <2>2
  <2>4. g \in Node /\ graph \in Graphs /\ graph[g].kind = "dictionary"
    BY <1>1, CopyIs, WrittenHas
  <2>. HIDE DEF g, i, j
  <2>5. Text[Items(g)[i]] # Text[Items(g)[j]]
    BY <2>1, <2>2, <2>3, <2>4, KeysDiffer DEF Items
  <2>6. Entry(Entry(o).refs[a]).text # Entry(Entry(o).refs[b]).text
    BY <2>1, <2>2, <2>5, CopyIs
  <2>. QED BY <2>6 DEF Same
<1>2. DocumentOK(doc)
  BY DataIs
<1>. QED BY <1>1, <1>2, AllStored

\* The data is a document as it should be, every entry of it.
LEMMA CopyWellFormed ==
    ASSUME WriterInv, written # NULL, doc = Data(written)
    PROVE  WellFormed
<1>1. /\ Numbers = 0..(Len(objects) - 1) /\ 0 \in Numbers /\ doc.top = 0
      /\ doc.trailer /\ doc.offsets
  BY DataIs, WrittenHas DEF Numbers, NumObjects
<1>2. Closed(RefersTo, Numbers)
  <2>1. ASSUME NEW o \in Numbers PROVE RefersTo[o] \subseteq Numbers
    <3>1. \A k \in DOMAIN Entry(o).refs : Entry(o).refs[k] \in Numbers
      BY <2>1, CopyRefers
    <3>. QED BY <2>1, <3>1 DEF RefersTo, ToSet
  <2>. QED BY <2>1 DEF Closed
<1>3. Acyclic(RefersTo, Numbers)
  <2>1. ASSUME NEW T \in SUBSET Numbers, T # {} PROVE \E o \in T : RefersTo[o] \cap T = {}
    <3>. DEFINE U == {Original(o) : o \in T}
    <3>1. U \in SUBSET ToSet(objects) /\ U # {}
      BY <2>1, CopyIs
    <3>2. PICK g \in U : Elements[g] \cap U = {}
      BY <3>1, WrittenHas DEF Layered, Acyclic
    <3>3. PICK o \in T : g = Original(o)
      OBVIOUS
    <3>4. o \in Numbers
      BY <2>1
    <3>5. ASSUME NEW p \in RefersTo[o] PROVE Original(p) \in Elements[g]
      <4>1. PICK k \in DOMAIN Entry(o).refs : p = Entry(o).refs[k]
        BY <3>4, <3>5 DEF RefersTo, ToSet
      <4>. QED BY <3>3, <3>4, <4>1, CopyRefers
    <3>6. \A p \in T : Original(p) \in U
      OBVIOUS
    <3>. HIDE DEF U
    <3>. QED BY <3>2, <3>5, <3>6
  <2>. QED BY <2>1 DEF Acyclic
<1>4. \A o \in Numbers : Sound(o)
  BY CopySound
<1>. QED BY <1>1, <1>2, <1>3, <1>4 DEF WellFormed

LEMMA OrderIs ==
    ASSUME graph \in Graphs, NEW n \in Node
    PROVE  RefOrder(n) = [k \in DOMAIN Items(n) |-> RefOrder(n)[k]]
<1>1. PICK m \in Nat : m = Len(Items(n)) /\ DOMAIN Items(n) = 1..m /\ Items(n) \in [1..m -> Node]
  BY GraphIs, LenProperties
<1>2. CASE graph[n].kind # "dictionary"
  <2>1. RefOrder(n) = Items(n)
    BY <1>2 DEF RefOrder
  <2>. QED BY <1>1, <2>1
<1>3. CASE graph[n].kind = "dictionary"
  <2>. DEFINE h == m \div 2
              F == [i \in 1..(2 * h) |-> IF i <= h THEN Items(n)[2 * i - 1]
                                         ELSE Items(n)[2 * (i - h)]]
  <2>1. RefOrder(n) = F
    BY <1>1, <1>3 DEF RefOrder
  <2>2. F = [k \in DOMAIN F |-> F[k]]
    OBVIOUS
  <2>3. DOMAIN RefOrder(n) = DOMAIN Items(n)
    BY RefOrderIs
  <2>. HIDE DEF F
  <2>. QED BY <2>1, <2>2, <2>3
<1>. QED BY <1>2, <1>3

\* What is read is what was written.
LEMMA CopySame ==
    ASSUME WriterInv, written # NULL, doc = Data(written), IInv, BuiltInv
    PROVE  SameAgain
<1>. SUFFICES ASSUME result # NULL
              PROVE  /\ Original(result) = root
                     /\ \A i \in Whole :
                         /\ Entry(i).kind = graph[Original(i)].kind
                         /\ Entry(i).text = Text[Original(i)]
                         /\ [k \in DOMAIN Stored(i) |-> Original(Stored(i)[k])]
                                = RefOrder(Original(i))
  BY DEF SameAgain
<1>1. result = doc.top
  BY DEF BuiltInv, Built
<1>2. Original(result) = root
  <2>1. doc.top = 0 /\ objects[1] = Root /\ root = Root
    BY DataIs, WrittenHas
  <2>. QED BY <1>1, <2>1 DEF Original
<1>3. Whole \subseteq Numbers
  BY DEF Whole, Reach
<1>4. ASSUME NEW i \in Numbers
      PROVE  [k \in DOMAIN Stored(i) |-> Original(Stored(i)[k])] = RefOrder(Original(i))
  <2>1. PICK n \in Node : n = Original(i)
    BY CopyIs
  <2>2. PICK r : r = Entry(i).refs /\ r = Stored(i)
    BY CopyStored
  <2>3. DOMAIN r = DOMAIN Items(n) /\ \A k \in DOMAIN r : Original(r[k]) = RefOrder(n)[k]
    BY <2>1, <2>2, CopyRefers
  <2>4. [k \in DOMAIN r |-> Original(r[k])] = [k \in DOMAIN Items(n) |-> RefOrder(n)[k]]
    BY <2>3
  <2>. QED BY <2>1, <2>2, <2>4, OrderIs, WrittenHas
<1>. QED BY <1>2, <1>3, <1>4, CopyIs

LEMMA CopyReads ==
    ASSUME WriterInv, written # NULL, doc = Data(written), IInv, BuiltInv, WellInv, TellInv
    PROVE  ReadsWhatItWrote
<1>. SUFFICES ASSUME phase = "done", ~refused PROVE result # NULL /\ error = "none"
  BY DEF ReadsWhatItWrote
<1>1. result # NULL
  BY CopyWellFormed, WellAccepts DEF AcceptsWellFormed
<1>2. error # "stale" /\ error # "read"
  BY <1>1 DEF TellInv
<1>3. error \in {"none", "stale", "read"}
  BY DEF IInv, RestOK
<1>. QED BY <1>1, <1>2, <1>3

-----------------------------------------------------------------------------
(* The two calls, one after the other.                                     *)

\* The reader's invariants, which its steps keep.
ReaderInv == IInv /\ BuiltInv /\ WellInv /\ TellInv

\* What is read is what was written, and stays so.
RoundInv ==
    /\ WriterInv
    /\ IF phase = "none" THEN Waiting
       ELSE written # NULL /\ doc = Data(written) /\ ReaderInv

LEMMA StartReads == Start => ReaderInv
BY StartIInv, StartBuilt, StartWell, StartTells DEF ReaderInv

LEMMA StartReadsNext == Start' => ReaderInv'
BY StartReads, PTL

LEMMA NextReads == ReaderInv /\ [Next]_vars => ReaderInv' /\ UNCHANGED doc
BY NextIInv, NextBuilt, NextWellInv, NextTells, DocStays DEF ReaderInv

LEMMA ReaderPhase == ReaderInv => phase # "none"
BY DEF ReaderInv, IInv, RestOK

LEMMA ReaderPhaseNext == ReaderInv' => phase' # "none"
<1>1. ReaderInv' => (phase # "none")'
  BY ReaderPhase, PTL
<1>. QED BY <1>1

LEMMA InitRound == RoundTripInit => RoundInv
BY InitWrites DEF RoundTripInit, RoundInv, Waiting

LEMMA WriterDone == WriterInv /\ written # NULL => ~WriterNext
<1>1. WriterInv /\ written # NULL => progress = "done"
  BY DEF WriterInv, WalkInv, WalkState
<1>2. WriterNext => progress # "done"
  BY DEF WriterNext, CreateDataRefuses, CreateData, CollectReturn, CollectShared, CollectLeaf,
     CollectContainer, CollectRefuses, CollectBadKey, CollectUnsupported, CollectNoMemory,
     Unwind, GiveUp, Encode, EncodeNoMemory, Wrap, New
<1>. QED BY <1>1, <1>2

LEMMA ReadBackStarts == WriterInv /\ Waiting /\ ReadBack => Start'
<1>. SUFFICES ASSUME WriterInv, Waiting, ReadBack PROVE Start'
  OBVIOUS
<1>1. /\ written # NULL /\ doc' = Data(written) /\ phase' = "idle" /\ control' = [op |-> "loop"]
      /\ rc' = [i \in 0..(Len(written.table) - 1) |-> 0]
      /\ wants' = TRUE /\ error' = "stale"
      /\ UNCHANGED <<frames, cache, inProgress, todo, tables, arrays, format, made, refused, result>>
  BY DEF ReadBack
<1>2. DocumentOK(Data(written)) /\ Len(Data(written).table) = Len(written.table)
  BY <1>1, DataIs
<1>3. Numbers' = 0..(Len(written.table) - 1)
  BY <1>1, <1>2 DEF Numbers, NumObjects
<1>4. DocumentOK(doc)'
  BY <1>1, <1>2 DEF DocumentOK
<1>5. /\ phase' = "idle" /\ frames' = <<>> /\ cache' = {} /\ inProgress' = {} /\ todo' = <<>>
      /\ tables' = FALSE /\ arrays' = {} /\ format' = "stale" /\ made' = 0
      /\ refused' = FALSE /\ result' = NULL
  BY <1>1 DEF Waiting
<1>. QED BY <1>1, <1>3, <1>4, <1>5 DEF Start

LEMMA NextRound == RoundInv /\ [RoundTripNext]_<<writerVars, vars>> => RoundInv'
<1>. SUFFICES ASSUME RoundInv, [RoundTripNext]_<<writerVars, vars>> PROVE RoundInv'
  OBVIOUS
<1>1. WriterInv'
  <2>1. [WriterNext]_writerVars
    BY WriterStep
  <2>. QED BY <2>1, NextWrites DEF RoundInv
<1>2. CASE phase = "none" /\ ~ReadBack
  <2>1. UNCHANGED vars
    BY <1>2 DEF RoundTripNext
  <2>2. Waiting'
    BY <1>2, <2>1 DEF RoundInv, Waiting, vars
  <2>. QED BY <1>1, <1>2, <2>1, <2>2 DEF RoundInv, vars
<1>3. CASE ReadBack
  <2>1. phase = "none" /\ written # NULL /\ UNCHANGED writerVars /\ doc' = Data(written)
    BY <1>3 DEF ReadBack
  <2>2. ReaderInv'
    BY <1>3, <2>1, ReadBackStarts, StartReadsNext DEF RoundInv
  <2>3. written' = written
    BY <2>1 DEF writerVars
  <2>4. doc' = Data(written)'
    BY <2>1, <2>3 DEF Data
  <2>. QED BY <1>1, <2>1, <2>2, <2>3, <2>4, ReaderPhaseNext DEF RoundInv
<1>4. CASE phase # "none"
  <2>1. written # NULL /\ doc = Data(written) /\ ReaderInv
    BY <1>4 DEF RoundInv
  <2>2. UNCHANGED writerVars /\ [Next]_vars
    BY <1>4, <2>1, WriterDone DEF RoundTripNext, RoundInv, ReadBack
  <2>3. ReaderInv' /\ doc' = doc
    BY <2>1, <2>2, NextReads
  <2>4. written' = written
    BY <2>2 DEF writerVars
  <2>5. doc' = Data(written)'
    BY <2>1, <2>3, <2>4 DEF Data
  <2>. QED BY <1>1, <2>1, <2>3, <2>4, <2>5, ReaderPhaseNext DEF RoundInv
<1>. QED BY <1>2, <1>3, <1>4

LEMMA RoundGives == RoundInv => RoundTrips
<1>. SUFFICES ASSUME RoundInv PROVE RoundTrips
  OBVIOUS
<1>1. CASE phase = "none"
  BY <1>1 DEF RoundInv, Waiting, RoundTrips, SameAgain, ReadsWhatItWrote
<1>2. CASE phase # "none"
  BY <1>2, CopySame, CopyReads DEF RoundInv, ReaderInv, RoundTrips
<1>. QED BY <1>1, <1>2

\* CFPropertyListCreateData and CFPropertyListCreateWithData: what the one has
\* written the other reads as what it was, object for object with what was shared
\* shared again, and it reads all of it unless memory runs out.
THEOREM RoundTripsAgain == RoundTripSpec => []RoundTrips
<1>1. RoundInv => RoundTrips
  BY RoundGives
<1>. QED BY <1>1, InitRound, NextRound, PTL DEF RoundTripSpec
===============================================================================
