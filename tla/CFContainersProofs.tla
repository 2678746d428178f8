--------------------------- MODULE CFContainersProofs ---------------------------
(***************************************************************************)
(* The heap of CFArray.c and CFDictionary.c: between any two pieces of a   *)
(* call every live object is counted as often as it is referred to and     *)
(* nothing that is referred to is dead, and its pieces together do what    *)
(* Collections says of the call, for any number of objects, any depth of   *)
(* nesting and any bounds.                                                 *)
(***************************************************************************)
EXTENDS CFContainers, SequencesExt, FiniteSetTheorems, SequenceTheorems, TLAPS

-----------------------------------------------------------------------------
(* How often elements of a set occur in a sequence, and in the sequences   *)
(* that a function gives; and what the operations on sequences do to it.   *)

\* Where s has an element of A, and how often.
At(s, A) == {j \in DOMAIN s : s[j] \in A}
Occ(s, A) == Cardinality(At(s, A))

\* 1 if x is in A.
In(x, A) == IF x \in A THEN 1 ELSE 0

LEMMA OccNat ==
    ASSUME NEW X, NEW s \in Seq(X), NEW A
    PROVE  IsFiniteSet(At(s, A)) /\ Occ(s, A) \in Nat
<1>1. IsFiniteSet(1..Len(s))
  BY LenProperties, FS_Interval
<1>2. At(s, A) \in SUBSET (1..Len(s))
  BY LenProperties DEF At
<1>. QED BY <1>1, <1>2, FS_Subset, FS_CardinalityType DEF Occ

LEMMA OccEmpty == ASSUME NEW A PROVE Occ(<<>>, A) = 0
<1>1. At(<<>>, A) = {}
  BY DEF At
<1>. QED BY <1>1, FS_EmptySet DEF Occ

LEMMA OccPositive ==
    ASSUME NEW X, NEW s \in Seq(X), NEW A, NEW j \in DOMAIN s, s[j] \in A
    PROVE  Occ(s, A) >= 1
<1>1. At(s, A) # {}
  BY DEF At
<1>. QED BY <1>1, OccNat, FS_EmptySet DEF Occ

\* The rest of a sequence, from m on.
LEMMA RestProperties ==
    ASSUME NEW X, NEW s \in Seq(X), NEW m \in 1..(Len(s) + 1)
    PROVE  /\ SubSeq(s, m, Len(s)) \in Seq(X)
           /\ Len(SubSeq(s, m, Len(s))) = Len(s) - m + 1
           /\ \A j \in 1..(Len(s) - m + 1) : SubSeq(s, m, Len(s))[j] = s[m + j - 1]
<1>. DEFINE n == Len(s)
            r == SubSeq(s, m, n)
<1>1. n \in Nat /\ m \in Int /\ 1 <= m /\ m <= n + 1 /\ s \in [1..n -> X]
  BY LenProperties
<1>2. \A i \in m..n : s[i] \in X
  BY <1>1
<1>3. /\ r \in Seq(X) /\ Len(r) = IF m <= n THEN n - m + 1 ELSE 0
      /\ \A i \in 1..(n - m + 1) : r[i] = s[m + i - 1]
  <2>. HIDE DEF n
  <2>. QED BY <1>1, <1>2, SubSeqProperties
<1>. HIDE DEF n, r
<1>4. Len(r) = n - m + 1
  BY <1>1, <1>3
<1>. QED BY <1>3, <1>4 DEF n, r

\* The element at i is taken out and those behind it move up.
LEMMA RemoveAtProperties ==
    ASSUME NEW X, NEW s \in Seq(X), NEW i \in 1..Len(s)
    PROVE  /\ RemoveAt(s, i) \in Seq(X)
           /\ Len(RemoveAt(s, i)) = Len(s) - 1
           /\ DOMAIN RemoveAt(s, i) = 1..(Len(s) - 1)
           /\ \A j \in 1..(Len(s) - 1) :
                RemoveAt(s, i)[j] = IF j < i THEN s[j] ELSE s[j+1]
<1>. DEFINE n == Len(s)
            l == SubSeq(s, 1, i-1)
            r == SubSeq(s, i+1, n)
            t == RemoveAt(s, i)
<1>1. s \in [1..n -> X] /\ n \in Nat /\ i \in Int /\ 1 <= i /\ i <= n
  BY LenProperties
<1>2. l \in Seq(X) /\ Len(l) = i - 1 /\ \A j \in 1..(i-1) : l[j] = s[j]
  BY <1>1
<1>3. r \in Seq(X) /\ Len(r) = n - i /\ \A j \in 1..(n-i) : r[j] = s[i+j]
  <2>1. i + 1 \in 1..(n + 1) /\ n - (i+1) + 1 = n - i
    BY <1>1
  <2>2. /\ r \in Seq(X) /\ Len(r) = n - (i+1) + 1
        /\ \A j \in 1..(n - (i+1) + 1) : r[j] = s[(i+1) + j - 1]
    BY <2>1, RestProperties
  <2>3. \A j \in 1..(n-i) : (i+1) + j - 1 = i + j
    BY <1>1
  <2>. HIDE DEF n, r
  <2>. QED BY <2>1, <2>2, <2>3
<1>4. t = l \o r
  BY DEF RemoveAt
<1>. HIDE DEF l, r, n
<1>5. /\ l \o r \in Seq(X) /\ Len(l \o r) = n - 1
      /\ \A j \in 1..(n - 1) : (l \o r)[j] = IF j <= i - 1 THEN l[j] ELSE r[j - (i-1)]
  BY <1>1, <1>2, <1>3, ConcatProperties
<1>. HIDE DEF t
<1>6. ASSUME NEW j \in 1..(n - 1)
      PROVE  t[j] = IF j < i THEN s[j] ELSE s[j+1]
  <2>1. CASE j < i
    <3>1. j \in 1..(i-1) /\ j <= i - 1
      BY <1>1, <2>1
    <3>. QED BY <1>2, <1>4, <1>5, <2>1, <3>1
  <2>2. CASE ~(j < i)
    <3>1. j - (i-1) \in 1..(n-i) /\ i + (j - (i-1)) = j + 1 /\ ~(j <= i - 1)
      BY <1>1, <2>2
    <3>. QED BY <1>3, <1>4, <1>5, <2>2, <3>1
  <2>. QED BY <2>1, <2>2
<1>7. t \in Seq(X) /\ Len(t) = n - 1 /\ DOMAIN t = 1..(n - 1)
  BY <1>4, <1>5, LenProperties
<1>. QED BY <1>6, <1>7 DEF n, t

LEMMA OccRemoveAt ==
    ASSUME NEW X, NEW s \in Seq(X), NEW i \in 1..Len(s), NEW A
    PROVE  Occ(s, A) = Occ(RemoveAt(s, i), A) + In(s[i], A)
<1>. DEFINE t == RemoveAt(s, i)
            n == Len(s)
            f == [j \in At(t, A) |-> IF j < i THEN j ELSE j + 1]
<1>1. /\ t \in Seq(X) /\ DOMAIN t = 1..(n - 1) /\ n \in Nat /\ DOMAIN s = 1..n
      /\ \A j \in 1..(n - 1) : t[j] = IF j < i THEN s[j] ELSE s[j+1]
  BY RemoveAtProperties, LenProperties
<1>. HIDE DEF t, n
<1>2. f \in Bijection(At(t, A), At(s, A) \ {i})
  <2>1. \A j \in At(t, A) : f[j] \in At(s, A) \ {i}
    BY <1>1 DEF At
  <2>2. \A j, k \in At(t, A) : f[j] = f[k] => j = k
    BY <1>1 DEF At
  <2>3. \A k \in At(s, A) \ {i} : \E j \in At(t, A) : f[j] = k
    <3>. SUFFICES ASSUME NEW k \in At(s, A) \ {i}
                  PROVE  \E j \in At(t, A) : f[j] = k
      OBVIOUS
    <3>1. k \in 1..n /\ k # i /\ s[k] \in A
      BY <1>1 DEF At
    <3>2. CASE k < i
      <4>1. k \in At(t, A)
        BY <1>1, <3>1, <3>2 DEF At, n
      <4>. QED BY <3>2, <4>1
    <3>3. CASE k > i
      <4>1. k - 1 \in At(t, A) /\ ~(k - 1 < i)
        BY <1>1, <3>1, <3>3 DEF At
      <4>. QED BY <3>1, <4>1
    <3>. QED BY <3>1, <3>2, <3>3
  <2>. QED BY <2>1, <2>2, <2>3 DEF Bijection, Injection, Surjection, IsInjective
<1>3. Cardinality(At(s, A) \ {i}) = Cardinality(At(t, A))
  BY <1>1, <1>2, OccNat, FS_Bijection DEF ExistsBijection
<1>4. /\ Cardinality(At(s, A) \ {i}) = IF i \in At(s, A) THEN Cardinality(At(s, A)) - 1
                                       ELSE Cardinality(At(s, A))
      /\ Cardinality(At(s, A)) \in Nat
  BY OccNat, FS_RemoveElement DEF Occ
<1>5. i \in At(s, A) <=> s[i] \in A
  BY <1>1 DEF At, n
<1>. QED BY <1>3, <1>4, <1>5 DEF Occ, In, t

LEMMA TailIsRemoveAt ==
    ASSUME NEW X, NEW s \in Seq(X), s # <<>>
    PROVE  Tail(s) = RemoveAt(s, 1) /\ Head(s) = s[1] /\ 1 \in DOMAIN s
<1>1. /\ Len(s) \in Nat /\ Len(s) > 0 /\ DOMAIN s = 1..Len(s)
  BY LenProperties, EmptySeq
<1>2. /\ Tail(s) \in Seq(X) /\ Len(Tail(s)) = Len(s) - 1
      /\ \A i \in 1..Len(Tail(s)) : Tail(s)[i] = s[i+1]
  BY HeadTailProperties
<1>. DEFINE r == RemoveAt(s, 1)
<1>3. r \in Seq(X) /\ Len(r) = Len(s) - 1 /\ \A j \in 1..(Len(s) - 1) : r[j] = s[j+1]
  <2>1. 1 \in 1..Len(s)
    BY <1>1
  <2>2. /\ r \in Seq(X) /\ Len(r) = Len(s) - 1
        /\ \A j \in 1..(Len(s) - 1) : r[j] = IF j < 1 THEN s[j] ELSE s[j+1]
    BY <2>1, RemoveAtProperties
  <2>. HIDE DEF r
  <2>3. \A j \in 1..(Len(s) - 1) : ~(j < 1)
    BY <1>1
  <2>. QED BY <2>2, <2>3
<1>4. Tail(s) = RemoveAt(s, 1)
  BY <1>1, <1>2, <1>3, SeqEqual
<1>. QED BY <1>1, <1>4

LEMMA OccTail ==
    ASSUME NEW X, NEW s \in Seq(X), s # <<>>, NEW A
    PROVE  Occ(s, A) = Occ(Tail(s), A) + In(Head(s), A)
<1>1. Tail(s) = RemoveAt(s, 1) /\ Head(s) = s[1] /\ 1 \in 1..Len(s)
  BY TailIsRemoveAt, LenProperties
<1>. QED BY <1>1, OccRemoveAt

\* x is put in front.
LEMMA ConsProperties ==
    ASSUME NEW X, NEW s \in Seq(X), NEW x \in X
    PROVE  /\ <<x>> \o s \in Seq(X) /\ <<x>> \o s # <<>>
           /\ Len(<<x>> \o s) = Len(s) + 1
           /\ (<<x>> \o s)[1] = x /\ Head(<<x>> \o s) = x /\ Tail(<<x>> \o s) = s
           /\ \A j \in 1..Len(s) : (<<x>> \o s)[j+1] = s[j]
<1>1. <<x>> \in Seq(X) /\ Len(<<x>>) = 1 /\ Len(s) \in Nat
  BY LenProperties
<1>2. /\ <<x>> \o s \in Seq(X) /\ Len(<<x>> \o s) = 1 + Len(s)
      /\ \A i \in 1..(1 + Len(s)) : (<<x>> \o s)[i] = IF i <= 1 THEN <<x>>[i] ELSE s[i - 1]
  BY <1>1, ConcatProperties
<1>. DEFINE c == <<x>> \o s
<1>3. c # <<>> /\ c[1] = x /\ \A j \in 1..Len(s) : c[j+1] = s[j]
  BY <1>1, <1>2
<1>4. /\ Tail(c) \in Seq(X) /\ Len(Tail(c)) = Len(c) - 1
      /\ \A i \in 1..Len(Tail(c)) : Tail(c)[i] = c[i+1]
  BY <1>2, <1>3, HeadTailProperties
<1>5. Tail(c) = s
  BY <1>1, <1>2, <1>3, <1>4, SeqEqual
<1>. QED BY <1>1, <1>2, <1>3, <1>5

LEMMA OccCons ==
    ASSUME NEW X, NEW s \in Seq(X), NEW x \in X, NEW A
    PROVE  Occ(<<x>> \o s, A) = Occ(s, A) + In(x, A)
<1>. DEFINE t == <<x>> \o s
<1>1. t \in Seq(X) /\ t # <<>> /\ Head(t) = x /\ Tail(t) = s
  BY ConsProperties
<1>. HIDE DEF t
<1>2. Occ(t, A) = Occ(Tail(t), A) + In(Head(t), A)
  BY <1>1, OccTail
<1>. QED BY <1>1, <1>2 DEF t

LEMMA OccAppend ==
    ASSUME NEW X, NEW s \in Seq(X), NEW x \in X, NEW A
    PROVE  Occ(Append(s, x), A) = Occ(s, A) + In(x, A)
<1>. DEFINE n == Len(s)
            t == Append(s, x)
<1>1. /\ t \in Seq(X) /\ Len(t) = n + 1 /\ DOMAIN t = 1..(n+1)
      /\ n \in Nat /\ DOMAIN s = 1..n
      /\ \A i \in 1..n : t[i] = s[i]
      /\ t[n+1] = x
  BY AppendProperties, LenProperties
<1>. HIDE DEF t
<1>2. n + 1 \notin At(s, A) /\ IsFiniteSet(At(s, A)) /\ Cardinality(At(s, A)) \in Nat
  <2>1. n + 1 \notin DOMAIN s
    BY <1>1
  <2>. QED BY <2>1, OccNat DEF At, Occ
<1>3. CASE x \in A
  <2>1. At(t, A) = At(s, A) \cup {n+1}
    BY <1>1, <1>3 DEF At
  <2>. QED BY <1>2, <1>3, <2>1, FS_AddElement DEF Occ, In, t
<1>4. CASE x \notin A
  <2>1. At(t, A) = At(s, A)
    BY <1>1, <1>4 DEF At
  <2>. QED BY <1>2, <1>4, <2>1 DEF Occ, In, t
<1>. QED BY <1>3, <1>4

LEMMA OccExcept ==
    ASSUME NEW X, NEW s \in Seq(X), NEW i \in 1..Len(s), NEW x \in X, NEW A
    PROVE  Occ([s EXCEPT ![i] = x], A) = Occ(s, A) - In(s[i], A) + In(x, A)
<1>. DEFINE t == [s EXCEPT ![i] = x]
<1>1. /\ DOMAIN s = 1..Len(s) /\ DOMAIN t = 1..Len(s) /\ t \in Seq(X)
      /\ \A j \in 1..Len(s) : t[j] = IF j = i THEN x ELSE s[j]
  BY LenProperties, ExceptSeq
<1>2. At(t, A) \ {i} = At(s, A) \ {i}
  BY <1>1 DEF At
<1>3. /\ Cardinality(At(t, A) \ {i}) = Occ(t, A) - In(x, A)
      /\ Occ(t, A) \in Nat
  <2>1. i \in At(t, A) <=> x \in A
    BY <1>1 DEF At
  <2>2. IsFiniteSet(At(t, A)) /\ Occ(t, A) \in Nat
    BY <1>1, OccNat
  <2>3. Cardinality(At(t, A) \ {i}) = IF i \in At(t, A) THEN Cardinality(At(t, A)) - 1
                                       ELSE Cardinality(At(t, A))
    BY <2>2, FS_RemoveElement
  <2>. QED BY <2>1, <2>2, <2>3 DEF Occ, In
<1>4. /\ Cardinality(At(s, A) \ {i}) = Occ(s, A) - In(s[i], A)
      /\ Occ(s, A) \in Nat
  <2>1. i \in At(s, A) <=> s[i] \in A
    BY <1>1 DEF At
  <2>2. IsFiniteSet(At(s, A)) /\ Occ(s, A) \in Nat
    BY <1>1, OccNat
  <2>3. Cardinality(At(s, A) \ {i}) = IF i \in At(s, A) THEN Cardinality(At(s, A)) - 1
                                       ELSE Cardinality(At(s, A))
    BY <2>2, FS_RemoveElement
  <2>. QED BY <2>1, <2>2, <2>3 DEF Occ, In
<1>5. In(x, A) \in Nat /\ In(s[i], A) \in Nat
  BY DEF In
<1>. HIDE DEF t
<1>6. Occ(t, A) - In(x, A) = Occ(s, A) - In(s[i], A)
  BY <1>2, <1>3, <1>4
<1>7. Occ(t, A) = Occ(s, A) - In(s[i], A) + In(x, A)
  BY <1>3, <1>4, <1>5, <1>6
<1>. QED BY <1>7 DEF t

\* The rest of a sequence from m on, and from the next one on.
LEMMA OccRest ==
    ASSUME NEW X, NEW s \in Seq(X), NEW m \in 1..Len(s), NEW A
    PROVE  Occ(SubSeq(s, m, Len(s)), A)
             = Occ(SubSeq(s, m+1, Len(s)), A) + In(s[m], A)
<1>1. Len(s) \in Nat /\ s \in [1..Len(s) -> X]
  BY LenProperties
<1>2. SubSeq(s, m+1, Len(s)) \in Seq(X)
  BY <1>1, SubSeqProperties
<1>3. SubSeq(s, m, Len(s)) = <<s[m]>> \o SubSeq(s, m+1, Len(s))
  BY <1>1, SubSeqRecursiveFirst
<1>4. s[m] \in X
  BY <1>1
<1>. QED BY <1>2, <1>3, <1>4, OccCons

-----------------------------------------------------------------------------
(* The sequences that a function gives.                                    *)

\* Where the sequences of own have an element of A.
AllAt(own, A) == UNION {{c} \X At(own[c], A) : c \in DOMAIN own}
Total(own, A) == Cardinality(AllAt(own, A))

LEMMA OneSequence ==
    ASSUME NEW X, NEW s \in Seq(X), NEW c, NEW A
    PROVE  IsFiniteSet({c} \X At(s, A)) /\ Cardinality({c} \X At(s, A)) = Occ(s, A)
<1>1. IsFiniteSet({c}) /\ Cardinality({c}) = 1
  BY FS_Singleton
<1>2. IsFiniteSet(At(s, A)) /\ Cardinality(At(s, A)) \in Nat
  BY OccNat DEF Occ
<1>3. /\ IsFiniteSet({c} \X At(s, A))
      /\ Cardinality({c} \X At(s, A)) = Cardinality({c}) * Cardinality(At(s, A))
  BY <1>1, <1>2, FS_Product
<1>. QED BY <1>1, <1>2, <1>3 DEF Occ

LEMMA TotalNat ==
    ASSUME NEW X, NEW C, IsFiniteSet(C), NEW own \in [C -> Seq(X)], NEW A
    PROVE  IsFiniteSet(AllAt(own, A)) /\ Total(own, A) \in Nat
<1>. DEFINE parts == {{c} \X At(own[c], A) : c \in C}
            f == [c \in C |-> {c} \X At(own[c], A)]
<1>1. \A p \in parts : IsFiniteSet(p)
  <2>1. ASSUME NEW c \in C PROVE IsFiniteSet({c} \X At(own[c], A))
    <3>1. own[c] \in Seq(X)
      OBVIOUS
    <3>. QED BY <3>1, OneSequence
  <2>. QED BY <2>1
<1>2. IsFiniteSet(parts)
  <2>1. f \in Surjection(C, parts)
    BY DEF Surjection
  <2>. QED BY <2>1, FS_Surjection
<1>3. IsFiniteSet(UNION parts)
  BY <1>1, <1>2, FS_UNION
<1>4. AllAt(own, A) = UNION parts
  BY DEF AllAt
<1>. QED BY <1>3, <1>4, FS_CardinalityType DEF Total

LEMMA TotalPositive ==
    ASSUME NEW X, NEW C, IsFiniteSet(C), NEW own \in [C -> Seq(X)], NEW A,
           NEW c \in C, NEW j \in DOMAIN own[c], own[c][j] \in A
    PROVE  Total(own, A) >= 1
<1>1. <<c, j>> \in AllAt(own, A)
  BY DEF AllAt, At
<1>. QED BY <1>1, TotalNat, FS_EmptySet DEF Total

\* Only the sequence of c changes.
LEMMA TotalExcept ==
    ASSUME NEW X, NEW C, IsFiniteSet(C), NEW own \in [C -> Seq(X)], NEW A,
           NEW c \in C, NEW s \in Seq(X)
    PROVE  /\ Total([own EXCEPT ![c] = s], A) = Total(own, A) + Occ(s, A) - Occ(own[c], A)
           /\ Total(own, A) \in Nat /\ Occ(s, A) \in Nat /\ Occ(own[c], A) \in Nat
<1>. DEFINE new == [own EXCEPT ![c] = s]
            Rest(f) == AllAt(f, A) \ ({c} \X At(f[c], A))
<1>1. new \in [C -> Seq(X)] /\ new[c] = s /\ own[c] \in Seq(X)
      /\ \A d \in C \ {c} : new[d] = own[d]
  OBVIOUS
<1>. HIDE DEF new
<1>2. ASSUME NEW f \in [C -> Seq(X)]
      PROVE  /\ Total(f, A) = Cardinality(Rest(f)) + Occ(f[c], A)
             /\ Total(f, A) \in Nat /\ Cardinality(Rest(f)) \in Nat /\ Occ(f[c], A) \in Nat
  <2>1. {c} \X At(f[c], A) \subseteq AllAt(f, A)
    BY DEF AllAt
  <2>2. IsFiniteSet(AllAt(f, A)) /\ Total(f, A) \in Nat
    BY TotalNat
  <2>3. IsFiniteSet({c} \X At(f[c], A)) /\ Cardinality({c} \X At(f[c], A)) = Occ(f[c], A)
    BY OneSequence
  <2>4. Cardinality(Rest(f))
          = Cardinality(AllAt(f, A)) - Cardinality(AllAt(f, A) \cap ({c} \X At(f[c], A)))
    BY <2>2, FS_Difference
  <2>5. AllAt(f, A) \cap ({c} \X At(f[c], A)) = {c} \X At(f[c], A)
    BY <2>1
  <2>6. f[c] \in Seq(X)
    OBVIOUS
  <2>7. Occ(f[c], A) \in Nat
    BY <2>6, OccNat
  <2>8. IsFiniteSet(Rest(f))
    BY <2>2, FS_Difference
  <2>9. Cardinality(Rest(f)) \in Nat
    BY <2>8, FS_CardinalityType
  <2>10. Cardinality(Rest(f)) = Total(f, A) - Occ(f[c], A)
    BY <2>3, <2>4, <2>5 DEF Total
  <2>. HIDE DEF Rest
  <2>. QED BY <2>2, <2>7, <2>9, <2>10
<1>3. Rest(new) = Rest(own)
  <2>1. ASSUME NEW f \in [C -> Seq(X)]
        PROVE  Rest(f) = UNION {{d} \X At(f[d], A) : d \in C \ {c}}
    BY DEF AllAt
  <2>2. {{d} \X At(new[d], A) : d \in C \ {c}} = {{d} \X At(own[d], A) : d \in C \ {c}}
    BY <1>1
  <2>. QED BY <1>1, <2>1, <2>2
<1>. HIDE DEF Rest
<1>4. /\ Total(new, A) = Cardinality(Rest(own)) + Occ(s, A)
      /\ Total(own, A) = Cardinality(Rest(own)) + Occ(own[c], A)
      /\ Total(own, A) \in Nat /\ Cardinality(Rest(own)) \in Nat
      /\ Occ(s, A) \in Nat /\ Occ(own[c], A) \in Nat
  BY <1>1, <1>2, <1>3
<1>. DEFINE r == Cardinality(Rest(own))
            x == Occ(s, A)
            y == Occ(own[c], A)
            total == Total(own, A)
<1>5. /\ Total(new, A) = r + x /\ total = r + y
      /\ total \in Nat /\ r \in Nat /\ x \in Nat /\ y \in Nat
  BY <1>4
<1>. HIDE DEF r, x, y, total
<1>6. Total(new, A) = total + x - y
  BY <1>5
<1>. QED BY <1>4, <1>6 DEF new, x, y, total
-----------------------------------------------------------------------------
(* The inductive invariant.                                                *)

Owned == [c \in Collection |-> OwnedSlots(c)]

\* What slots contain.
InSlots(s) == (UNION {{s[i].key, s[i].value} : i \in DOMAIN s}) \ {NULL}

\* What the client can reach through the slots the collections own.
Kept == Reachable({o \in Object : held[o] > 0},
                  [c \in Collection |-> InSlots(Owned[c])])

\* Pieces that end a call, and pieces that write a slot after a release.
MutatorOps == {"append", "set"}
CreatorOps == {"reserve", "fill"}
WritingOps == {"shift", "store"}

\* A mutator is the only piece of its call and a creator the last one.  Behind the
\* finalizer of a collection its memory is freed, once.  One slot is written.
StackOK(td) ==
    /\ \A j \in DOMAIN td : td[j].op \in MutatorOps => Len(td) = 1
    /\ \A j \in DOMAIN td : td[j].op \in CreatorOps => j = Len(td)
    /\ \A j \in DOMAIN td : td[j].op = "finalize"
                             => j < Len(td) /\ td[j+1] = FreeOf(td[j].obj)
    /\ \A i, j \in DOMAIN td :
           td[i].op = "free" /\ td[j].op = "free" /\ td[i].obj = td[j].obj => i = j
    /\ \A i, j \in DOMAIN td : td[i].op \in WritingOps /\ td[j].op \in WritingOps => i = j

\* A list given to a creation has nothing but what the client keeps.
ListOK(c, l) ==
    \A i \in DOMAIN l : /\ {l[i].key, l[i].value} \subseteq Kept \cup {NULL}
                        /\ c \in Array => l[i].key = NULL

\* The only reference to the collection under construction is the call's.
BuildingOK(c, l) == life[c] = "live" /\ rc[c] = 1 /\ held[c] = 0 /\ ListOK(c, l)

FrameOK(f) ==
    /\ f.op = "free" => life[f.obj] = "dying"
    /\ f.op = "finalize" => f.index \in 1..(Len(slots[f.obj]) + 1)
    /\ f.op \in MutatorOps =>
         /\ f.obj \in Kept \cap mutable /\ f.slot.value \in Kept
         /\ IF f.op = "append" THEN f.slot.key = NULL ELSE f.slot.key \in Kept
    /\ f.op = "reserve" =>
         BuildingOK(f.obj, f.rest) /\ slots[f.obj] = <<>> /\ Len(f.rest) <= f.room
    /\ f.op = "fill" =>
         BuildingOK(f.obj, f.rest) /\ Len(slots[f.obj]) + Len(f.rest) <= capacity[f.obj]
    /\ f.op \in WritingOps =>
         /\ f.index \in DOMAIN slots[f.obj]
         /\ f.obj \in Kept \/ \E g \in Range(todo) : g.op = "fill" /\ g.obj = f.obj

\* A collection has no storage before it is created, and its buffer until its
\* finalizer is done.
CollectionOK(c) ==
    /\ life[c] = "unborn" => slots[c] = <<>> /\ capacity[c] = 0 /\ buffers[c] = 0
    /\ life[c] = "dying" =>
         buffers[c] = IF Pending(c, "finalize") # {} /\ capacity[c] > 0 THEN 1 ELSE 0
    /\ \A i \in DOMAIN slots[c] : slots[c][i].key = NULL <=> c \in Array

\* BuffersOwned and KeysDistinct for one collection.
StoreOK(c) ==
    /\ CollectionOK(c)
    /\ life[c] = "live" => /\ buffers[c] = IF capacity[c] > 0 THEN 1 ELSE 0
                           /\ Len(slots[c]) <= capacity[c]
    /\ life[c] = "freed" => buffers[c] = 0
    /\ c \in Dictionary =>
         \A i, j \in DOMAIN slots[c] :
             i # j => ~CFEqual(slots[c][i].key, slots[c][j].key)

StorageOK == \A c \in Collection : StoreOK(c)
Balanced == CountIsReferences /\ NothingDangles
FramesOK == \A f \in Range(todo) : FrameOK(f)

IInv == TypeOK /\ Balanced /\ StorageOK /\ NoFalseAlarm /\ StackOK(todo) /\ FramesOK

-----------------------------------------------------------------------------
(* The pieces of the running call.                                         *)

LEMMA FrameFacts ==
    ASSUME NEW f \in Frame
    PROVE  /\ f.op \in {"release", "free", "finalize", "shift", "store", "append",
                        "set", "reserve", "fill"}
           /\ f.obj \in Object
           /\ f.op \in {"finalize", "shift", "store", "reserve", "fill"}
                => f.obj \in Collection
           /\ f.op = "append" => f.obj \in Array
           /\ f.op \in {"set", "store"} => f.obj \in Dictionary
           /\ f.op \in {"finalize", "shift", "store"} => f.index \in Nat
           /\ f.op = "store" => f.value \in Object
           /\ f.op \in MutatorOps => f.slot \in Slot
           /\ f.op = "reserve" => f.room \in Nat
           /\ f.op \in CreatorOps => f.rest \in Seq(Element)
           /\ f.op = "release" => f = Release(f.obj)
           /\ f.op = "free" => f = FreeOf(f.obj)
BY DEF Frame, Object, Collection, MutatorOps, CreatorOps, Release, FreeOf

\* The pieces of a call are pieces.
LEMMA PiecesTyped ==
    /\ \A o \in Object : Release(o) \in Frame /\ FreeOf(o) \in Frame
    /\ \A c \in Collection, i \in Nat : FinalizeFrom(c, i) \in Frame /\ ShiftAt(c, i) \in Frame
    /\ \A d \in Dictionary, i \in Nat, v \in Object : StoreAt(d, i, v) \in Frame
    /\ \A c \in Collection, n \in Nat, l \in Seq(Element) :
           Reserve(c, n, l) \in Frame /\ Fill(c, l) \in Frame
BY DEF Frame, Release, FreeOf, FinalizeFrom, ShiftAt, StoreAt, Reserve, Fill

\* A call that runs is its next piece and the rest.
LEMMA TodoParts ==
    ASSUME NEW td \in Seq(Frame), td # <<>>
    PROVE  /\ Head(td) \in Frame /\ Tail(td) \in Seq(Frame)
           /\ Len(Tail(td)) = Len(td) - 1 /\ Len(td) \in Nat \ {0}
           /\ Head(td) = td[1] /\ DOMAIN td = 1..Len(td)
           /\ DOMAIN Tail(td) = 1..(Len(td) - 1)
           /\ \A j \in 1..(Len(td) - 1) : Tail(td)[j] = td[j+1]
           /\ Range(td) = {Head(td)} \cup Range(Tail(td))
           /\ Range(td) \subseteq Frame
<1>1. /\ Head(td) \in Frame /\ Tail(td) \in Seq(Frame) /\ Len(Tail(td)) = Len(td) - 1
      /\ \A i \in 1..Len(Tail(td)) : Tail(td)[i] = td[i+1]
  BY HeadTailProperties
<1>2. /\ Len(td) \in Nat /\ DOMAIN td = 1..Len(td) /\ td \in [1..Len(td) -> Frame]
      /\ DOMAIN Tail(td) = 1..Len(Tail(td))
  BY <1>1, LenProperties
<1>3. Head(td) = td[1] /\ 1 \in DOMAIN td
  BY TailIsRemoveAt
<1>4. Range(td) = {td[1]} \cup {Tail(td)[j] : j \in 1..(Len(td) - 1)}
  <2>1. Range(td) \subseteq {td[1]} \cup {Tail(td)[j] : j \in 1..(Len(td) - 1)}
    <3>. SUFFICES ASSUME NEW j \in 1..Len(td), j # 1
                  PROVE  \E k \in 1..(Len(td) - 1) : td[j] = Tail(td)[k]
      BY <1>2 DEF Range
    <3>1. j - 1 \in 1..(Len(td) - 1) /\ (j - 1) + 1 = j
      BY <1>2
    <3>. QED BY <1>1, <3>1
  <2>2. {Tail(td)[j] : j \in 1..(Len(td) - 1)} \subseteq Range(td)
    BY <1>1, <1>2 DEF Range
  <2>3. td[1] \in Range(td)
    BY <1>3 DEF Range
  <2>. QED BY <2>1, <2>2, <2>3
<1>5. Range(td) \subseteq Frame
  BY <1>2 DEF Range
<1>6. Range(Tail(td)) = {Tail(td)[j] : j \in 1..(Len(td) - 1)}
  BY <1>1, <1>2 DEF Range
<1>7. Len(td) \in Nat \ {0}
  BY <1>2, <1>3
<1>8. Len(Tail(td)) = Len(td) - 1 /\ DOMAIN Tail(td) = 1..(Len(td) - 1)
  BY <1>1, <1>2
<1>9. \A j \in 1..(Len(td) - 1) : Tail(td)[j] = td[j+1]
  BY <1>1, <1>8
<1>10. Range(td) = {Head(td)} \cup Range(Tail(td))
  BY <1>3, <1>4, <1>6
<1>. QED BY <1>1, <1>2, <1>3, <1>5, <1>7, <1>8, <1>9, <1>10

LEMMA RangeCons ==
    ASSUME NEW td \in Seq(Frame), NEW f \in Frame
    PROVE  Range(<<f>> \o td) = {f} \cup Range(td)
<1>. DEFINE t == <<f>> \o td
<1>1. t \in Seq(Frame) /\ t # <<>> /\ Head(t) = f /\ Tail(t) = td
  BY ConsProperties
<1>. HIDE DEF t
<1>2. Range(t) = {Head(t)} \cup Range(Tail(t))
  BY <1>1, TodoParts
<1>. QED BY <1>1, <1>2 DEF t

\* What StackOK says of the next piece and of the rest.
LEMMA StackTop ==
    ASSUME NEW td \in Seq(Frame), td # <<>>, StackOK(td)
    PROVE  /\ StackOK(Tail(td))
           /\ Head(td).op \in MutatorOps \cup CreatorOps => Tail(td) = <<>>
           /\ \A f \in Range(Tail(td)) : f.op \notin MutatorOps
           /\ Head(td).op = "finalize" =>
                Tail(td) # <<>> /\ Head(Tail(td)) = FreeOf(Head(td).obj)
           /\ Head(td).op \in WritingOps =>
                \A f \in Range(Tail(td)) : f.op \notin WritingOps
           /\ Head(td).op = "free" =>
                \A f \in Range(Tail(td)) :
                    f.op \in {"free", "finalize"} => f.obj # Head(td).obj
<1>. DEFINE n == Len(td)
            t == Tail(td)
<1>1. /\ n \in Nat \ {0} /\ t \in Seq(Frame) /\ Len(t) = n - 1
      /\ Head(td) = td[1] /\ DOMAIN td = 1..n /\ DOMAIN t = 1..(n - 1)
      /\ \A j \in 1..(n - 1) : t[j] = td[j+1]
  BY TodoParts
<1>2. StackOK(t)
  <2>1. ASSUME NEW j \in DOMAIN t, t[j].op \in MutatorOps PROVE Len(t) = 1
    BY <1>1, <2>1 DEF StackOK
  <2>2. ASSUME NEW j \in DOMAIN t, t[j].op \in CreatorOps PROVE j = Len(t)
    BY <1>1, <2>2 DEF StackOK
  <2>3. ASSUME NEW j \in DOMAIN t, t[j].op = "finalize"
        PROVE  j < Len(t) /\ t[j+1] = FreeOf(t[j].obj)
    BY <1>1, <2>3 DEF StackOK
  <2>4. ASSUME NEW i \in DOMAIN t, NEW j \in DOMAIN t,
               t[i].op = "free" /\ t[j].op = "free" /\ t[i].obj = t[j].obj
        PROVE  i = j
    BY <1>1, <2>4 DEF StackOK
  <2>5. ASSUME NEW i \in DOMAIN t, NEW j \in DOMAIN t,
               t[i].op \in WritingOps /\ t[j].op \in WritingOps
        PROVE  i = j
    BY <1>1, <2>5 DEF StackOK
  <2>. QED BY <2>1, <2>2, <2>3, <2>4, <2>5 DEF StackOK
<1>3. Head(td).op \in MutatorOps \cup CreatorOps => t = <<>>
  <2>1. Head(td).op \in MutatorOps \cup CreatorOps => n = 1
    BY <1>1 DEF StackOK
  <2>. QED BY <1>1, <2>1, EmptySeq
<1>4. ASSUME NEW f \in Range(t)
      PROVE  /\ f.op \notin MutatorOps
             /\ Head(td).op \in WritingOps => f.op \notin WritingOps
  <2>1. PICK j \in 1..(n - 1) : f = td[j+1]
    BY <1>1 DEF Range
  <2>. QED BY <1>1, <2>1 DEF StackOK
<1>5. ASSUME Head(td).op = "finalize"
      PROVE  t # <<>> /\ Head(t) = FreeOf(Head(td).obj)
  <2>1. 1 < n /\ td[2] = FreeOf(td[1].obj)
    BY <1>1, <1>5 DEF StackOK
  <2>2. t # <<>>
    <3>1. Len(t) # 0
      BY <1>1, <2>1
    <3>. QED BY <3>1, EmptySeq
  <2>3. Head(t) = t[1]
    BY <1>1, <2>2, TodoParts
  <2>4. t[1] = td[2]
    BY <1>1, <2>1
  <2>. QED BY <1>1, <2>1, <2>2, <2>3, <2>4
<1>6. ASSUME Head(td).op = "free", NEW f \in Range(t), f.op \in {"free", "finalize"}
      PROVE  f.obj # Head(td).obj
  <2>1. PICK j \in 1..(n - 1) : f = td[j+1]
    BY <1>1 DEF Range
  <2>2. CASE f.op = "free"
    BY <1>1, <1>6, <2>1, <2>2 DEF StackOK
  <2>3. CASE f.op = "finalize"
    <3>. DEFINE i == j + 1
                k == i + 1
    <3>1. i \in 1..n /\ f = td[i]
      BY <1>1, <2>1
    <3>. HIDE DEF i
    <3>2. i < n /\ td[k] = FreeOf(f.obj)
      BY <1>1, <2>3, <3>1 DEF StackOK
    <3>3. td[k].op = "free" /\ td[k].obj = f.obj /\ k \in 1..n /\ k # 1 /\ 1 \in 1..n
      BY <1>1, <3>1, <3>2 DEF FreeOf
    <3>. HIDE DEF k
    <3>. QED BY <1>1, <1>6, <3>3 DEF StackOK
  <2>. QED BY <1>6, <2>2, <2>3
<1>. QED BY <1>2, <1>3, <1>4, <1>5, <1>6

\* A piece put in front.
LEMMA StackPush ==
    ASSUME NEW td \in Seq(Frame), StackOK(td), NEW f \in Frame,
           f.op \in MutatorOps \cup CreatorOps => td = <<>>,
           \A g \in Range(td) : g.op \notin MutatorOps,
           f.op = "finalize" => td # <<>> /\ Head(td) = FreeOf(f.obj),
           f.op = "free" => \A g \in Range(td) : g.op = "free" => g.obj # f.obj,
           f.op \in WritingOps => \A g \in Range(td) : g.op \notin WritingOps
    PROVE  StackOK(<<f>> \o td)
<1>. DEFINE n == Len(td)
            t == <<f>> \o td
<1>1. /\ n \in Nat /\ Len(t) = n + 1 /\ DOMAIN td = 1..n /\ DOMAIN t = 1..(n + 1)
      /\ t[1] = f /\ \A j \in 1..n : t[j+1] = td[j]
  <2>1. t \in Seq(Frame) /\ Len(t) = n + 1 /\ t[1] = f /\ \A j \in 1..n : t[j+1] = td[j]
    BY ConsProperties
  <2>. QED BY <2>1, LenProperties
<1>2. ASSUME NEW j \in 2..(n + 1)
      PROVE  t[j] = td[j-1] /\ j - 1 \in 1..n /\ t[j] \in Range(td)
  <2>1. j - 1 \in 1..n /\ (j - 1) + 1 = j
    BY <1>1
  <2>. QED BY <1>1, <2>1 DEF Range
<1>3. td = <<>> <=> n = 0
  BY EmptySeq, <1>1
<1>4. td # <<>> => Head(td) = td[1]
  BY TodoParts
<1>. HIDE DEF t, n
<1>5. ASSUME NEW j \in DOMAIN t, t[j].op \in MutatorOps PROVE Len(t) = 1
  <2>1. CASE j = 1
    BY <1>1, <1>3, <1>5, <2>1
  <2>2. CASE j # 1
    <3>1. j \in 2..(n + 1)
      BY <1>1, <2>2
    <3>. QED BY <1>2, <1>5, <3>1
  <2>. QED BY <2>1, <2>2
<1>6. ASSUME NEW j \in DOMAIN t, t[j].op \in CreatorOps PROVE j = Len(t)
  <2>1. CASE j = 1
    BY <1>1, <1>3, <1>6, <2>1
  <2>2. CASE j # 1
    <3>1. j \in 2..(n + 1)
      BY <1>1, <2>2
    <3>2. j - 1 = n
      BY <1>1, <1>2, <1>6, <3>1 DEF StackOK, n
    <3>. QED BY <1>1, <3>1, <3>2
  <2>. QED BY <2>1, <2>2
<1>7. ASSUME NEW j \in DOMAIN t, t[j].op = "finalize"
      PROVE  j < Len(t) /\ t[j+1] = FreeOf(t[j].obj)
  <2>1. CASE j = 1
    BY <1>1, <1>3, <1>4, <1>7, <2>1
  <2>2. CASE j # 1
    <3>1. j \in 2..(n + 1)
      BY <1>1, <2>2
    <3>. DEFINE i == j - 1
    <3>2. i \in 1..n /\ t[j] = td[i] /\ i + 1 = j /\ j \in 2..(n + 1)
      BY <1>2, <3>1
    <3>. HIDE DEF i
    <3>3. i < n /\ td[i+1] = FreeOf(td[i].obj)
      BY <1>1, <1>7, <3>2 DEF StackOK, n
    <3>4. j \in 1..n
      BY <1>1, <3>2, <3>3
    <3>. QED BY <1>1, <3>2, <3>3, <3>4
  <2>. QED BY <2>1, <2>2
<1>8. ASSUME NEW i \in DOMAIN t, NEW j \in DOMAIN t,
             t[i].op = "free" /\ t[j].op = "free" /\ t[i].obj = t[j].obj
      PROVE  i = j
  <2>1. CASE i = 1 \/ j = 1
    BY <1>1, <1>2, <1>8, <2>1
  <2>2. CASE i # 1 /\ j # 1
    <3>1. i \in 2..(n + 1) /\ j \in 2..(n + 1)
      BY <1>1, <2>2
    <3>. DEFINE k == i - 1
                m == j - 1
    <3>2. t[i] = td[k] /\ t[j] = td[m] /\ k \in 1..n /\ m \in 1..n
      BY <1>2, <3>1
    <3>. HIDE DEF k, m
    <3>3. k = m
      BY <1>1, <1>8, <3>2 DEF StackOK
    <3>. QED BY <1>1, <3>1, <3>3 DEF k, m
  <2>. QED BY <2>1, <2>2
<1>9. ASSUME NEW i \in DOMAIN t, NEW j \in DOMAIN t,
             t[i].op \in WritingOps /\ t[j].op \in WritingOps
      PROVE  i = j
  <2>1. CASE i = 1 \/ j = 1
    BY <1>1, <1>2, <1>9, <2>1
  <2>2. CASE i # 1 /\ j # 1
    <3>1. i \in 2..(n + 1) /\ j \in 2..(n + 1)
      BY <1>1, <2>2
    <3>. DEFINE k == i - 1
                m == j - 1
    <3>2. t[i] = td[k] /\ t[j] = td[m] /\ k \in 1..n /\ m \in 1..n
      BY <1>2, <3>1
    <3>. HIDE DEF k, m
    <3>3. k = m
      BY <1>1, <1>9, <3>2 DEF StackOK
    <3>. QED BY <1>1, <3>1, <3>3 DEF k, m
  <2>. QED BY <2>1, <2>2
<1>10. StackOK(t)
  BY <1>5, <1>6, <1>7, <1>8, <1>9 DEF StackOK
<1>. QED BY <1>10 DEF t

\* The references a sequence of slots holds to an object.
Valued(o) == [key : Object \cup {NULL}, value : {o}]
Keyed(o) == [key : {o}, value : Object]
Refs(s, o) == Occ(s, Valued(o)) + Occ(s, Keyed(o))
SlotRefs(own, o) == Total(own, Valued(o)) + Total(own, Keyed(o))

\* The pieces of a call that own a reference to an object.
Owning(o) == {f \in Frame : f.op \in OwningOps /\ f.obj = o}

LEMMA RetainedIn ==
    ASSUME NEW s \in Slot, NEW o \in Object
    PROVE  /\ Retained(s, o) = In(s, Valued(o)) + In(s, Keyed(o))
           /\ In(s, Valued(o)) \in Nat /\ In(s, Keyed(o)) \in Nat
           /\ Retained(s, o) \in Nat
           /\ Retained(s, o) > 0 <=> o \in {s.key, s.value}
<1>1. s \in Valued(o) <=> s.value = o
  BY DEF Slot, Valued
<1>2. s \in Keyed(o) <=> s.key = o
  BY DEF Slot, Keyed
<1>. QED BY <1>1, <1>2 DEF Retained, In

\* A slot behind the last one.
LEMMA RefsAppend ==
    ASSUME NEW s \in Seq(Slot), NEW x \in Slot, NEW o \in Object
    PROVE  Refs(Append(s, x), o) = Refs(s, o) + Retained(x, o)
<1>1. /\ Occ(Append(s, x), Valued(o)) = Occ(s, Valued(o)) + In(x, Valued(o))
      /\ Occ(Append(s, x), Keyed(o)) = Occ(s, Keyed(o)) + In(x, Keyed(o))
  BY OccAppend
<1>2. Occ(s, Valued(o)) \in Nat /\ Occ(s, Keyed(o)) \in Nat
  BY OccNat
<1>. QED BY <1>1, <1>2, RetainedIn DEF Refs

\* The slots without one of them.
LEMMA RefsRemoveAt ==
    ASSUME NEW s \in Seq(Slot), NEW i \in 1..Len(s), NEW o \in Object
    PROVE  Refs(s, o) = Refs(RemoveAt(s, i), o) + Retained(s[i], o)
<1>1. /\ Occ(s, Valued(o)) = Occ(RemoveAt(s, i), Valued(o)) + In(s[i], Valued(o))
      /\ Occ(s, Keyed(o)) = Occ(RemoveAt(s, i), Keyed(o)) + In(s[i], Keyed(o))
  BY OccRemoveAt
<1>2. RemoveAt(s, i) \in Seq(Slot)
  BY RemoveAtProperties
<1>3. /\ Occ(RemoveAt(s, i), Valued(o)) \in Nat
      /\ Occ(RemoveAt(s, i), Keyed(o)) \in Nat
  BY <1>2, OccNat
<1>4. s[i] \in Slot
  BY LenProperties
<1>. QED BY <1>1, <1>3, <1>4, RetainedIn DEF Refs

\* The slots from the next one on.
LEMMA RefsRest ==
    ASSUME NEW s \in Seq(Slot), NEW i \in 1..Len(s), NEW o \in Object
    PROVE  Refs(SubSeq(s, i, Len(s)), o)
             = Refs(SubSeq(s, i+1, Len(s)), o) + Retained(s[i], o)
<1>. DEFINE a == SubSeq(s, i, Len(s))
            b == SubSeq(s, i+1, Len(s))
<1>1. /\ Occ(a, Valued(o)) = Occ(b, Valued(o)) + In(s[i], Valued(o))
      /\ Occ(a, Keyed(o)) = Occ(b, Keyed(o)) + In(s[i], Keyed(o))
  BY OccRest
<1>2. b \in Seq(Slot)
  <2>1. i + 1 \in 1..(Len(s) + 1)
    BY LenProperties
  <2>. QED BY <2>1, RestProperties
<1>. HIDE DEF a, b
<1>3. Occ(b, Valued(o)) \in Nat /\ Occ(b, Keyed(o)) \in Nat
  BY <1>2, OccNat
<1>4. s[i] \in Slot
  BY LenProperties
<1>5. Refs(a, o) = Refs(b, o) + Retained(s[i], o)
  BY <1>1, <1>3, <1>4, RetainedIn DEF Refs
<1>. QED BY <1>5 DEF a, b

\* The value of a slot replaced.
LEMMA RefsPut ==
    ASSUME NEW s \in Seq(Slot), NEW i \in 1..Len(s), NEW v \in Object, NEW o \in Object
    PROVE  /\ [s EXCEPT ![i].value = v] \in Seq(Slot)
           /\ Refs([s EXCEPT ![i].value = v], o)
                = Refs(s, o) + (IF v = o THEN 1 ELSE 0) - (IF s[i].value = o THEN 1 ELSE 0)
<1>. DEFINE x == [s[i] EXCEPT !.value = v]
            t == [s EXCEPT ![i] = x]
<1>1. s[i] \in Slot
  BY LenProperties
<1>2. x \in Slot /\ x.key = s[i].key /\ x.value = v
  BY <1>1 DEF Slot
<1>3. [s EXCEPT ![i].value = v] = t
  OBVIOUS
<1>. HIDE DEF x
<1>4. t \in Seq(Slot)
  BY <1>2, ExceptSeq
<1>5. /\ Occ(t, Valued(o)) = Occ(s, Valued(o)) - In(s[i], Valued(o)) + In(x, Valued(o))
      /\ Occ(t, Keyed(o)) = Occ(s, Keyed(o)) - In(s[i], Keyed(o)) + In(x, Keyed(o))
  BY <1>2, OccExcept
<1>6. Occ(s, Valued(o)) \in Nat /\ Occ(s, Keyed(o)) \in Nat
  BY OccNat
<1>. HIDE DEF t
<1>7. Refs(t, o) = Refs(s, o) - Retained(s[i], o) + Retained(x, o)
  <2>1. /\ Retained(s[i], o) = In(s[i], Valued(o)) + In(s[i], Keyed(o))
        /\ In(s[i], Valued(o)) \in Nat /\ In(s[i], Keyed(o)) \in Nat
    BY <1>1, RetainedIn
  <2>2. /\ Retained(x, o) = In(x, Valued(o)) + In(x, Keyed(o))
        /\ In(x, Valued(o)) \in Nat /\ In(x, Keyed(o)) \in Nat
    BY <1>2, RetainedIn
  <2>. QED BY <1>5, <1>6, <2>1, <2>2 DEF Refs
<1>8. Refs(s, o) \in Nat
  BY <1>6 DEF Refs
<1>9. Refs(t, o) = Refs(s, o) + (IF v = o THEN 1 ELSE 0) - (IF s[i].value = o THEN 1 ELSE 0)
  BY <1>2, <1>7, <1>8 DEF Retained
<1>. QED BY <1>3, <1>4, <1>9

-----------------------------------------------------------------------------
(* The slots of all collections.                                           *)

LEMMA CollectionsFinite == IsFiniteSet(Collection)
BY ObjectsDistinct, FS_Subset DEF Object

LEMMA SlotRefsNat ==
    ASSUME NEW own \in [Collection -> Seq(Slot)], NEW o \in Object
    PROVE  SlotRefs(own, o) \in Nat
<1>1. Total(own, Valued(o)) \in Nat /\ Total(own, Keyed(o)) \in Nat
  BY CollectionsFinite, TotalNat
<1>. QED BY <1>1 DEF SlotRefs

\* The slots of one collection change.
LEMMA SlotRefsChange ==
    ASSUME NEW own \in [Collection -> Seq(Slot)], NEW o \in Object, NEW c \in Collection,
           NEW s \in Seq(Slot)
    PROVE  SlotRefs([own EXCEPT ![c] = s], o) = SlotRefs(own, o) + Refs(s, o) - Refs(own[c], o)
<1>. DEFINE new == [own EXCEPT ![c] = s]
            V == Valued(o)
            K == Keyed(o)
<1>. HIDE DEF V, K
<1>1. /\ Total(new, V) = Total(own, V) + Occ(s, V) - Occ(own[c], V)
      /\ Total(own, V) \in Nat /\ Occ(s, V) \in Nat /\ Occ(own[c], V) \in Nat
  BY CollectionsFinite, TotalExcept
<1>2. /\ Total(new, K) = Total(own, K) + Occ(s, K) - Occ(own[c], K)
      /\ Total(own, K) \in Nat /\ Occ(s, K) \in Nat /\ Occ(own[c], K) \in Nat
  BY CollectionsFinite, TotalExcept
<1>. HIDE DEF new
<1>3. Total(new, V) + Total(new, K)
        = Total(own, V) + Total(own, K) + (Occ(s, V) + Occ(s, K))
          - (Occ(own[c], V) + Occ(own[c], K))
  BY <1>1, <1>2
<1>. QED BY <1>3 DEF SlotRefs, Refs, new, V, K

\* What a slot contains is referred to.
LEMMA SlotRefsMember ==
    ASSUME NEW own \in [Collection -> Seq(Slot)], NEW c \in Collection,
           NEW o \in InSlots(own[c])
    PROVE  o \in Object /\ SlotRefs(own, o) > 0
<1>1. PICK i \in DOMAIN own[c] : o \in {own[c][i].key, own[c][i].value} \ {NULL}
  BY DEF InSlots
<1>2. own[c][i] \in Slot
  <2>1. own[c] \in Seq(Slot)
    OBVIOUS
  <2>. QED BY <2>1, LenProperties
<1>3. o \in Object
  BY <1>1, <1>2 DEF Slot
<1>4. Total(own, Valued(o)) \in Nat /\ Total(own, Keyed(o)) \in Nat
  BY CollectionsFinite, TotalNat
<1>5. CASE o = own[c][i].value
  <2>1. own[c][i] \in Valued(o)
    BY <1>2, <1>5 DEF Slot, Valued
  <2>2. Total(own, Valued(o)) >= 1
    BY <2>1, CollectionsFinite, TotalPositive
  <2>. QED BY <1>3, <1>4, <2>2 DEF SlotRefs
<1>6. CASE o = own[c][i].key
  <2>1. own[c][i] \in Keyed(o)
    BY <1>2, <1>6 DEF Slot, Keyed
  <2>2. Total(own, Keyed(o)) >= 1
    BY <2>1, CollectionsFinite, TotalPositive
  <2>. QED BY <1>3, <1>4, <2>2 DEF SlotRefs
<1>. QED BY <1>1, <1>5, <1>6

-----------------------------------------------------------------------------
(* What a collection owns.                                                 *)

\* Of the pieces P those that are about c.
Pend(P, c, op) == {f \in P : f.op = op /\ f.obj = c}
The(S) == CHOOSE f \in S : TRUE

PartOf(P, alive, s, c) ==
    IF Pend(P, c, "shift") # {} THEN RemoveAt(s, The(Pend(P, c, "shift")).index)
    ELSE IF Pend(P, c, "store") # {}
    THEN [s EXCEPT ![The(Pend(P, c, "store")).index].value = The(Pend(P, c, "store")).value]
    ELSE IF Pend(P, c, "finalize") # {}
    THEN SubSeq(s, The(Pend(P, c, "finalize")).index, Len(s))
    ELSE IF alive THEN s ELSE <<>>

LEMMA OwnedIsPart ==
    ASSUME NEW c \in Collection
    PROVE  /\ Owned[c] = PartOf(Range(todo), life[c] = "live", slots[c], c)
           /\ Owned'[c] = PartOf(Range(todo'), life'[c] = "live", slots'[c], c)
BY Zenon DEF Owned, OwnedSlots, PartOf, Pending, Pend, The

LEMMA OwnedDomain ==
    /\ Owned = [c \in Collection |-> Owned[c]]
    /\ Owned' = [c \in Collection |-> Owned'[c]]
BY DEF Owned

LEMMA TheOnly ==
    ASSUME NEW f, NEW S, S = {f}
    PROVE  The(S) = f
BY DEF The

LEMMA TheOne ==
    ASSUME NEW S, S # {}
    PROVE  The(S) \in S
BY DEF The

\* Nothing is pending on c: a live collection owns all its slots.
LEMMA PartIdle ==
    ASSUME NEW P, NEW alive, NEW s, NEW c,
           \A f \in P : f.obj = c => f.op \notin {"shift", "store", "finalize"}
    PROVE  PartOf(P, alive, s, c) = IF alive THEN s ELSE <<>>
<1>1. Pend(P, c, "shift") = {} /\ Pend(P, c, "store") = {} /\ Pend(P, c, "finalize") = {}
  BY DEF Pend
<1>. QED BY <1>1 DEF PartOf

\* What a pending piece f leaves of the slots s.
Without(s, f) == RemoveAt(s, f.index)
Stored(s, f) == [s EXCEPT ![f.index].value = f.value]
From(s, f) == SubSeq(s, f.index, Len(s))

\* One piece f is pending on c.
LEMMA PartOne ==
    ASSUME NEW P, NEW alive, NEW s, NEW c, NEW f \in P, f.obj = c,
           \A g \in P : g.obj = c /\ g.op \in {"shift", "store", "finalize"} => g = f
    PROVE  /\ f.op = "shift" => PartOf(P, alive, s, c) = Without(s, f)
           /\ f.op = "store" => PartOf(P, alive, s, c) = Stored(s, f)
           /\ f.op = "finalize" => PartOf(P, alive, s, c) = From(s, f)
<1>1. CASE f.op = "shift"
  <2>1. Pend(P, c, "shift") = {f}
    BY <1>1 DEF Pend
  <2>2. The({f}) = f /\ {f} # {}
    BY TheOnly
  <2>. QED BY <1>1, <2>1, <2>2 DEF PartOf, Without, Stored, From
<1>2. CASE f.op = "store"
  <2>1. Pend(P, c, "shift") = {} /\ Pend(P, c, "store") = {f}
    BY <1>2 DEF Pend
  <2>2. The({f}) = f /\ {f} # {}
    BY TheOnly
  <2>. QED BY <1>2, <2>1, <2>2 DEF PartOf, Without, Stored, From
<1>3. CASE f.op = "finalize"
  <2>1. Pend(P, c, "shift") = {} /\ Pend(P, c, "store") = {} /\ Pend(P, c, "finalize") = {f}
    BY <1>3 DEF Pend
  <2>2. The({f}) = f /\ {f} # {}
    BY TheOnly
  <2>. QED BY <1>3, <2>1, <2>2 DEF PartOf, Without, Stored, From
<1>. QED BY <1>1, <1>2, <1>3

\* What is pending on c has not changed.
LEMMA PartSame ==
    ASSUME NEW P, NEW Q, NEW alive, NEW s, NEW c,
           \A f : f.op \in {"shift", "store", "finalize"} /\ f.obj = c => (f \in P <=> f \in Q)
    PROVE  PartOf(P, alive, s, c) = PartOf(Q, alive, s, c)
<1>1. /\ Pend(P, c, "shift") = Pend(Q, c, "shift")
      /\ Pend(P, c, "store") = Pend(Q, c, "store")
      /\ Pend(P, c, "finalize") = Pend(Q, c, "finalize")
  BY DEF Pend
<1>. QED BY <1>1 DEF PartOf

LEMMA PartTyped ==
    ASSUME NEW P \in SUBSET Frame, NEW alive \in BOOLEAN, NEW c \in Collection,
           NEW s \in Seq(Slot),
           \A f \in P : /\ f.obj = c /\ f.op \in WritingOps => f.index \in DOMAIN s
                        /\ f.obj = c /\ f.op = "finalize" => f.index \in 1..(Len(s) + 1)
    PROVE  PartOf(P, alive, s, c) \in Seq(Slot)
<1>. DOMAIN s = 1..Len(s)
  BY LenProperties
<1>1. CASE Pend(P, c, "shift") # {}
  <2>. DEFINE f == The(Pend(P, c, "shift"))
  <2>1. f \in P /\ f.obj = c /\ f.op = "shift"
    BY <1>1, TheOne DEF Pend
  <2>2. f.index \in 1..Len(s)
    BY <2>1 DEF WritingOps
  <2>3. RemoveAt(s, f.index) \in Seq(Slot)
    BY <2>2, RemoveAtProperties
  <2>. QED BY <1>1, <2>3 DEF PartOf
<1>2. CASE Pend(P, c, "shift") = {} /\ Pend(P, c, "store") # {}
  <2>. DEFINE f == The(Pend(P, c, "store"))
  <2>1. f \in P /\ f.obj = c /\ f.op = "store"
    BY <1>2, TheOne DEF Pend
  <2>2. f.index \in 1..Len(s) /\ f.value \in Object
    BY <2>1, FrameFacts DEF WritingOps
  <2>. HIDE DEF f
  <2>3. [s EXCEPT ![f.index].value = f.value] \in Seq(Slot)
    BY <2>2, RefsPut
  <2>. QED BY <1>2, <2>3 DEF PartOf, f
<1>3. CASE Pend(P, c, "shift") = {} /\ Pend(P, c, "store") = {} /\ Pend(P, c, "finalize") # {}
  <2>. DEFINE f == The(Pend(P, c, "finalize"))
  <2>1. f \in P /\ f.obj = c /\ f.op = "finalize"
    BY <1>3, TheOne DEF Pend
  <2>2. f.index \in 1..(Len(s) + 1)
    BY <2>1
  <2>. HIDE DEF f
  <2>3. SubSeq(s, f.index, Len(s)) \in Seq(Slot)
    BY <2>2, RestProperties
  <2>. QED BY <1>3, <2>3 DEF PartOf, f
<1>4. CASE Pend(P, c, "shift") = {} /\ Pend(P, c, "store") = {} /\ Pend(P, c, "finalize") = {}
  <2>1. PartOf(P, alive, s, c) = IF alive THEN s ELSE <<>>
    BY <1>4 DEF PartOf
  <2>. QED BY <2>1, EmptySeq
<1>. QED BY <1>1, <1>2, <1>3, <1>4

-----------------------------------------------------------------------------
(* What can be reached.                                                    *)

Closed(S, from, contents) ==
    from \subseteq S /\ \A c \in S \cap Collection : contents[c] \subseteq S

LEMMA ReachableLeast ==
    ASSUME NEW from, NEW contents, NEW S \in SUBSET Object, Closed(S, from, contents)
    PROVE  Reachable(from, contents) \subseteq S
BY DEF Reachable, Closed

LEMMA ReachableClosed ==
    ASSUME NEW from \in SUBSET Object, NEW contents,
           \A c \in Collection : contents[c] \subseteq Object
    PROVE  /\ Closed(Reachable(from, contents), from, contents)
           /\ Reachable(from, contents) \subseteq Object
<1>. DEFINE R == Reachable(from, contents)
<1>1. R = {o \in Object : \A S \in SUBSET Object : Closed(S, from, contents) => o \in S}
  BY DEF Reachable, Closed
<1>. HIDE DEF R
<1>2. from \subseteq R
  BY <1>1 DEF Closed
<1>3. ASSUME NEW c \in R \cap Collection, NEW o \in contents[c]
      PROVE  o \in R
  <2>1. o \in Object
    BY <1>3
  <2>2. ASSUME NEW S \in SUBSET Object, Closed(S, from, contents)
        PROVE  o \in S
    <3>1. c \in S
      BY <1>1, <2>2
    <3>. QED BY <1>3, <2>2, <3>1 DEF Closed
  <2>. QED BY <1>1, <2>1, <2>2
<1>4. R \subseteq Object
  BY <1>1
<1>. QED BY <1>2, <1>3, <1>4 DEF R, Closed

\* What is reached stays reached if no collection that is reached loses anything.
LEMMA ReachableGrows ==
    ASSUME NEW from \in SUBSET Object, NEW new \in SUBSET Object, from \subseteq new,
           NEW contents, \A c \in Collection : contents[c] \subseteq Object,
           NEW after, \A c \in Collection : after[c] \subseteq Object,
           \A c \in Collection \cap Reachable(from, contents) : contents[c] \subseteq after[c]
    PROVE  Reachable(from, contents) \subseteq Reachable(new, after)
<1>. DEFINE R == Reachable(from, contents)
            N == Reachable(new, after)
<1>1. Closed(R, from, contents) /\ R \subseteq Object
  BY ReachableClosed
<1>2. Closed(N, new, after) /\ N \subseteq Object
  BY ReachableClosed
<1>3. \A c \in Collection \cap R : contents[c] \subseteq after[c]
  OBVIOUS
<1>. HIDE DEF R, N
<1>4. Closed(R \cap N, from, contents)
  BY <1>1, <1>2, <1>3 DEF Closed
<1>5. Reachable(from, contents) \subseteq R \cap N
  BY <1>1, <1>4, ReachableLeast
<1>. QED BY <1>5 DEF R, N

\* A collection that loses what it contains is still reached itself.
LEMMA ReachableItself ==
    ASSUME NEW from \in SUBSET Object,
           NEW contents, \A c \in Collection : contents[c] \subseteq Object,
           NEW after, \A c \in Collection : after[c] \subseteq Object,
           NEW c \in Reachable(from, contents),
           \A d \in Collection \ {c} : after[d] = contents[d]
    PROVE  c \in Reachable(from, after)
<1>. DEFINE N == Reachable(from, after)
<1>1. Closed(N, from, after) /\ N \subseteq Object
  BY ReachableClosed
<1>. HIDE DEF N
<1>2. SUFFICES ASSUME c \notin N PROVE FALSE
  BY DEF N
<1>3. Closed(N, from, contents)
  BY <1>1, <1>2 DEF Closed
<1>4. Reachable(from, contents) \subseteq N
  BY <1>1, <1>3, ReachableLeast
<1>. QED BY <1>2, <1>4

-----------------------------------------------------------------------------
(* What the invariant says of one state.                                   *)

\* The memory of a collection that is being finalized will be freed.
LEMMA StackFreed ==
    ASSUME NEW td \in Seq(Frame), StackOK(td), NEW f \in Range(td), f.op = "finalize"
    PROVE  FreeOf(f.obj) \in Range(td)
<1>1. PICK j \in DOMAIN td : f = td[j]
  BY DEF Range
<1>2. Len(td) \in Nat /\ DOMAIN td = 1..Len(td)
  BY LenProperties
<1>3. j < Len(td) /\ td[j+1] = FreeOf(f.obj)
  BY <1>1 DEF StackOK
<1>4. j + 1 \in DOMAIN td
  BY <1>1, <1>2, <1>3
<1>. QED BY <1>3, <1>4 DEF Range

LEMMA StackOneWrites ==
    ASSUME NEW td \in Seq(Frame), StackOK(td), NEW f \in Range(td), NEW g \in Range(td),
           f.op \in WritingOps, g.op \in WritingOps
    PROVE  f = g
<1>1. PICK i \in DOMAIN td : f = td[i]
  BY DEF Range
<1>2. PICK j \in DOMAIN td : g = td[j]
  BY DEF Range
<1>. QED BY <1>1, <1>2 DEF StackOK

\* A collection is finalized once.
LEMMA StackOneFinalizes ==
    ASSUME NEW td \in Seq(Frame), td # <<>>, StackOK(td), Head(td).op = "finalize",
           NEW f \in Range(Tail(td)), f.op = "finalize"
    PROVE  f.obj # Head(td).obj
<1>. DEFINE t == Tail(td)
<1>1. /\ t \in Seq(Frame) /\ StackOK(t) /\ t # <<>> /\ Head(t) = FreeOf(Head(td).obj)
      /\ f \in Range(t)
  BY TodoParts, StackTop
<1>. HIDE DEF t
<1>2. Range(t) = {Head(t)} \cup Range(Tail(t))
  BY <1>1, TodoParts
<1>3. Head(t).op = "free" /\ Head(t).obj = Head(td).obj
  BY <1>1 DEF FreeOf
<1>4. f \in Range(Tail(t))
  BY <1>1, <1>2, <1>3
<1>. QED BY <1>1, <1>3, <1>4, StackTop

LEMMA StackOneFinalizer ==
    ASSUME NEW td \in Seq(Frame), StackOK(td), NEW f \in Range(td), NEW g \in Range(td),
           f.op = "finalize", g.op = "finalize", f.obj = g.obj
    PROVE  f = g
<1>1. Len(td) \in Nat /\ DOMAIN td = 1..Len(td)
  BY LenProperties
<1>2. PICK i \in DOMAIN td : f = td[i]
  BY DEF Range
<1>3. PICK j \in DOMAIN td : g = td[j]
  BY DEF Range
<1>. DEFINE k == i + 1
            m == j + 1
<1>4. k \in DOMAIN td /\ td[k] = FreeOf(f.obj) /\ m \in DOMAIN td /\ td[m] = FreeOf(g.obj)
  BY <1>1, <1>2, <1>3 DEF StackOK
<1>. HIDE DEF k, m
<1>5. k = m
  <2>1. td[k].op = "free" /\ td[m].op = "free" /\ td[k].obj = td[m].obj
    BY <1>4 DEF FreeOf
  <2>. QED BY <1>4, <2>1 DEF StackOK
<1>. QED BY <1>1, <1>2, <1>3, <1>5 DEF k, m

LEMMA OwnedTyped ==
    ASSUME TypeOK, FramesOK
    PROVE  Owned \in [Collection -> Seq(Slot)]
<1>1. ASSUME NEW c \in Collection PROVE Owned[c] \in Seq(Slot)
  <2>1. Range(todo) \subseteq Frame
    <3>1. todo \in Seq(Frame)
      BY DEF TypeOK
    <3>. QED BY <3>1, LenProperties DEF Range
  <2>2. slots[c] \in Seq(Slot)
    BY DEF TypeOK
  <2>3. ASSUME NEW f \in Range(todo)
        PROVE  /\ f.obj = c /\ f.op \in WritingOps => f.index \in DOMAIN slots[c]
               /\ f.obj = c /\ f.op = "finalize" => f.index \in 1..(Len(slots[c]) + 1)
    BY DEF FramesOK, FrameOK
  <2>4. PartOf(Range(todo), life[c] = "live", slots[c], c) \in Seq(Slot)
    BY <2>1, <2>2, <2>3, PartTyped
  <2>. QED BY <2>4, OwnedIsPart
<1>. QED BY <1>1, OwnedDomain

\* The references to an object: the client's, those of slots, those of the call.
LEMMA ReferencesAre ==
    ASSUME NEW o \in Object
    PROVE  /\ todo \in Seq(Frame) =>
                References(o) = held[o] + Total(Owned, Valued(o)) + Total(Owned, Keyed(o))
                                + Occ(todo, Owning(o))
           /\ todo' \in Seq(Frame) =>
                References(o)' = held'[o] + Total(Owned', Valued(o)) + Total(Owned', Keyed(o))
                                 + Occ(todo', Owning(o))
<1>1. DOMAIN Owned = Collection /\ \A c \in Collection : Owned[c] = OwnedSlots(c)
  BY DEF Owned
<1>2. DOMAIN Owned' = Collection /\ \A c \in Collection : Owned'[c] = OwnedSlots(c)'
  BY DEF Owned
<1>3. ASSUME NEW A PROVE Places(A) = AllAt(Owned, A)
  <2>1. \A c \in Collection :
           {i \in DOMAIN OwnedSlots(c) : OwnedSlots(c)[i] \in A} = At(Owned[c], A)
    BY <1>1 DEF At
  <2>. QED BY <1>1, <2>1 DEF Places, AllAt
<1>4. ASSUME NEW A PROVE Places(A)' = AllAt(Owned', A)
  <2>1. \A c \in Collection :
           {i \in DOMAIN OwnedSlots(c)' : OwnedSlots(c)'[i] \in A} = At(Owned'[c], A)
    BY <1>2 DEF At
  <2>. QED BY <1>2, <2>1 DEF Places, AllAt
<1>5. ASSUME NEW td \in Seq(Frame)
      PROVE  {j \in DOMAIN td : td[j].op \in OwningOps /\ td[j].obj = o} = At(td, Owning(o))
  <2>1. \A j \in DOMAIN td : td[j] \in Frame
    BY LenProperties
  <2>. QED BY <2>1 DEF At, Owning
<1>. DEFINE v == Valued(o)
            k == Keyed(o)
<1>7. ASSUME todo \in Seq(Frame)
      PROVE  References(o) = held[o] + Total(Owned, Valued(o)) + Total(Owned, Keyed(o))
                             + Occ(todo, Owning(o))
  <2>1. {j \in DOMAIN todo : todo[j].op \in OwningOps /\ todo[j].obj = o} = At(todo, Owning(o))
    BY <1>5, <1>7
  <2>2. Places([key : Object \cup {NULL}, value : {o}]) = AllAt(Owned, v)
    BY <1>3 DEF Valued
  <2>3. Places([key : {o}, value : Object]) = AllAt(Owned, k)
    BY <1>3 DEF Keyed
  <2>. QED BY <2>1, <2>2, <2>3 DEF References, Total, Occ
<1>8. ASSUME todo' \in Seq(Frame)
      PROVE  References(o)' = held'[o] + Total(Owned', Valued(o)) + Total(Owned', Keyed(o))
                              + Occ(todo', Owning(o))
  <2>1. {j \in DOMAIN todo' : todo'[j].op \in OwningOps /\ todo'[j].obj = o}
          = At(todo', Owning(o))
    BY <1>5, <1>8
  <2>2. Places([key : Object \cup {NULL}, value : {o}])' = AllAt(Owned', v)
    BY <1>4 DEF Valued
  <2>3. Places([key : {o}, value : Object])' = AllAt(Owned', k)
    BY <1>4 DEF Keyed
  <2>. QED BY <2>1, <2>2, <2>3 DEF References, Total, Occ
<1>. QED BY <1>7, <1>8

\* The references to an object, from the parts of a state.
RefCount(h, own, td, o) == h[o] + SlotRefs(own, o) + Occ(td, Owning(o))

LEMMA CountNat ==
    ASSUME NEW h \in [Object -> Nat], NEW own \in [Collection -> Seq(Slot)],
           NEW td \in Seq(Frame), NEW o \in Object
    PROVE  /\ h[o] \in Nat /\ SlotRefs(own, o) \in Nat /\ Occ(td, Owning(o)) \in Nat
           /\ RefCount(h, own, td, o) \in Nat
<1>1. h[o] \in Nat /\ SlotRefs(own, o) \in Nat /\ Occ(td, Owning(o)) \in Nat
  BY SlotRefsNat, OccNat
<1>. QED BY <1>1 DEF RefCount

LEMMA TypeFacts ==
    ASSUME TypeOK
    PROVE  /\ life \in [Object -> {"unborn", "live", "dying", "freed"}]
           /\ rc \in [Object -> Nat] /\ slots \in [Collection -> Seq(Slot)]
           /\ capacity \in [Collection -> Nat] /\ buffers \in [Collection -> Nat]
           /\ mutable \subseteq Collection /\ todo \in Seq(Frame)
           /\ held \in [Object -> 0..MaxHeld] /\ held \in [Object -> Nat]
<1>1. 0..MaxHeld \subseteq Nat
  BY BoundsPositive
<1>2. held \in [Object -> 0..MaxHeld]
  BY DEF TypeOK
<1>3. held \in [Object -> Nat]
  BY <1>1, <1>2
<1>. QED BY <1>2, <1>3 DEF TypeOK

LEMMA CountIs ==
    ASSUME TypeOK, FramesOK, NEW o \in Object
    PROVE  References(o) = RefCount(held, Owned, todo, o)
<1>. DEFINE v == Total(Owned, Valued(o))
            k == Total(Owned, Keyed(o))
            n == Occ(todo, Owning(o))
<1>1. held[o] \in Nat /\ n \in Nat
  <2>. QED BY TypeFacts, OccNat
<1>2. v \in Nat /\ k \in Nat
  BY OwnedTyped, CollectionsFinite, TotalNat
<1>3. References(o) = held[o] + v + k + n
  BY ReferencesAre DEF TypeOK
<1>4. RefCount(held, Owned, todo, o) = held[o] + (v + k) + n
  BY DEF RefCount, SlotRefs
<1>. HIDE DEF v, k, n
<1>. QED BY <1>1, <1>2, <1>3, <1>4

LEMMA CountIsNext ==
    ASSUME todo' \in Seq(Frame), held' \in [Object -> Nat],
           Owned' \in [Collection -> Seq(Slot)], NEW o \in Object
    PROVE  References(o)' = RefCount(held', Owned', todo', o)
<1>. DEFINE v == Total(Owned', Valued(o))
            k == Total(Owned', Keyed(o))
            n == Occ(todo', Owning(o))
<1>1. held'[o] \in Nat /\ n \in Nat
  BY OccNat
<1>2. v \in Nat /\ k \in Nat
  BY CollectionsFinite, TotalNat
<1>3. References(o)' = held'[o] + v + k + n
  BY ReferencesAre
<1>4. RefCount(held', Owned', todo', o) = held'[o] + (v + k) + n
  BY DEF RefCount, SlotRefs
<1>. HIDE DEF v, k, n
<1>. QED BY <1>1, <1>2, <1>3, <1>4

\* 1 if the piece f owns a reference to o.
Owes(f, o) == IF f.op \in OwningOps /\ f.obj = o THEN 1 ELSE 0

LEMMA OwesTop ==
    ASSUME NEW td \in Seq(Frame), td # <<>>, NEW o \in Object
    PROVE  /\ Occ(td, Owning(o)) = Occ(Tail(td), Owning(o)) + Owes(Head(td), o)
           /\ Occ(Tail(td), Owning(o)) \in Nat
<1>1. Occ(td, Owning(o)) = Occ(Tail(td), Owning(o)) + In(Head(td), Owning(o))
  BY OccTail
<1>2. Head(td) \in Frame /\ Tail(td) \in Seq(Frame)
  BY TodoParts
<1>3. In(Head(td), Owning(o)) = Owes(Head(td), o)
  BY <1>2 DEF In, Owning, Owes
<1>. QED BY <1>1, <1>2, <1>3, OccNat

LEMMA OwesPush ==
    ASSUME NEW td \in Seq(Frame), NEW f \in Frame, NEW o \in Object
    PROVE  /\ Occ(<<f>> \o td, Owning(o)) = Occ(td, Owning(o)) + Owes(f, o)
           /\ Occ(td, Owning(o)) \in Nat
<1>1. Occ(<<f>> \o td, Owning(o)) = Occ(td, Owning(o)) + In(f, Owning(o))
  BY OccCons
<1>2. In(f, Owning(o)) = Owes(f, o)
  BY DEF In, Owning, Owes
<1>. QED BY <1>1, <1>2, OccNat

\* A piece that owns a reference to o is counted.
LEMMA OwesMember ==
    ASSUME NEW td \in Seq(Frame), NEW f \in Range(td), NEW o \in Object,
           f.op \in OwningOps, f.obj = o
    PROVE  Occ(td, Owning(o)) > 0
<1>1. PICK j \in DOMAIN td : f = td[j]
  BY DEF Range
<1>2. td[j] \in Owning(o)
  BY <1>1, LenProperties DEF Owning
<1>3. Occ(td, Owning(o)) >= 1 /\ Occ(td, Owning(o)) \in Nat
  BY <1>2, OccPositive, OccNat
<1>. QED BY <1>3

LEMMA InSlotsTyped ==
    ASSUME NEW s \in Seq(Slot)
    PROVE  InSlots(s) \subseteq Object
<1>1. \A i \in DOMAIN s : s[i] \in Slot
  BY LenProperties
<1>. QED BY <1>1 DEF InSlots, Slot

\* What is kept is alive.
LEMMA KeptFacts ==
    ASSUME IInv
    PROVE  /\ Kept \subseteq Object
           /\ \A o \in Object : held[o] > 0 => o \in Kept
           /\ \A c \in Kept \cap Collection : InSlots(Owned[c]) \subseteq Kept
           /\ \A o \in Kept : life[o] = "live"
<1>. DEFINE from == {o \in Object : held[o] > 0}
            contents == [c \in Collection |-> InSlots(Owned[c])]
<1>1. Owned \in [Collection -> Seq(Slot)]
  BY OwnedTyped DEF IInv
<1>2. \A c \in Collection : contents[c] \subseteq Object
  <2>1. ASSUME NEW c \in Collection PROVE contents[c] \subseteq Object
    <3>1. Owned[c] \in Seq(Slot)
      BY <1>1
    <3>. QED BY <3>1, InSlotsTyped
  <2>. QED BY <2>1
<1>3. from \in SUBSET Object
  OBVIOUS
<1>4. Closed(Kept, from, contents) /\ Kept \subseteq Object
  <2>. HIDE DEF from, contents
  <2>1. Kept = Reachable(from, contents)
    BY DEF Kept, from, contents
  <2>. QED BY <1>2, <1>3, <2>1, ReachableClosed
<1>5. ASSUME NEW o \in Kept PROVE life[o] = "live"
  <2>. DEFINE S == {x \in Object : life[x] = "live"}
  <2>1. ASSUME NEW x \in Object, held[x] > 0 \/ SlotRefs(Owned, x) > 0
        PROVE  life[x] = "live"
    <3>1. held \in [Object -> Nat] /\ todo \in Seq(Frame)
      BY TypeFacts DEF IInv
    <3>2. /\ held[x] \in Nat /\ SlotRefs(Owned, x) \in Nat /\ Occ(todo, Owning(x)) \in Nat
      BY <1>1, <3>1, CountNat
    <3>3. References(x) = held[x] + SlotRefs(Owned, x) + Occ(todo, Owning(x))
      BY CountIs DEF IInv, RefCount
    <3>4. References(x) > 0
      BY <2>1, <3>2, <3>3
    <3>. QED BY <3>4 DEF IInv, Balanced, NothingDangles
  <2>2. \A c \in Collection : contents[c] \subseteq S
    BY <1>1, <2>1, SlotRefsMember
  <2>3. Closed(S, from, contents)
    BY <2>1, <2>2 DEF Closed
  <2>4. S \in SUBSET Object
    OBVIOUS
  <2>5. Kept \subseteq S
    <3>. HIDE DEF from, contents, S
    <3>1. Kept = Reachable(from, contents)
      BY DEF Kept, from, contents
    <3>. QED BY <2>3, <2>4, <3>1, ReachableLeast
  <2>. QED BY <2>5
<1>. QED BY <1>4, <1>5 DEF Closed

\* An object that neither the client nor a slot refers to is not kept.
LEMMA NotKept ==
    ASSUME IInv, NEW o \in Object, held[o] = 0, SlotRefs(Owned, o) = 0
    PROVE  o \notin Kept
<1>. DEFINE from == {x \in Object : held[x] > 0}
            contents == [c \in Collection |-> InSlots(Owned[c])]
            S == Object \ {o}
<1>1. Owned \in [Collection -> Seq(Slot)]
  BY OwnedTyped DEF IInv
<1>2. \A c \in Collection : contents[c] \subseteq S
  <2>1. ASSUME NEW c \in Collection, NEW x \in InSlots(Owned[c]) PROVE x \in S
    <3>1. x \in Object /\ SlotRefs(Owned, x) > 0
      BY <1>1, <2>1, SlotRefsMember
    <3>. QED BY <3>1
  <2>. QED BY <2>1
<1>3. Closed(S, from, contents)
  BY <1>2 DEF Closed
<1>4. Kept \subseteq S
  <2>1. S \in SUBSET Object
    OBVIOUS
  <2>. HIDE DEF from, contents, S
  <2>2. Kept = Reachable(from, contents)
    BY DEF Kept, from, contents
  <2>. QED BY <1>3, <2>1, <2>2, ReachableLeast
<1>. QED BY <1>4

\* What is kept stays kept if no kept collection loses a slot.
LEMMA KeptGrows ==
    ASSUME IInv, Owned' \in [Collection -> Seq(Slot)],
           \A o \in Object : held[o] > 0 => held'[o] > 0,
           \A c \in Kept \cap Collection : InSlots(Owned[c]) \subseteq InSlots(Owned'[c])
    PROVE  Kept \subseteq Kept'
<1>. DEFINE from == {o \in Object : held[o] > 0}
            contents == [c \in Collection |-> InSlots(Owned[c])]
            new == {o \in Object : held'[o] > 0}
            after == [c \in Collection |-> InSlots(Owned'[c])]
<1>1. Owned \in [Collection -> Seq(Slot)]
  BY OwnedTyped DEF IInv
<1>2. ASSUME NEW c \in Collection
      PROVE  contents[c] \subseteq Object /\ after[c] \subseteq Object
  <2>1. Owned[c] \in Seq(Slot) /\ Owned'[c] \in Seq(Slot)
    BY <1>1
  <2>. QED BY <2>1, InSlotsTyped
<1>3. from \in SUBSET Object /\ new \in SUBSET Object /\ from \subseteq new
  OBVIOUS
<1>4. \A c \in Collection \cap Kept : contents[c] \subseteq after[c]
  OBVIOUS
<1>5. Kept = Reachable(from, contents) /\ Kept' = Reachable(new, after)
  BY DEF Kept
<1>. HIDE DEF from, contents, new, after
<1>. QED BY <1>2, <1>3, <1>4, <1>5, ReachableGrows

LEMMA KeptSame ==
    ASSUME Owned' = Owned, held' = held
    PROVE  Kept' = Kept
BY DEF Kept

\* A kept collection that loses a slot is still kept.
LEMMA KeptItself ==
    ASSUME IInv, Owned' \in [Collection -> Seq(Slot)], held' = held,
           NEW c \in Kept \cap Collection,
           \A d \in Collection \ {c} : Owned'[d] = Owned[d]
    PROVE  c \in Kept'
<1>. DEFINE from == {o \in Object : held[o] > 0}
            contents == [d \in Collection |-> InSlots(Owned[d])]
            after == [d \in Collection |-> InSlots(Owned'[d])]
<1>1. Owned \in [Collection -> Seq(Slot)]
  BY OwnedTyped DEF IInv
<1>2. ASSUME NEW d \in Collection
      PROVE  contents[d] \subseteq Object /\ after[d] \subseteq Object
  <2>1. Owned[d] \in Seq(Slot) /\ Owned'[d] \in Seq(Slot)
    BY <1>1
  <2>. QED BY <2>1, InSlotsTyped
<1>3. from \in SUBSET Object /\ \A d \in Collection \ {c} : after[d] = contents[d]
  OBVIOUS
<1>4. Kept = Reachable(from, contents) /\ Kept' = Reachable(from, after)
  BY DEF Kept
<1>. HIDE DEF from, contents, after
<1>. QED BY <1>2, <1>3, <1>4, ReachableItself

-----------------------------------------------------------------------------
(* The next piece of a call, and what the pieces say of their objects.     *)

BusyOps == {"shift", "store", "finalize"}

LEMMA NowFacts ==
    ASSUME IInv, todo # <<>>
    PROVE  /\ todo \in Seq(Frame) /\ Tail(todo) \in Seq(Frame) /\ StackOK(Tail(todo))
           /\ Now \in Frame /\ Now \in Range(todo) /\ FrameOK(Now)
           /\ Range(todo) = {Now} \cup Range(Tail(todo))
           /\ Range(todo) \subseteq Frame
           /\ \A f \in Range(Tail(todo)) : f.op \notin MutatorOps
<1>1. todo \in Seq(Frame) /\ StackOK(todo)
  BY TypeFacts DEF IInv
<1>2. /\ Head(todo) \in Frame /\ Tail(todo) \in Seq(Frame)
      /\ Range(todo) = {Head(todo)} \cup Range(Tail(todo))
      /\ Range(todo) \subseteq Frame
  BY <1>1, TodoParts
<1>3. StackOK(Tail(todo)) /\ \A f \in Range(Tail(todo)) : f.op \notin MutatorOps
  BY <1>1, StackTop
<1>4. Now \in Range(todo)
  BY <1>2 DEF Now
<1>5. FrameOK(Now)
  BY <1>4 DEF IInv, FramesOK
<1>. QED BY <1>1, <1>2, <1>3, <1>4, <1>5 DEF Now

LEMMA PiecesTypedIn ==
    ASSUME IInv, NEW f \in Range(todo)
    PROVE  f \in Frame /\ FrameOK(f) /\ todo \in Seq(Frame)
<1>1. todo \in Seq(Frame)
  BY TypeFacts DEF IInv
<1>2. f \in Frame
  BY <1>1, LenProperties DEF Range
<1>. QED BY <1>1, <1>2 DEF IInv, FramesOK

\* The objects the pieces are about.
LEMMA PieceLife ==
    ASSUME IInv, NEW f \in Range(todo)
    PROVE  /\ f.op \in WritingOps => life[f.obj] = "live"
           /\ f.op \in {"finalize", "free"} => life[f.obj] = "dying"
           /\ f.op \in OwningOps => life[f.obj] = "live"
<1>1. f \in Frame /\ FrameOK(f) /\ todo \in Seq(Frame)
  BY PiecesTypedIn
<1>2. ASSUME f.op \in WritingOps PROVE life[f.obj] = "live"
  <2>1. f.obj \in Kept \/ \E g \in Range(todo) : g.op = "fill" /\ g.obj = f.obj
    BY <1>1, <1>2 DEF FrameOK
  <2>2. ASSUME NEW g \in Range(todo), g.op = "fill", g.obj = f.obj
        PROVE  life[f.obj] = "live"
    BY <2>2, PiecesTypedIn DEF FrameOK, BuildingOK
  <2>. QED BY <2>1, <2>2, KeptFacts
<1>3. ASSUME f.op = "free" PROVE life[f.obj] = "dying"
  BY <1>1, <1>3 DEF FrameOK
<1>4. ASSUME f.op = "finalize" PROVE life[f.obj] = "dying"
  <2>1. FreeOf(f.obj) \in Range(todo)
    BY <1>1, <1>4, StackFreed DEF IInv
  <2>2. FrameOK(FreeOf(f.obj)) /\ FreeOf(f.obj).op = "free" /\ FreeOf(f.obj).obj = f.obj
    BY <2>1, PiecesTypedIn DEF FreeOf
  <2>. QED BY <2>2 DEF FrameOK
<1>5. ASSUME f.op \in OwningOps PROVE life[f.obj] = "live"
  <2>1. f.obj \in Object
    BY <1>1, FrameFacts
  <2>2. Occ(todo, Owning(f.obj)) > 0
    BY <1>1, <1>5, <2>1, OwesMember
  <2>3. /\ held[f.obj] \in Nat /\ SlotRefs(Owned, f.obj) \in Nat
        /\ Occ(todo, Owning(f.obj)) \in Nat
    BY <2>1, TypeFacts, OwnedTyped, CountNat DEF IInv
  <2>4. References(f.obj) = held[f.obj] + SlotRefs(Owned, f.obj) + Occ(todo, Owning(f.obj))
    BY <2>1, CountIs DEF IInv, RefCount
  <2>5. References(f.obj) > 0
    BY <2>2, <2>3, <2>4
  <2>. QED BY <2>1, <2>5 DEF IInv, Balanced, NothingDangles
<1>. QED BY <1>2, <1>3, <1>4, <1>5

\* One piece at most is busy with a collection.
LEMMA OneBusy ==
    ASSUME IInv, NEW f \in Range(todo), NEW g \in Range(todo),
           f.op \in BusyOps, g.op \in BusyOps, f.obj = g.obj
    PROVE  f = g
<1>1. todo \in Seq(Frame) /\ StackOK(todo)
  BY PiecesTypedIn DEF IInv
<1>2. CASE f.op \in WritingOps /\ g.op \in WritingOps
  BY <1>1, <1>2, StackOneWrites
<1>3. CASE f.op = "finalize" /\ g.op = "finalize"
  BY <1>1, <1>3, StackOneFinalizer
<1>4. CASE (f.op = "finalize") # (g.op = "finalize")
  <2>1. {life[f.obj], life[g.obj]} = {"live", "dying"}
    BY <1>4, PieceLife DEF BusyOps, WritingOps
  <2>. QED BY <2>1
<1>. QED BY <1>2, <1>3, <1>4 DEF BusyOps, WritingOps

LEMMA OwnedIdle ==
    ASSUME NEW c \in Collection, \A f \in Range(todo) : f.obj = c => f.op \notin BusyOps
    PROVE  Owned[c] = IF life[c] = "live" THEN slots[c] ELSE <<>>
<1>. DEFINE P == Range(todo)
            alive == life[c] = "live"
            s == slots[c]
<1>1. Owned[c] = PartOf(P, alive, s, c)
  BY OwnedIsPart
<1>2. \A f \in P : f.obj = c => f.op \notin {"shift", "store", "finalize"}
  BY DEF BusyOps
<1>. HIDE DEF P, alive, s
<1>3. PartOf(P, alive, s, c) = IF alive THEN s ELSE <<>>
  BY <1>2, PartIdle
<1>. QED BY <1>1, <1>3 DEF alive, s

LEMMA OwnedIdleNext ==
    ASSUME NEW c \in Collection, \A f \in Range(todo') : f.obj = c => f.op \notin BusyOps
    PROVE  Owned'[c] = IF life'[c] = "live" THEN slots'[c] ELSE <<>>
<1>. DEFINE P == Range(todo')
            alive == life'[c] = "live"
            s == slots'[c]
<1>1. Owned'[c] = PartOf(P, alive, s, c)
  BY OwnedIsPart
<1>2. \A f \in P : f.obj = c => f.op \notin {"shift", "store", "finalize"}
  BY DEF BusyOps
<1>. HIDE DEF P, alive, s
<1>3. PartOf(P, alive, s, c) = IF alive THEN s ELSE <<>>
  BY <1>2, PartIdle
<1>. QED BY <1>1, <1>3 DEF alive, s

LEMMA OwnedBusy ==
    ASSUME IInv, NEW f \in Range(todo), f.op \in BusyOps
    PROVE  /\ f.obj \in Collection
           /\ f.op = "shift" => Owned[f.obj] = Without(slots[f.obj], f)
           /\ f.op = "store" => Owned[f.obj] = Stored(slots[f.obj], f)
           /\ f.op = "finalize" => Owned[f.obj] = From(slots[f.obj], f)
<1>1. f.obj \in Collection
  BY PiecesTypedIn, FrameFacts DEF BusyOps
<1>. DEFINE P == Range(todo)
            c == f.obj
            alive == life[c] = "live"
            s == slots[c]
<1>2. \A g \in P : g.obj = c /\ g.op \in {"shift", "store", "finalize"} => g = f
  BY OneBusy DEF BusyOps
<1>3. f \in P /\ f.obj = c /\ Owned[c] = PartOf(P, alive, s, c)
  BY <1>1, OwnedIsPart
<1>. HIDE DEF P, c, alive, s
<1>4. /\ f.op = "shift" => PartOf(P, alive, s, c) = Without(s, f)
      /\ f.op = "store" => PartOf(P, alive, s, c) = Stored(s, f)
      /\ f.op = "finalize" => PartOf(P, alive, s, c) = From(s, f)
  BY <1>2, <1>3, PartOne
<1>. QED BY <1>1, <1>3, <1>4 DEF c, s

LEMMA OwnedBusyNext ==
    ASSUME NEW c \in Collection, NEW f \in Range(todo'), f.obj = c,
           \A g \in Range(todo') : g.obj = c /\ g.op \in BusyOps => g = f
    PROVE  /\ f.op = "shift" => Owned'[c] = Without(slots'[c], f)
           /\ f.op = "store" => Owned'[c] = Stored(slots'[c], f)
           /\ f.op = "finalize" => Owned'[c] = From(slots'[c], f)
<1>. DEFINE P == Range(todo')
            alive == life'[c] = "live"
            s == slots'[c]
<1>1. \A g \in P : g.obj = c /\ g.op \in {"shift", "store", "finalize"} => g = f
  BY DEF BusyOps
<1>2. f \in P /\ Owned'[c] = PartOf(P, alive, s, c)
  BY OwnedIsPart
<1>. HIDE DEF P, alive, s
<1>3. /\ f.op = "shift" => PartOf(P, alive, s, c) = Without(s, f)
      /\ f.op = "store" => PartOf(P, alive, s, c) = Stored(s, f)
      /\ f.op = "finalize" => PartOf(P, alive, s, c) = From(s, f)
  BY <1>1, <1>2, PartOne
<1>. QED BY <1>2, <1>3 DEF s

\* What c owns does not change when nothing about c does.
LEMMA OwnedKept ==
    ASSUME NEW c \in Collection, slots'[c] = slots[c],
           life'[c] = "live" <=> life[c] = "live",
           \A f : f.op \in BusyOps /\ f.obj = c => (f \in Range(todo) <=> f \in Range(todo'))
    PROVE  Owned'[c] = Owned[c]
<1>1. \A f : f.op \in {"shift", "store", "finalize"} /\ f.obj = c
               => (f \in Range(todo) <=> f \in Range(todo'))
  BY DEF BusyOps
<1>2. PartOf(Range(todo), life[c] = "live", slots[c], c)
        = PartOf(Range(todo'), life[c] = "live", slots[c], c)
  BY <1>1, PartSame
<1>3. (life'[c] = "live") = (life[c] = "live")
  OBVIOUS
<1>. QED BY <1>2, <1>3, OwnedIsPart

-----------------------------------------------------------------------------
(* Steps that leave parts of the heap alone.                               *)

\* The count of an object changes as the references to it do.
LEMMA CountAt ==
    ASSUME IInv, todo' \in Seq(Frame), held' \in [Object -> Nat],
           Owned' \in [Collection -> Seq(Slot)],
           NEW o \in Object, life'[o] = "live" <=> life[o] = "live",
           NEW n \in {-1, 0, 1, 2}, rc'[o] = rc[o] + n, n > 0 => life[o] = "live",
           RefCount(held', Owned', todo', o) = RefCount(held, Owned, todo, o) + n
    PROVE  /\ life'[o] = "live" => rc'[o] = References(o)'
           /\ References(o)' > 0 => life'[o] = "live"
<1>1. /\ References(o) = RefCount(held, Owned, todo, o)
      /\ RefCount(held, Owned, todo, o) \in Nat /\ rc[o] \in Nat
  BY CountIs, TypeFacts, OwnedTyped, CountNat DEF IInv
<1>2. References(o)' = RefCount(held', Owned', todo', o)
  BY CountIsNext
<1>4. /\ life[o] = "live" => rc[o] = References(o)
      /\ References(o) > 0 => life[o] = "live"
  BY DEF IInv, Balanced, CountIsReferences, NothingDangles
<1>5. References(o)' = References(o) + n /\ References(o) \in Nat
  BY <1>1, <1>2
<1>. HIDE DEF References
<1>. QED BY <1>1, <1>4, <1>5

LEMMA CountStep ==
    ASSUME IInv, todo' \in Seq(Frame), held' \in [Object -> Nat],
           Owned' \in [Collection -> Seq(Slot)],
           \A o \in Object : life'[o] = "live" <=> life[o] = "live",
           \A o \in Object : \E n \in {-1, 0, 1, 2} :
               /\ rc'[o] = rc[o] + n
               /\ RefCount(held', Owned', todo', o) = RefCount(held, Owned, todo, o) + n
               /\ n > 0 => life[o] = "live"
    PROVE  Balanced'
<1>. SUFFICES ASSUME NEW o \in Object
              PROVE  /\ life'[o] = "live" => rc'[o] = References(o)'
                     /\ References(o)' > 0 => life'[o] = "live"
  BY DEF Balanced, CountIsReferences, NothingDangles
<1>1. PICK n \in {-1, 0, 1, 2} :
          /\ rc'[o] = rc[o] + n
          /\ RefCount(held', Owned', todo', o) = RefCount(held, Owned, todo, o) + n
          /\ n > 0 => life[o] = "live"
  OBVIOUS
<1>. QED BY <1>1, CountAt

\* Nothing about the storage of c changes.
LEMMA StoreSame ==
    ASSUME NEW c \in Collection, StoreOK(c), life'[c] = life[c], slots'[c] = slots[c],
           capacity'[c] = capacity[c], buffers'[c] = buffers[c],
           (\E f \in Range(todo) : f.op = "finalize" /\ f.obj = c)
             <=> (\E f \in Range(todo') : f.op = "finalize" /\ f.obj = c)
    PROVE  StoreOK(c)'
<1>1. Pending(c, "finalize") # {} <=> Pending(c, "finalize")' # {}
  BY DEF Pending
<1>2. CollectionOK(c)'
  BY <1>1 DEF StoreOK, CollectionOK
<1>. QED BY <1>2 DEF StoreOK

LEMMA StorageSame ==
    ASSUME StorageOK, life' = life, slots' = slots, capacity' = capacity, buffers' = buffers,
           \A c \in Collection :
               (\E f \in Range(todo) : f.op = "finalize" /\ f.obj = c)
                 <=> (\E f \in Range(todo') : f.op = "finalize" /\ f.obj = c)
    PROVE  StorageOK'
<1>1. ASSUME NEW c \in Collection PROVE StoreOK(c)'
  <2>1. StoreOK(c)
    BY DEF StorageOK
  <2>2. (\E f \in Range(todo) : f.op = "finalize" /\ f.obj = c)
          <=> (\E f \in Range(todo') : f.op = "finalize" /\ f.obj = c)
    OBVIOUS
  <2>. QED BY <2>1, <2>2, StoreSame
<1>. QED BY <1>1 DEF StorageOK

\* What holds of the pieces P of a call holds of them after a step.
LEMMA FramesKept ==
    ASSUME IInv, NEW P, P \subseteq Range(todo), P \subseteq Range(todo'),
           \A f \in P : f.op \notin MutatorOps,
           \A f \in Range(todo) : f.op = "fill" => f \in P,
           Kept \subseteq Kept', held' = held,
           slots' \in [Collection -> Seq(Slot)],
           \A f \in P :
               /\ f.op = "free" => life'[f.obj] = "dying"
               /\ f.op \in {"finalize", "reserve"} => slots'[f.obj] = slots[f.obj]
               /\ f.op \in WritingOps => DOMAIN slots'[f.obj] = DOMAIN slots[f.obj]
               /\ f.op = "fill" => /\ Len(slots'[f.obj]) <= Len(slots[f.obj])
                                   /\ capacity'[f.obj] = capacity[f.obj]
               /\ f.op \in CreatorOps => life'[f.obj] = "live" /\ rc'[f.obj] = rc[f.obj]
    PROVE  \A f \in P : FrameOK(f)'
<1>. SUFFICES ASSUME NEW f \in P PROVE FrameOK(f)'
  OBVIOUS
<1>1. f \in Frame /\ FrameOK(f) /\ f \in Range(todo)
  BY PiecesTypedIn
<1>2. f.op \notin MutatorOps /\ f.op = "free" => life'[f.obj] = "dying"
  OBVIOUS
<1>3. ASSUME f.op = "finalize" PROVE f.index \in 1..(Len(slots'[f.obj]) + 1)
  BY <1>1, <1>3 DEF FrameOK
<1>4. ASSUME NEW l, BuildingOK(f.obj, l), f.op \in CreatorOps
      PROVE  BuildingOK(f.obj, l)'
  <2>1. ListOK(f.obj, l)'
    BY <1>4 DEF BuildingOK, ListOK
  <2>. QED BY <1>4, <2>1 DEF BuildingOK
<1>5. ASSUME f.op = "reserve"
      PROVE  BuildingOK(f.obj, f.rest)' /\ slots'[f.obj] = <<>> /\ Len(f.rest) <= f.room
  BY <1>1, <1>4, <1>5 DEF FrameOK, CreatorOps
<1>6. ASSUME f.op = "fill"
      PROVE  BuildingOK(f.obj, f.rest)'
             /\ Len(slots'[f.obj]) + Len(f.rest) <= capacity'[f.obj]
  <2>1. BuildingOK(f.obj, f.rest)' /\ Len(slots[f.obj]) + Len(f.rest) <= capacity[f.obj]
    BY <1>1, <1>4, <1>6 DEF FrameOK, CreatorOps
  <2>2. f.obj \in Collection /\ f.rest \in Seq(Element)
    BY <1>1, <1>6, FrameFacts DEF CreatorOps
  <2>3. /\ Len(slots[f.obj]) \in Nat /\ Len(slots'[f.obj]) \in Nat /\ Len(f.rest) \in Nat
        /\ capacity[f.obj] \in Nat
    BY <2>2, TypeFacts, LenProperties DEF IInv
  <2>. DEFINE m == Len(slots'[f.obj])
              n == Len(slots[f.obj])
              r == Len(f.rest)
              room == capacity[f.obj]
  <2>4. m <= n /\ n + r <= room /\ capacity'[f.obj] = room
        /\ m \in Nat /\ n \in Nat /\ r \in Nat /\ room \in Nat
    BY <1>6, <2>1, <2>3
  <2>. HIDE DEF m, n, r, room
  <2>5. m + r <= room
    BY <2>4
  <2>. QED BY <2>1, <2>4, <2>5 DEF m, r, room
<1>7. ASSUME f.op \in WritingOps
      PROVE  /\ f.index \in DOMAIN slots'[f.obj]
             /\ f.obj \in Kept' \/ \E g \in Range(todo') : g.op = "fill" /\ g.obj = f.obj
  <2>1. /\ f.index \in DOMAIN slots[f.obj]
        /\ f.obj \in Kept \/ \E g \in Range(todo) : g.op = "fill" /\ g.obj = f.obj
    BY <1>1, <1>7 DEF FrameOK
  <2>2. DOMAIN slots'[f.obj] = DOMAIN slots[f.obj]
    BY <1>7
  <2>3. \A g \in Range(todo) : g.op = "fill" => g \in Range(todo')
    OBVIOUS
  <2>. QED BY <2>1, <2>2, <2>3
<1>. QED BY <1>2, <1>3, <1>5, <1>6, <1>7 DEF FrameOK

\* The same when no slot is written.
LEMMA FramesQuiet ==
    ASSUME IInv, NEW P, P \subseteq Range(todo), P \subseteq Range(todo'),
           \A f \in P : f.op \notin MutatorOps,
           \A f \in Range(todo) : f.op = "fill" => f \in P,
           Kept \subseteq Kept', held' = held, capacity' = capacity, slots' = slots,
           \A f \in P :
               /\ f.op = "free" => life'[f.obj] = "dying"
               /\ f.op \in CreatorOps => life'[f.obj] = "live" /\ rc'[f.obj] = rc[f.obj]
    PROVE  \A f \in P : FrameOK(f)'
<1>1. ASSUME NEW f \in P, f.op = "fill" PROVE Len(slots'[f.obj]) <= Len(slots[f.obj])
  <2>1. f.obj \in Collection
    BY <1>1, PiecesTypedIn, FrameFacts
  <2>2. Len(slots[f.obj]) \in Nat
    BY <2>1, TypeFacts, LenProperties DEF IInv
  <2>. QED BY <2>2
<1>2. slots' \in [Collection -> Seq(Slot)]
  BY TypeFacts DEF IInv
<1>3. ASSUME NEW f \in P
      PROVE  /\ f.op = "free" => life'[f.obj] = "dying"
             /\ f.op \in {"finalize", "reserve"} => slots'[f.obj] = slots[f.obj]
             /\ f.op \in WritingOps => DOMAIN slots'[f.obj] = DOMAIN slots[f.obj]
             /\ f.op = "fill" => /\ Len(slots'[f.obj]) <= Len(slots[f.obj])
                                 /\ capacity'[f.obj] = capacity[f.obj]
             /\ f.op \in CreatorOps => life'[f.obj] = "live" /\ rc'[f.obj] = rc[f.obj]
  BY <1>1
<1>. QED BY <1>2, <1>3, FramesKept

\* A collection under construction has one reference.
LEMMA CreatorFacts ==
    ASSUME IInv, NEW f \in Range(todo), f.op \in CreatorOps
    PROVE  /\ f.obj \in Collection /\ life[f.obj] = "live" /\ rc[f.obj] = 1 /\ held[f.obj] = 0
           /\ f.rest \in Seq(Element) /\ ListOK(f.obj, f.rest)
<1>1. f \in Frame /\ FrameOK(f)
  BY PiecesTypedIn
<1>2. BuildingOK(f.obj, f.rest)
  BY <1>1 DEF FrameOK, CreatorOps
<1>. QED BY <1>1, <1>2, FrameFacts DEF BuildingOK, CreatorOps

\* What the collections own stays when no busy piece comes or goes.
LEMMA OwnedSame ==
    ASSUME slots' = slots, \A c \in Collection : life'[c] = "live" <=> life[c] = "live",
           \A f : f.op \in BusyOps => (f \in Range(todo) <=> f \in Range(todo'))
    PROVE  Owned' = Owned
<1>1. ASSUME NEW c \in Collection PROVE Owned'[c] = Owned[c]
  BY OwnedKept
<1>. QED BY <1>1, OwnedDomain

\* Only c owns other slots than before.
LEMMA OwnedChange ==
    ASSUME NEW c \in Collection, NEW s, Owned'[c] = s,
           \A d \in Collection \ {c} : Owned'[d] = Owned[d]
    PROVE  Owned' = [Owned EXCEPT ![c] = s]
BY OwnedDomain

-----------------------------------------------------------------------------
(* Pieces put in front of a call.                                          *)

LEMMA PushShapes ==
    ASSUME NEW td \in Seq(Frame), NEW f \in Frame, NEW g \in Frame
    PROVE  /\ <<>> \o td = td
           /\ <<f, g>> \o td = <<f>> \o (<<g>> \o td)
           /\ (<<>> \o <<f>>) \o td = <<f>> \o td
           /\ (<<f>> \o <<g>>) \o td = <<f>> \o (<<g>> \o td)
<1>1. <<f>> \in Seq(Frame) /\ <<g>> \in Seq(Frame)
  OBVIOUS
<1>2. <<>> \o td = td /\ <<>> \o <<f>> = <<f>>
  BY <1>1, ConcatEmptySeq
<1>3. (<<f>> \o <<g>>) \o td = <<f>> \o (<<g>> \o td)
  BY <1>1, ConcatAssociative
<1>4. <<f, g>> = <<f>> \o <<g>>
  <2>. DEFINE t == <<f>> \o <<g>>
  <2>1. t \in Seq(Frame) /\ Len(t) = Len(<<g>>) + 1 /\ t[1] = f
        /\ \A j \in 1..Len(<<g>>) : t[j+1] = <<g>>[j]
    BY <1>1, ConsProperties
  <2>. HIDE DEF t
  <2>2. Len(<<g>>) = 1 /\ <<g>>[1] = g
    OBVIOUS
  <2>3. Len(t) = 2 /\ t[1] = f /\ t[1+1] = g
    BY <2>1, <2>2
  <2>4. <<f, g>> \in Seq(Frame) /\ Len(<<f, g>>) = 2 /\ <<f, g>>[1] = f /\ <<f, g>>[2] = g
    OBVIOUS
  <2>5. \A j \in 1..Len(t) : t[j] = <<f, g>>[j]
    BY <2>3, <2>4
  <2>6. t = <<f, g>>
    BY <2>1, <2>3, <2>4, <2>5, SeqEqual
  <2>. QED BY <2>6 DEF t
<1>. QED BY <1>2, <1>3, <1>4

LEMMA ReleasesPush ==
    ASSUME NEW td \in Seq(Frame), StackOK(td), \A g \in Range(td) : g.op \notin MutatorOps,
           NEW c \in Collection, NEW s \in Slot, s.key = NULL <=> c \in Array
    PROVE  /\ ReleasesOf(c, s) \in Seq(Frame)
           /\ ReleasesOf(c, s) \o td \in Seq(Frame)
           /\ StackOK(ReleasesOf(c, s) \o td)
           /\ \A f \in Range(ReleasesOf(c, s) \o td) : f \in Range(td) \/ f.op = "release"
           /\ Range(td) \subseteq Range(ReleasesOf(c, s) \o td)
           /\ \A o \in Object : Occ(ReleasesOf(c, s) \o td, Owning(o))
                                  = Occ(td, Owning(o)) + Retained(s, o)
<1>. DEFINE v == Release(s.value)
            t == <<v>> \o td
            k == Release(s.key)
<1>1. v \in Frame /\ v.op = "release" /\ v.obj = s.value
  BY PiecesTyped DEF Release, Slot
<1>2. /\ t \in Seq(Frame) /\ Range(t) = {v} \cup Range(td)
      /\ \A o \in Object : Occ(t, Owning(o)) = Occ(td, Owning(o)) + Owes(v, o)
  BY <1>1, ConsProperties, RangeCons, OwesPush
<1>3. StackOK(t)
  BY <1>1, StackPush DEF MutatorOps, CreatorOps, WritingOps
<1>4. CASE c \in Array
  <2>1. ReleasesOf(c, s) = <<v>> /\ s.key = NULL
    BY <1>4 DEF ReleasesOf
  <2>2. \A o \in Object : Owes(v, o) = Retained(s, o)
    BY <1>1, <2>1, ObjectsDistinct DEF Owes, OwningOps, Retained
  <2>3. <<v>> \in Seq(Frame)
    BY <1>1
  <2>. QED BY <1>1, <1>2, <1>3, <2>1, <2>2, <2>3
<1>5. CASE c \notin Array
  <2>1. k \in Frame /\ k.op = "release" /\ k.obj = s.key
    BY <1>5, PiecesTyped DEF Release, Slot
  <2>2. ReleasesOf(c, s) = <<k, v>>
    BY <1>5 DEF ReleasesOf
  <2>3. ReleasesOf(c, s) \o td = <<k>> \o t
    BY <1>1, <2>1, <2>2, PushShapes
  <2>. DEFINE u == <<k>> \o t
  <2>. HIDE DEF t
  <2>4. /\ u \in Seq(Frame) /\ Range(u) = {k} \cup Range(t)
        /\ \A o \in Object : Occ(u, Owning(o)) = Occ(t, Owning(o)) + Owes(k, o)
    BY <1>2, <2>1, ConsProperties, RangeCons, OwesPush
  <2>5. \A g \in Range(t) : g.op \notin MutatorOps
    BY <1>1, <1>2 DEF MutatorOps
  <2>6. StackOK(u)
    BY <1>2, <1>3, <2>1, <2>5, StackPush DEF MutatorOps, CreatorOps, WritingOps
  <2>7. ASSUME NEW o \in Object
        PROVE  Occ(u, Owning(o)) = Occ(td, Owning(o)) + Retained(s, o)
    <3>1. Owes(v, o) + Owes(k, o) = Retained(s, o)
      BY <1>1, <2>1 DEF Owes, OwningOps, Retained
    <3>2. Owes(v, o) \in Nat /\ Owes(k, o) \in Nat
      BY DEF Owes
    <3>3. Occ(td, Owning(o)) \in Nat
      BY OccNat
    <3>4. Occ(u, Owning(o)) = (Occ(td, Owning(o)) + Owes(v, o)) + Owes(k, o)
      BY <1>2, <2>4
    <3>. HIDE DEF u, v, k
    <3>. QED BY <3>1, <3>2, <3>3, <3>4
  <2>8. <<k, v>> \in Seq(Frame)
    BY <1>1, <2>1
  <2>. HIDE DEF u
  <2>9. ReleasesOf(c, s) \o td = u
    BY <2>3 DEF u
  <2>10. Range(u) = {k, v} \cup Range(td)
    BY <1>2, <2>4
  <2>. QED BY <1>1, <2>1, <2>2, <2>4, <2>6, <2>7, <2>8, <2>9, <2>10
<1>. QED BY <1>4, <1>5

-----------------------------------------------------------------------------
(* The steps of a release keep the invariant.                              *)

\* What the count of references is made of.
LEMMA CountFacts ==
    ASSUME IInv, NEW o \in Object
    PROVE  /\ References(o) = RefCount(held, Owned, todo, o)
           /\ RefCount(held, Owned, todo, o) = held[o] + SlotRefs(Owned, o) + Occ(todo, Owning(o))
           /\ held[o] \in Nat /\ SlotRefs(Owned, o) \in Nat /\ Occ(todo, Owning(o)) \in Nat
           /\ RefCount(held, Owned, todo, o) \in Nat /\ rc[o] \in Nat
           /\ life[o] = "live" => rc[o] = References(o)
           /\ References(o) > 0 => life[o] = "live"
<1>1. held \in [Object -> Nat] /\ todo \in Seq(Frame) /\ Owned \in [Collection -> Seq(Slot)]
      /\ rc[o] \in Nat
  BY TypeFacts, OwnedTyped DEF IInv
<1>2. /\ held[o] \in Nat /\ SlotRefs(Owned, o) \in Nat /\ Occ(todo, Owning(o)) \in Nat
      /\ RefCount(held, Owned, todo, o) \in Nat
  BY <1>1, CountNat
<1>3. References(o) = RefCount(held, Owned, todo, o)
  BY CountIs DEF IInv
<1>4. /\ life[o] = "live" => rc[o] = References(o)
      /\ References(o) > 0 => life[o] = "live"
  BY DEF IInv, Balanced, CountIsReferences, NothingDangles
<1>. HIDE DEF References
<1>. QED BY <1>1, <1>2, <1>3, <1>4 DEF RefCount

LEMMA ReleaseSharedKeeps == IInv /\ ReleaseShared => IInv'
<1>. SUFFICES ASSUME IInv, ReleaseShared PROVE IInv'
  OBVIOUS
<1>. DEFINE o == Now.obj
            td == Tail(todo)
<1>1. /\ aborted = "no" /\ todo # <<>> /\ Now.op = "release"
      /\ life[o] = "live" /\ rc[o] > 1 /\ rc' = [rc EXCEPT ![o] = @ - 1]
      /\ todo' = <<>> \o td
      /\ life' = life /\ slots' = slots /\ capacity' = capacity /\ buffers' = buffers
      /\ mutable' = mutable /\ held' = held /\ aborted' = aborted
  BY DEF ReleaseShared, Running, Push, storage
<1>2. /\ todo \in Seq(Frame) /\ td \in Seq(Frame) /\ StackOK(td) /\ Now \in Frame
      /\ Range(todo) = {Now} \cup Range(td)
      /\ \A f \in Range(td) : f.op \notin MutatorOps
  BY <1>1, NowFacts
<1>3. o \in Object /\ Now = Head(todo)
  BY <1>1, <1>2, FrameFacts DEF Now
<1>. HIDE DEF o, td
<1>4. todo' = td
  BY <1>1, <1>2, ConcatEmptySeq
<1>5. TypeOK'
  <2>1. rc \in [Object -> Nat]
    BY TypeFacts DEF IInv
  <2>2. rc[o] \in Nat /\ rc[o] > 1
    BY <1>1, <1>3, <2>1
  <2>3. rc[o] - 1 \in Nat
    BY <2>2
  <2>4. rc' \in [Object -> Nat]
    BY <1>1, <2>1, <2>3
  <2>. QED BY <1>1, <1>2, <1>4, <2>4 DEF IInv, TypeOK
<1>6. Owned' = Owned
  <2>1. \A f : f.op \in BusyOps => (f \in Range(todo) <=> f \in Range(todo'))
    BY <1>1, <1>2, <1>4 DEF BusyOps
  <2>. QED BY <1>1, <2>1, OwnedSame
<1>7. Owned \in [Collection -> Seq(Slot)]
  BY OwnedTyped DEF IInv
<1>8. Balanced'
  <2>1. ASSUME NEW x \in Object
        PROVE  \E n \in {-1, 0, 1, 2} :
                   /\ rc'[x] = rc[x] + n
                   /\ RefCount(held', Owned', todo', x) = RefCount(held, Owned, todo, x) + n
                   /\ n > 0 => life[x] = "live"
    <3>1. Occ(todo, Owning(x)) = Occ(todo', Owning(x)) + Owes(Now, x)
          /\ Occ(todo', Owning(x)) \in Nat
      BY <1>1, <1>2, <1>3, <1>4, OwesTop DEF td
    <3>2. Owes(Now, x) = IF x = o THEN 1 ELSE 0
      BY <1>1 DEF Owes, OwningOps, o
    <3>3. rc[x] \in Nat /\ rc'[x] = rc[x] - Owes(Now, x)
      BY <1>1, <1>3, <3>2, TypeFacts DEF IInv
    <3>4. held[x] \in Nat /\ SlotRefs(Owned, x) \in Nat
      BY CountFacts
    <3>5. RefCount(held', Owned', todo', x)
            = held[x] + SlotRefs(Owned, x) + Occ(todo', Owning(x))
      BY <1>1, <1>6 DEF RefCount
    <3>6. RefCount(held, Owned, todo, x)
            = held[x] + SlotRefs(Owned, x) + Occ(todo, Owning(x))
      BY DEF RefCount
    <3>7. Owes(Now, x) \in {0, 1}
      BY <3>2
    <3>8. RefCount(held', Owned', todo', x) = RefCount(held, Owned, todo, x) - Owes(Now, x)
      BY <3>1, <3>4, <3>5, <3>6, <3>7
    <3>9. RefCount(held, Owned, todo, x) \in Nat
      BY CountFacts
    <3>10. /\ rc'[x] = rc[x] + (0 - Owes(Now, x)) /\ 0 - Owes(Now, x) \in {-1, 0}
           /\ RefCount(held', Owned', todo', x)
                = RefCount(held, Owned, todo, x) + (0 - Owes(Now, x))
      BY <3>3, <3>7, <3>8, <3>9
    <3>11. ~(0 - Owes(Now, x) > 0)
      BY <3>7
    <3>. QED BY <3>10, <3>11
  <2>2. rc' \in [Object -> Nat] /\ todo' \in Seq(Frame) /\ held' \in [Object -> Nat]
        /\ Owned' \in [Collection -> Seq(Slot)]
    BY <1>1, <1>2, <1>4, <1>5, <1>6, <1>7, TypeFacts DEF IInv, TypeOK
  <2>. QED BY <1>1, <2>1, <2>2, CountStep
<1>9. StorageOK'
  <2>1. ASSUME NEW c \in Collection
        PROVE  (\E f \in Range(todo) : f.op = "finalize" /\ f.obj = c)
                 <=> (\E f \in Range(todo') : f.op = "finalize" /\ f.obj = c)
    BY <1>1, <1>2, <1>4
  <2>. QED BY <1>1, <2>1, StorageSame DEF IInv
<1>10. NoFalseAlarm' /\ StackOK(todo')
  BY <1>1, <1>2, <1>4 DEF IInv, NoFalseAlarm
<1>11. FramesOK'
  <2>. DEFINE P == Range(td)
  <2>1. P \subseteq Range(todo) /\ P \subseteq Range(todo') /\ \A f \in P : f.op \notin MutatorOps
    BY <1>2, <1>4
  <2>2. \A f \in Range(todo) : f.op = "fill" => f \in P
    BY <1>1, <1>2
  <2>3. Kept \subseteq Kept'
    BY <1>1, <1>6, KeptSame
  <2>4. ASSUME NEW f \in P
        PROVE  /\ f.op = "free" => life'[f.obj] = "dying"
               /\ f.op \in CreatorOps => life'[f.obj] = "live" /\ rc'[f.obj] = rc[f.obj]
    <3>1. f.op = "free" => life[f.obj] = "dying"
      BY <2>1, PieceLife
    <3>2. ASSUME f.op \in CreatorOps PROVE life[f.obj] = "live" /\ rc'[f.obj] = rc[f.obj]
      <4>1. f.obj \in Object /\ life[f.obj] = "live" /\ rc[f.obj] = 1
        BY <2>1, <3>2, CreatorFacts DEF Object
      <4>2. f.obj # o
        <5>. SUFFICES ASSUME f.obj = o PROVE FALSE
          OBVIOUS
        <5>1. rc[o] > 1 /\ rc[o] = 1
          BY <1>1, <4>1
        <5>. QED BY <5>1
      <4>3. rc \in [Object -> Nat]
        BY TypeFacts DEF IInv
      <4>. QED BY <1>1, <4>1, <4>2, <4>3
    <3>3. life' = life
      BY <1>1
    <3>. QED BY <3>1, <3>2, <3>3
  <2>5. \A f \in P : FrameOK(f)'
    <3>. HIDE DEF P
    <3>. QED BY <1>1, <2>1, <2>2, <2>3, <2>4, FramesQuiet
  <2>. QED BY <1>4, <2>5 DEF FramesOK
<1>. QED BY <1>5, <1>8, <1>9, <1>10, <1>11 DEF IInv

(* The pieces of a call typed as a whole. *)

\* No piece of the rest of a release is about an object with no other reference.
LEMMA LastReference ==
    ASSUME IInv, todo # <<>>, Now.op = "release", rc[Now.obj] = 1
    PROVE  /\ Now.obj \in Object /\ life[Now.obj] = "live"
           /\ held[Now.obj] = 0 /\ SlotRefs(Owned, Now.obj) = 0
           /\ Occ(Tail(todo), Owning(Now.obj)) = 0
           /\ \A f \in Range(Tail(todo)) : f.obj # Now.obj
<1>. DEFINE o == Now.obj
            td == Tail(todo)
<1>1. /\ todo \in Seq(Frame) /\ td \in Seq(Frame) /\ Now \in Frame /\ Now \in Range(todo)
      /\ Range(todo) = {Now} \cup Range(td) /\ Now.op = "release" /\ rc[o] = 1
      /\ \A f \in Range(td) : f.op \notin MutatorOps
  BY NowFacts
<1>2. o \in Object /\ life[o] = "live"
  BY <1>1, FrameFacts, PieceLife DEF OwningOps
<1>3. Occ(todo, Owning(o)) = Occ(td, Owning(o)) + Owes(Now, o) /\ Occ(td, Owning(o)) \in Nat
  BY <1>1, <1>2, OwesTop DEF Now
<1>4. Owes(Now, o) = 1
  BY <1>1 DEF Owes, OwningOps
<1>. HIDE DEF o, td
<1>5. held[o] = 0 /\ SlotRefs(Owned, o) = 0 /\ Occ(td, Owning(o)) = 0
  <2>. DEFINE h == held[o]
              s == SlotRefs(Owned, o)
              p == Occ(td, Owning(o))
              q == Occ(todo, Owning(o))
  <2>1. 1 = h + s + q /\ h \in Nat /\ s \in Nat /\ q \in Nat
    BY <1>1, <1>2, CountFacts
  <2>2. q = p + 1 /\ p \in Nat
    BY <1>3, <1>4
  <2>. HIDE DEF h, s, p, q
  <2>3. h = 0 /\ s = 0 /\ p = 0
    BY <2>1, <2>2
  <2>. QED BY <2>3 DEF h, s, p
<1>6. ASSUME NEW f \in Range(td), f.obj = o PROVE FALSE
  <2>1. f \in Range(todo) /\ f \in Frame
    BY <1>1, PiecesTypedIn
  <2>2. f.op \notin OwningOps
    <3>1. f.op \in OwningOps => Occ(td, Owning(o)) > 0
      BY <1>1, <1>2, <1>6, OwesMember
    <3>. QED BY <1>5, <3>1
  <2>3. f.op \notin {"finalize", "free"}
    BY <1>2, <1>6, <2>1, PieceLife
  <2>4. f.op \notin WritingOps
    <3>1. SUFFICES ASSUME f.op \in WritingOps PROVE FALSE
      OBVIOUS
    <3>2. o \notin Kept
      BY <1>2, <1>5, NotKept
    <3>3. PICK g \in Range(todo) : g.op = "fill" /\ g.obj = o
      BY <1>6, <2>1, <3>1, <3>2, PiecesTypedIn DEF FrameOK
    <3>4. g \in Range(td)
      BY <1>1, <3>3
    <3>5. Occ(td, Owning(o)) > 0
      BY <1>1, <1>2, <3>3, <3>4, OwesMember DEF OwningOps
    <3>. QED BY <1>5, <3>5
  <2>5. f.op \notin MutatorOps
    BY <1>1
  <2>. QED BY <2>1, <2>2, <2>3, <2>4, <2>5, FrameFacts
              DEF OwningOps, WritingOps, MutatorOps, CreatorOps
<1>. QED BY <1>2, <1>5, <1>6 DEF o, td

LEMMA ReleaseLastKeeps == IInv /\ ReleaseLast => IInv'
<1>. SUFFICES ASSUME IInv, ReleaseLast PROVE IInv'
  OBVIOUS
<1>. DEFINE td == Tail(todo)
<1>1. aborted = "no" /\ todo # <<>> /\ Now.op = "release"
  BY DEF ReleaseLast, Running
<1>2. /\ todo \in Seq(Frame) /\ td \in Seq(Frame) /\ StackOK(td) /\ Now \in Frame
      /\ Range(todo) = {Now} \cup Range(td) /\ Range(td) \subseteq Frame
      /\ \A f \in Range(td) : f.op \notin MutatorOps
      /\ life[Now.obj] = "live"
  BY <1>1, NowFacts, PieceLife DEF OwningOps
<1>. PICK o \in Object : o = Now.obj
  BY <1>2, FrameFacts
<1>. PICK g : g = FreeOf(o)
  OBVIOUS
<1>. PICK f1 : f1 = FinalizeFrom(o, 1)
  OBVIOUS
<1>3. /\ rc[o] = 1 /\ life' = [life EXCEPT ![o] = "dying"]
      /\ todo' = ((IF o \in Leaf THEN <<>> ELSE <<f1>>) \o <<g>>) \o td
      /\ rc' = rc /\ slots' = slots /\ capacity' = capacity /\ buffers' = buffers
      /\ mutable' = mutable /\ held' = held /\ aborted' = aborted
  BY <1>2 DEF ReleaseLast, Push, storage
<1>4. /\ held[o] = 0 /\ SlotRefs(Owned, o) = 0 /\ Occ(td, Owning(o)) = 0
      /\ \A f \in Range(td) : f.obj # o
  BY <1>1, <1>3, LastReference
<1>. HIDE DEF td
<1>. DEFINE t == <<g>> \o td
<1>5. /\ g \in Frame /\ g.op = "free" /\ g.obj = o
      /\ o \notin Leaf => /\ o \in Collection /\ f1 \in Frame /\ f1.op = "finalize"
                          /\ f1.obj = o /\ f1.index = 1
  BY <1>4, PiecesTyped DEF FreeOf, FinalizeFrom, Object
<1>6. /\ t \in Seq(Frame) /\ t # <<>> /\ Head(t) = g /\ Range(t) = {g} \cup Range(td)
      /\ \A x \in Object : Occ(t, Owning(x)) = Occ(td, Owning(x)) + Owes(g, x)
  <2>1. \A x \in Object : Occ(t, Owning(x)) = Occ(td, Owning(x)) + Owes(g, x)
    BY <1>2, <1>5, OwesPush
  <2>. QED BY <1>2, <1>5, <2>1, ConsProperties, RangeCons
<1>7. todo' = IF o \in Leaf THEN t ELSE <<f1>> \o t
  <2>1. CASE o \in Leaf
    BY <1>2, <1>3, <1>5, <2>1, PushShapes
  <2>2. CASE o \notin Leaf
    BY <1>2, <1>3, <1>5, <2>2, PushShapes
  <2>. QED BY <2>1, <2>2
<1>. HIDE DEF t
<1>8. StackOK(t)
  BY <1>2, <1>4, <1>5, StackPush DEF MutatorOps, CreatorOps, WritingOps, t
<1>9. /\ todo' \in Seq(Frame) /\ StackOK(todo')
      /\ Range(todo') = (IF o \in Leaf THEN {} ELSE {f1}) \cup {g} \cup Range(td)
      /\ \A x \in Object : Occ(todo', Owning(x)) = Occ(td, Owning(x))
  <2>1. ASSUME NEW x \in Object PROVE Occ(t, Owning(x)) = Occ(td, Owning(x))
    <3>1. Owes(g, x) = 0 /\ Occ(td, Owning(x)) \in Nat
      BY <1>2, <1>5, OccNat DEF Owes, OwningOps
    <3>. QED BY <1>6, <3>1
  <2>2. CASE o \in Leaf
    BY <1>6, <1>7, <1>8, <2>1, <2>2
  <2>3. CASE o \notin Leaf
    <3>. DEFINE u == <<f1>> \o t
    <3>1. /\ u \in Seq(Frame) /\ Range(u) = {f1} \cup Range(t)
          /\ \A x \in Object : Occ(u, Owning(x)) = Occ(t, Owning(x)) + Owes(f1, x)
      BY <1>5, <1>6, <2>3, ConsProperties, RangeCons, OwesPush
    <3>2. Head(t) = FreeOf(f1.obj) /\ \A h \in Range(t) : h.op \notin MutatorOps
      BY <1>2, <1>5, <1>6, <2>3 DEF MutatorOps
    <3>3. StackOK(u)
      BY <1>5, <1>6, <1>8, <2>3, <3>2, StackPush DEF MutatorOps, CreatorOps, WritingOps
    <3>4. ASSUME NEW x \in Object PROVE Occ(u, Owning(x)) = Occ(td, Owning(x))
      <4>1. Owes(f1, x) = 0 /\ Occ(td, Owning(x)) \in Nat
        BY <1>2, <1>5, <2>3, OccNat DEF Owes, OwningOps
      <4>. QED BY <2>1, <3>1, <4>1
    <3>5. todo' = u
      BY <1>7, <2>3
    <3>. HIDE DEF u
    <3>. QED BY <1>6, <2>3, <3>1, <3>3, <3>4, <3>5
  <2>. QED BY <2>2, <2>3
<1>10. TypeOK'
  <2>1. life' \in [Object -> {"unborn", "live", "dying", "freed"}]
    BY <1>3, TypeFacts DEF IInv
  <2>. QED BY <1>3, <1>9, <2>1 DEF IInv, TypeOK
<1>11. \A x \in Object \ {o} : life'[x] = life[x]
  BY <1>3, TypeFacts DEF IInv
<1>12. life'[o] = "dying"
  BY <1>3, <1>4, TypeFacts DEF IInv
<1>13. Owned' = Owned
  <2>1. ASSUME NEW c \in Collection \ {o} PROVE Owned'[c] = Owned[c]
    <3>1. \A f : f.op \in BusyOps /\ f.obj = c => (f \in Range(todo) <=> f \in Range(todo'))
      BY <1>1, <1>2, <1>5, <1>9 DEF BusyOps
    <3>2. life'[c] = life[c]
      BY <1>11 DEF Object
    <3>. QED BY <1>3, <3>1, <3>2, OwnedKept
  <2>2. ASSUME o \in Collection PROVE Owned'[o] = Owned[o]
    <3>1. Owned[o] = slots[o]
      <4>1. \A f \in Range(todo) : f.obj = o => f.op \notin BusyOps
        BY <1>1, <1>2, <1>4 DEF BusyOps
      <4>. QED BY <1>2, <2>2, <4>1, OwnedIdle
    <3>2. o \notin Leaf
      BY <2>2, ObjectsDistinct
    <3>3. f1 \in Range(todo') /\ f1.obj = o /\ f1.op = "finalize"
          /\ \A h \in Range(todo') : h.obj = o /\ h.op \in BusyOps => h = f1
      BY <1>4, <1>5, <1>9, <3>2 DEF BusyOps
    <3>4. Owned'[o] = From(slots'[o], f1)
      BY <2>2, <3>3, OwnedBusyNext
    <3>5. From(slots'[o], f1) = slots[o]
      <4>1. slots[o] \in Seq(Slot)
        BY <2>2, TypeFacts DEF IInv
      <4>. QED BY <1>3, <1>5, <3>2, <4>1, SubSeqFull DEF From
    <3>. QED BY <3>1, <3>4, <3>5
  <2>. QED BY <2>1, <2>2, OwnedDomain
<1>14. Owned' \in [Collection -> Seq(Slot)] /\ held' \in [Object -> Nat]
  BY <1>3, <1>13, OwnedTyped, TypeFacts DEF IInv
<1>15. Balanced'
  <2>1. ASSUME NEW x \in Object, x # o
        PROVE  /\ life'[x] = "live" => rc'[x] = References(x)'
               /\ References(x)' > 0 => life'[x] = "live"
    <3>1. Occ(todo, Owning(x)) = Occ(todo', Owning(x))
      <4>1. Occ(todo, Owning(x)) = Occ(td, Owning(x)) + Owes(Now, x)
            /\ Occ(td, Owning(x)) \in Nat
        BY <1>1, <1>2, OwesTop DEF td, Now
      <4>2. Owes(Now, x) = 0
        BY <2>1 DEF Owes
      <4>. QED BY <1>9, <4>1, <4>2
    <3>2. RefCount(held', Owned', todo', x) = RefCount(held, Owned, todo, x)
      BY <1>3, <1>13, <3>1 DEF RefCount
    <3>3. RefCount(held, Owned, todo, x) \in Nat /\ rc[x] \in Nat
      BY CountFacts
    <3>4. /\ RefCount(held', Owned', todo', x) = RefCount(held, Owned, todo, x) + 0
          /\ rc'[x] = rc[x] + 0
      BY <1>3, <3>2, <3>3
    <3>5. life'[x] = "live" <=> life[x] = "live"
      BY <1>11, <2>1
    <3>. QED BY <1>9, <1>14, <3>4, <3>5, CountAt
  <2>2. ~(References(o)' > 0)
    <3>1. References(o)' = held[o] + SlotRefs(Owned, o) + Occ(todo', Owning(o))
      BY <1>3, <1>4, <1>9, <1>13, <1>14, CountIsNext DEF RefCount
    <3>. HIDE DEF References
    <3>2. References(o)' = 0
      BY <1>4, <1>9, <3>1
    <3>. QED BY <3>2
  <2>. QED BY <1>12, <2>1, <2>2 DEF Balanced, CountIsReferences, NothingDangles
<1>16. StorageOK'
  <2>1. ASSUME NEW c \in Collection \ {o} PROVE StoreOK(c)'
    <3>1. (\E f \in Range(todo) : f.op = "finalize" /\ f.obj = c)
            <=> (\E f \in Range(todo') : f.op = "finalize" /\ f.obj = c)
      BY <1>1, <1>2, <1>5, <1>9
    <3>2. life'[c] = life[c] /\ StoreOK(c)
      BY <1>11 DEF Object, IInv, StorageOK
    <3>. QED BY <1>3, <3>1, <3>2, StoreSame
  <2>2. ASSUME o \in Collection PROVE StoreOK(o)'
    <3>1. StoreOK(o)
      BY <2>2 DEF IInv, StorageOK
    <3>2. Pending(o, "finalize")' # {}
      <4>1. o \notin Leaf
        BY <2>2, ObjectsDistinct
      <4>. QED BY <1>5, <1>9, <4>1 DEF Pending
    <3>3. buffers'[o] = IF Pending(o, "finalize")' # {} /\ capacity'[o] > 0 THEN 1 ELSE 0
      BY <1>2, <1>3, <3>1, <3>2 DEF StoreOK
    <3>. QED BY <1>3, <1>12, <3>1, <3>3 DEF StoreOK, CollectionOK
  <2>. QED BY <2>1, <2>2 DEF StorageOK
<1>17. FramesOK'
  <2>. DEFINE P == Range(td)
  <2>1. P \subseteq Range(todo) /\ P \subseteq Range(todo') /\ \A f \in P : f.op \notin MutatorOps
    BY <1>2, <1>9
  <2>2. \A f \in Range(todo) : f.op = "fill" => f \in P
    BY <1>1, <1>2
  <2>3. Kept \subseteq Kept'
    BY <1>3, <1>13, KeptSame
  <2>4. ASSUME NEW f \in P
        PROVE  /\ f.op = "free" => life'[f.obj] = "dying"
               /\ f.op \in CreatorOps => life'[f.obj] = "live" /\ rc'[f.obj] = rc[f.obj]
    <3>1. f \in Range(todo) /\ f.obj # o /\ f.obj \in Object
      BY <1>2, <1>4, <2>1, FrameFacts
    <3>2. life'[f.obj] = life[f.obj]
      BY <1>11, <3>1
    <3>3. f.op = "free" => life[f.obj] = "dying"
      BY <3>1, PieceLife
    <3>4. f.op \in CreatorOps => life[f.obj] = "live"
      BY <3>1, CreatorFacts
    <3>5. rc' = rc
      BY <1>3
    <3>. QED BY <3>2, <3>3, <3>4, <3>5
  <2>5. \A f \in P : FrameOK(f)'
    <3>. HIDE DEF P
    <3>. QED BY <1>3, <2>1, <2>2, <2>3, <2>4, FramesQuiet
  <2>6. FrameOK(g)'
    BY <1>5, <1>12 DEF FrameOK, MutatorOps, WritingOps
  <2>7. ASSUME o \notin Leaf PROVE FrameOK(f1)'
    <3>1. slots[o] \in Seq(Slot)
      BY <1>5, <2>7, TypeFacts DEF IInv
    <3>2. Len(slots'[o]) \in Nat
      BY <1>3, <3>1, LenProperties
    <3>3. f1.index \in 1..(Len(slots'[o]) + 1)
      BY <1>5, <2>7, <3>2
    <3>. QED BY <1>5, <2>7, <3>3 DEF FrameOK, MutatorOps, WritingOps
  <2>. QED BY <1>9, <2>5, <2>6, <2>7 DEF FramesOK
<1>. QED BY <1>3, <1>9, <1>10, <1>15, <1>16, <1>17 DEF IInv, NoFalseAlarm

\* No other piece is about an object whose memory is freed.
LEMMA FreeTop ==
    ASSUME IInv, todo # <<>>, Now.op = "free"
    PROVE  /\ Now.obj \in Object /\ life[Now.obj] = "dying"
           /\ \A f \in Range(Tail(todo)) : f.obj # Now.obj
<1>. DEFINE td == Tail(todo)
<1>1. /\ todo \in Seq(Frame) /\ Now \in Frame /\ Now \in Range(todo)
      /\ Range(todo) = {Now} \cup Range(td)
      /\ \A f \in Range(td) : f.op \notin MutatorOps
  BY NowFacts
<1>2. Now.obj \in Object /\ life[Now.obj] = "dying"
  BY <1>1, FrameFacts, PieceLife
<1>3. \A f \in Range(td) : f.op \in {"free", "finalize"} => f.obj # Now.obj
  BY <1>1, StackTop DEF IInv, Now
<1>. HIDE DEF td
<1>4. ASSUME NEW f \in Range(td), f.obj = Now.obj PROVE FALSE
  <2>1. f \in Range(todo) /\ f \in Frame
    BY <1>1, PiecesTypedIn
  <2>2. f.op \notin OwningOps /\ f.op \notin WritingOps
    BY <1>2, <1>4, <2>1, PieceLife
  <2>. QED BY <1>1, <1>3, <1>4, <2>1, <2>2, FrameFacts DEF OwningOps, WritingOps, MutatorOps
<1>. QED BY <1>2, <1>4 DEF td

LEMMA FreeKeeps == IInv /\ Free => IInv'
<1>. SUFFICES ASSUME IInv, Free PROVE IInv'
  OBVIOUS
<1>. DEFINE td == Tail(todo)
<1>1. aborted = "no" /\ todo # <<>> /\ Now.op = "free"
  BY DEF Free, Running
<1>2. /\ todo \in Seq(Frame) /\ td \in Seq(Frame) /\ StackOK(td) /\ Now \in Frame
      /\ Range(todo) = {Now} \cup Range(td) /\ Range(td) \subseteq Frame
      /\ \A f \in Range(td) : f.op \notin MutatorOps
  BY <1>1, NowFacts
<1>. PICK o \in Object : o = Now.obj
  BY <1>2, FrameFacts
<1>3. /\ life[o] = "dying" /\ life' = [life EXCEPT ![o] = "freed"]
      /\ todo' = <<>> \o td
      /\ rc' = rc /\ buffers' = buffers /\ held' = held /\ aborted' = aborted
      /\ IF o \in Collection
         THEN /\ slots' = [slots EXCEPT ![o] = <<>>]
              /\ capacity' = [capacity EXCEPT ![o] = 0]
              /\ mutable' = mutable \ {o}
         ELSE slots' = slots /\ capacity' = capacity /\ mutable' = mutable
  BY <1>1, FreeTop DEF Free, Push
<1>4. \A f \in Range(td) : f.obj # o
  BY <1>1, FreeTop
<1>. HIDE DEF td
<1>5. todo' = td
  BY <1>2, <1>3, ConcatEmptySeq
<1>6. /\ \A x \in Object \ {o} : life'[x] = life[x]
      /\ \A c \in Collection \ {o} : slots'[c] = slots[c] /\ capacity'[c] = capacity[c]
      /\ life'[o] = "freed"
      /\ o \in Collection => slots'[o] = <<>> /\ capacity'[o] = 0
  BY <1>3, TypeFacts DEF IInv
<1>7. TypeOK'
  <2>1. life' \in [Object -> {"unborn", "live", "dying", "freed"}]
    BY <1>3, TypeFacts DEF IInv
  <2>2. slots' \in [Collection -> Seq(Slot)]
    <3>1. <<>> \in Seq(Slot)
      BY EmptySeq
    <3>. QED BY <1>3, <3>1, TypeFacts DEF IInv
  <2>3. capacity' \in [Collection -> Nat] /\ mutable' \subseteq Collection
    BY <1>3, TypeFacts DEF IInv
  <2>. QED BY <1>2, <1>3, <1>5, <2>1, <2>2, <2>3 DEF IInv, TypeOK
<1>8. Owned' = Owned
  <2>1. ASSUME NEW c \in Collection \ {o} PROVE Owned'[c] = Owned[c]
    <3>1. \A f : f.op \in BusyOps /\ f.obj = c => (f \in Range(todo) <=> f \in Range(todo'))
      BY <1>2, <1>5
    <3>2. life'[c] = life[c] /\ slots'[c] = slots[c]
      BY <1>6 DEF Object
    <3>. QED BY <3>1, <3>2, OwnedKept
  <2>2. ASSUME o \in Collection PROVE Owned'[o] = Owned[o]
    <3>1. \A f \in Range(todo) : f.obj = o => f.op \notin BusyOps
      BY <1>1, <1>2, <1>4 DEF BusyOps
    <3>2. Owned[o] = <<>>
      BY <1>3, <2>2, <3>1, OwnedIdle
    <3>3. Owned'[o] = <<>>
      BY <1>2, <1>5, <1>6, <2>2, <3>1, OwnedIdleNext
    <3>. QED BY <3>2, <3>3
  <2>. QED BY <2>1, <2>2, OwnedDomain
<1>9. Owned' \in [Collection -> Seq(Slot)] /\ held' \in [Object -> Nat]
  BY <1>3, <1>8, OwnedTyped, TypeFacts DEF IInv
<1>10. Balanced'
  <2>1. ASSUME NEW x \in Object
        PROVE  \E n \in {-1, 0, 1, 2} :
                   /\ rc'[x] = rc[x] + n
                   /\ RefCount(held', Owned', todo', x) = RefCount(held, Owned, todo, x) + n
                   /\ n > 0 => life[x] = "live"
    <3>1. Occ(todo, Owning(x)) = Occ(todo', Owning(x)) + Owes(Now, x)
          /\ Occ(todo', Owning(x)) \in Nat
      BY <1>1, <1>2, <1>5, OwesTop DEF td, Now
    <3>2. Owes(Now, x) = 0
      BY <1>1 DEF Owes, OwningOps
    <3>3. RefCount(held', Owned', todo', x) = RefCount(held, Owned, todo, x)
      BY <1>3, <1>8, <3>1, <3>2 DEF RefCount
    <3>4. RefCount(held, Owned, todo, x) \in Nat /\ rc[x] \in Nat
      BY CountFacts
    <3>5. /\ RefCount(held', Owned', todo', x) = RefCount(held, Owned, todo, x) + 0
          /\ rc'[x] = rc[x] + 0 /\ ~(0 > 0)
      BY <1>3, <3>3, <3>4
    <3>. QED BY <3>5
  <2>2. \A x \in Object : life'[x] = "live" <=> life[x] = "live"
    BY <1>3, <1>6
  <2>3. todo' \in Seq(Frame)
    BY <1>2, <1>5
  <2>. QED BY <1>9, <2>1, <2>2, <2>3, CountStep
<1>11. StorageOK'
  <2>1. ASSUME NEW c \in Collection \ {o} PROVE StoreOK(c)'
    <3>1. (\E f \in Range(todo) : f.op = "finalize" /\ f.obj = c)
            <=> (\E f \in Range(todo') : f.op = "finalize" /\ f.obj = c)
      BY <1>1, <1>2, <1>5
    <3>2. life'[c] = life[c] /\ StoreOK(c)
      BY <1>6 DEF Object, IInv, StorageOK
    <3>. QED BY <1>3, <1>6, <3>1, <3>2, StoreSame
  <2>2. ASSUME o \in Collection PROVE StoreOK(o)'
    <3>1. StoreOK(o)
      BY <2>2 DEF IInv, StorageOK
    <3>2. Pending(o, "finalize") = {}
      BY <1>1, <1>2, <1>4 DEF Pending
    <3>3. buffers[o] = 0
      BY <1>3, <3>1, <3>2 DEF StoreOK, CollectionOK
    <3>4. DOMAIN slots'[o] = {}
      BY <1>6, <2>2
    <3>5. CollectionOK(o)'
      BY <1>6, <3>4 DEF CollectionOK
    <3>. QED BY <1>3, <1>6, <3>3, <3>4, <3>5 DEF StoreOK
  <2>. QED BY <2>1, <2>2 DEF StorageOK
<1>12. FramesOK'
  <2>. DEFINE P == Range(td)
  <2>1. P \subseteq Range(todo) /\ P \subseteq Range(todo') /\ \A f \in P : f.op \notin MutatorOps
    BY <1>2, <1>5
  <2>2. \A f \in Range(todo) : f.op = "fill" => f \in P
    BY <1>1, <1>2
  <2>3. Kept \subseteq Kept'
    BY <1>3, <1>8, KeptSame
  <2>4. ASSUME NEW f \in P
        PROVE  /\ f.op = "free" => life'[f.obj] = "dying"
               /\ f.op \in {"finalize", "reserve"} => slots'[f.obj] = slots[f.obj]
               /\ f.op \in WritingOps => DOMAIN slots'[f.obj] = DOMAIN slots[f.obj]
               /\ f.op = "fill" => /\ Len(slots'[f.obj]) <= Len(slots[f.obj])
                                   /\ capacity'[f.obj] = capacity[f.obj]
               /\ f.op \in CreatorOps => life'[f.obj] = "live" /\ rc'[f.obj] = rc[f.obj]
    <3>1. f \in Range(todo) /\ f.obj # o /\ f \in Frame
      BY <1>2, <1>4, <2>1
    <3>2. life'[f.obj] = life[f.obj]
      BY <1>6, <3>1, FrameFacts
    <3>3. f.obj \in Collection => /\ slots'[f.obj] = slots[f.obj]
                                  /\ capacity'[f.obj] = capacity[f.obj]
      BY <1>6, <3>1
    <3>4. f.op \in {"finalize", "shift", "store", "reserve", "fill"} => f.obj \in Collection
      BY <3>1, FrameFacts
    <3>5. f.op = "free" => life[f.obj] = "dying"
      BY <3>1, PieceLife
    <3>6. f.op \in CreatorOps => life[f.obj] = "live"
      BY <3>1, CreatorFacts
    <3>7. rc' = rc
      BY <1>3
    <3>8. f.obj \in Collection => Len(slots[f.obj]) \in Nat
      BY TypeFacts, LenProperties DEF IInv
    <3>9. f.op = "fill" => Len(slots'[f.obj]) <= Len(slots[f.obj])
      BY <3>3, <3>4, <3>8
    <3>. QED BY <3>2, <3>3, <3>4, <3>5, <3>6, <3>7, <3>9 DEF WritingOps
  <2>5. slots' \in [Collection -> Seq(Slot)]
    BY <1>7 DEF TypeOK
  <2>6. \A f \in P : FrameOK(f)'
    <3>. HIDE DEF P
    <3>. QED BY <1>3, <2>1, <2>2, <2>3, <2>4, <2>5, FramesKept
  <2>. QED BY <1>5, <2>6 DEF FramesOK
<1>. QED BY <1>2, <1>3, <1>5, <1>7, <1>10, <1>11, <1>12 DEF IInv, NoFalseAlarm

\* What else is about a collection that is being finalized: its memory is freed next.
LEMMA FinalizeTop ==
    ASSUME IInv, todo # <<>>, Now.op = "finalize"
    PROVE  /\ Now.obj \in Collection /\ life[Now.obj] = "dying"
           /\ Now.index \in 1..(Len(slots[Now.obj]) + 1)
           /\ Tail(todo) # <<>> /\ Head(Tail(todo)) = FreeOf(Now.obj)
           /\ \A f \in Range(Tail(todo)) : f.obj = Now.obj => f.op \notin BusyOps
<1>. DEFINE td == Tail(todo)
<1>1. /\ todo \in Seq(Frame) /\ Now \in Frame /\ Now \in Range(todo) /\ FrameOK(Now)
      /\ Range(todo) = {Now} \cup Range(td)
  BY NowFacts
<1>2. Now.obj \in Collection /\ life[Now.obj] = "dying"
  BY <1>1, FrameFacts, PieceLife
<1>3. td # <<>> /\ Head(td) = FreeOf(Now.obj)
  BY <1>1, StackTop DEF IInv, Now
<1>4. Now.index \in 1..(Len(slots[Now.obj]) + 1)
  BY <1>1 DEF FrameOK
<1>5. \A f \in Range(td) : f.op = "finalize" => f.obj # Now.obj
  BY <1>1, StackOneFinalizes DEF IInv, Now
<1>. HIDE DEF td
<1>6. ASSUME NEW f \in Range(td), f.obj = Now.obj, f.op \in WritingOps PROVE FALSE
  BY <1>1, <1>2, <1>6, PieceLife
<1>. QED BY <1>2, <1>3, <1>4, <1>5, <1>6 DEF td, BusyOps, WritingOps

LEMMA FinalizeBufferKeeps == IInv /\ FinalizeBuffer => IInv'
<1>. SUFFICES ASSUME IInv, FinalizeBuffer PROVE IInv'
  OBVIOUS
<1>. DEFINE td == Tail(todo)
<1>1. aborted = "no" /\ todo # <<>> /\ Now.op = "finalize"
  BY DEF FinalizeBuffer, Running
<1>2. /\ todo \in Seq(Frame) /\ td \in Seq(Frame) /\ StackOK(td) /\ Now \in Frame
      /\ Range(todo) = {Now} \cup Range(td) /\ Range(td) \subseteq Frame
      /\ Now \in Range(todo)
      /\ \A f \in Range(td) : f.op \notin MutatorOps
  BY <1>1, NowFacts
<1>. PICK c \in Collection : c = Now.obj
  BY <1>1, FinalizeTop
<1>3. /\ Now.index \notin DOMAIN slots[c]
      /\ buffers' = [buffers EXCEPT ![c] = @ - (IF capacity[c] > 0 THEN 1 ELSE 0)]
      /\ todo' = <<>> \o td
      /\ life' = life /\ rc' = rc /\ slots' = slots /\ capacity' = capacity
      /\ mutable' = mutable /\ held' = held /\ aborted' = aborted
  BY DEF FinalizeBuffer, Push
<1>4. /\ life[c] = "dying" /\ Now.index \in 1..(Len(slots[c]) + 1)
      /\ \A f \in Range(td) : f.obj = c => f.op \notin BusyOps
  BY <1>1, FinalizeTop
<1>. HIDE DEF td
<1>5. todo' = td
  BY <1>2, <1>3, ConcatEmptySeq
<1>6. Now.index = Len(slots[c]) + 1 /\ slots[c] \in Seq(Slot)
  <2>1. slots[c] \in Seq(Slot)
    BY TypeFacts DEF IInv
  <2>2. DOMAIN slots[c] = 1..Len(slots[c]) /\ Len(slots[c]) \in Nat
    BY <2>1, LenProperties
  <2>. QED BY <1>3, <1>4, <2>1, <2>2
<1>7. buffers[c] = (IF capacity[c] > 0 THEN 1 ELSE 0) /\ StoreOK(c)
  <2>1. StoreOK(c)
    BY DEF IInv, StorageOK
  <2>2. Pending(c, "finalize") # {}
    BY <1>1, <1>2 DEF Pending
  <2>. QED BY <1>4, <2>1, <2>2 DEF StoreOK, CollectionOK
<1>8. buffers' \in [Collection -> Nat] /\ buffers'[c] = 0
      /\ \A d \in Collection \ {c} : buffers'[d] = buffers[d]
  <2>1. buffers' = [buffers EXCEPT ![c] = 0]
    <3>1. capacity[c] \in Nat
      BY TypeFacts DEF IInv
    <3>. QED BY <1>3, <1>7, <3>1
  <2>. QED BY <2>1, TypeFacts DEF IInv
<1>9. TypeOK'
  BY <1>2, <1>3, <1>5, <1>8 DEF IInv, TypeOK
<1>10. Owned' = Owned
  <2>1. ASSUME NEW d \in Collection \ {c} PROVE Owned'[d] = Owned[d]
    <3>1. \A f : f.op \in BusyOps /\ f.obj = d => (f \in Range(todo) <=> f \in Range(todo'))
      BY <1>2, <1>5
    <3>. QED BY <1>3, <3>1, OwnedKept
  <2>2. Owned[c] = <<>>
    <3>1. Owned[c] = From(slots[c], Now)
      BY <1>1, <1>2, OwnedBusy DEF BusyOps
    <3>2. From(slots[c], Now) = <<>>
      <4>1. Len(slots[c]) \in Nat /\ Len(slots[c]) + 1 > Len(slots[c])
        BY <1>6, LenProperties
      <4>2. From(slots[c], Now) = SubSeq(slots[c], Len(slots[c]) + 1, Len(slots[c]))
        BY <1>6 DEF From
      <4>. QED BY <1>6, <4>1, <4>2, SubSeqEmpty
    <3>. QED BY <3>1, <3>2
  <2>3. Owned'[c] = <<>>
    <3>1. \A f \in Range(todo') : f.obj = c => f.op \notin BusyOps
      BY <1>4, <1>5
    <3>. QED BY <1>3, <1>4, <3>1, OwnedIdleNext
  <2>. QED BY <2>1, <2>2, <2>3, OwnedDomain
<1>11. Owned' \in [Collection -> Seq(Slot)] /\ held' \in [Object -> Nat]
  BY <1>3, <1>10, OwnedTyped, TypeFacts DEF IInv
<1>12. Balanced'
  <2>1. ASSUME NEW x \in Object
        PROVE  \E n \in {-1, 0, 1, 2} :
                   /\ rc'[x] = rc[x] + n
                   /\ RefCount(held', Owned', todo', x) = RefCount(held, Owned, todo, x) + n
                   /\ n > 0 => life[x] = "live"
    <3>1. Occ(todo, Owning(x)) = Occ(todo', Owning(x)) + Owes(Now, x)
          /\ Occ(todo', Owning(x)) \in Nat
      BY <1>1, <1>2, <1>5, OwesTop DEF td, Now
    <3>2. Owes(Now, x) = 0
      BY <1>1 DEF Owes, OwningOps
    <3>3. RefCount(held', Owned', todo', x) = RefCount(held, Owned, todo, x)
      BY <1>3, <1>10, <3>1, <3>2 DEF RefCount
    <3>4. RefCount(held, Owned, todo, x) \in Nat /\ rc[x] \in Nat
      BY CountFacts
    <3>5. /\ RefCount(held', Owned', todo', x) = RefCount(held, Owned, todo, x) + 0
          /\ rc'[x] = rc[x] + 0 /\ ~(0 > 0)
      BY <1>3, <3>3, <3>4
    <3>. QED BY <3>5
  <2>2. \A x \in Object : life'[x] = "live" <=> life[x] = "live"
    BY <1>3
  <2>3. todo' \in Seq(Frame)
    BY <1>2, <1>5
  <2>. QED BY <1>11, <2>1, <2>2, <2>3, CountStep
<1>13. StorageOK'
  <2>1. ASSUME NEW d \in Collection \ {c} PROVE StoreOK(d)'
    <3>1. (\E f \in Range(todo) : f.op = "finalize" /\ f.obj = d)
            <=> (\E f \in Range(todo') : f.op = "finalize" /\ f.obj = d)
      BY <1>1, <1>2, <1>5
    <3>2. StoreOK(d)
      BY DEF IInv, StorageOK
    <3>. QED BY <1>3, <1>8, <3>1, <3>2, StoreSame
  <2>2. StoreOK(c)'
    <3>1. Pending(c, "finalize")' = {}
      BY <1>4, <1>5 DEF Pending, BusyOps
    <3>. QED BY <1>3, <1>4, <1>7, <1>8, <3>1 DEF StoreOK, CollectionOK
  <2>. QED BY <2>1, <2>2 DEF StorageOK
<1>14. FramesOK'
  <2>. DEFINE P == Range(td)
  <2>1. P \subseteq Range(todo) /\ P \subseteq Range(todo') /\ \A f \in P : f.op \notin MutatorOps
    BY <1>2, <1>5
  <2>2. \A f \in Range(todo) : f.op = "fill" => f \in P
    BY <1>1, <1>2
  <2>3. Kept \subseteq Kept'
    BY <1>3, <1>10, KeptSame
  <2>4. ASSUME NEW f \in P
        PROVE  /\ f.op = "free" => life'[f.obj] = "dying"
               /\ f.op \in CreatorOps => life'[f.obj] = "live" /\ rc'[f.obj] = rc[f.obj]
    <3>1. f \in Range(todo) /\ life' = life /\ rc' = rc
      BY <1>3, <2>1
    <3>. QED BY <3>1, PieceLife, CreatorFacts
  <2>5. \A f \in P : FrameOK(f)'
    <3>. HIDE DEF P
    <3>. QED BY <1>3, <2>1, <2>2, <2>3, <2>4, FramesQuiet
  <2>. QED BY <1>5, <2>5 DEF FramesOK
<1>. QED BY <1>2, <1>3, <1>5, <1>9, <1>12, <1>13, <1>14 DEF IInv, NoFalseAlarm

LEMMA FinalizeElementKeeps == IInv /\ FinalizeElement => IInv'
<1>. SUFFICES ASSUME IInv, FinalizeElement PROVE IInv'
  OBVIOUS
<1>. DEFINE td == Tail(todo)
<1>1. aborted = "no" /\ todo # <<>> /\ Now.op = "finalize"
  BY DEF FinalizeElement, Running
<1>2. /\ todo \in Seq(Frame) /\ td \in Seq(Frame) /\ StackOK(td) /\ Now \in Frame
      /\ Range(todo) = {Now} \cup Range(td) /\ Range(td) \subseteq Frame
      /\ Now \in Range(todo)
      /\ \A f \in Range(td) : f.op \notin MutatorOps
  BY <1>1, NowFacts
<1>. PICK c \in Collection : c = Now.obj
  BY <1>1, FinalizeTop
<1>3. slots[c] \in Seq(Slot) /\ DOMAIN slots[c] = 1..Len(slots[c]) /\ Len(slots[c]) \in Nat
  <2>1. slots[c] \in Seq(Slot)
    BY TypeFacts DEF IInv
  <2>. QED BY <2>1, LenProperties
<1>. PICK i \in 1..Len(slots[c]) : i = Now.index
  BY <1>3 DEF FinalizeElement
<1>. PICK s \in Slot : s = slots[c][i]
  BY <1>3, LenProperties
<1>. PICK fin : fin = FinalizeFrom(c, i + 1)
  OBVIOUS
<1>4. /\ todo' = (ReleasesOf(c, s) \o <<fin>>) \o td
      /\ life' = life /\ rc' = rc /\ slots' = slots /\ capacity' = capacity
      /\ buffers' = buffers /\ mutable' = mutable /\ held' = held /\ aborted' = aborted
  BY DEF FinalizeElement, Push, storage
<1>5. /\ life[c] = "dying" /\ td # <<>> /\ Head(td) = FreeOf(c)
      /\ \A f \in Range(td) : f.obj = c => f.op \notin BusyOps
  BY <1>1, FinalizeTop
<1>. HIDE DEF td
<1>6. fin \in Frame /\ fin.op = "finalize" /\ fin.obj = c /\ fin.index = i + 1
  <2>1. i + 1 \in Nat
    BY <1>3
  <2>. QED BY <2>1, PiecesTyped DEF FinalizeFrom
<1>7. s.key = NULL <=> c \in Array
  BY <1>3 DEF IInv, StorageOK, StoreOK, CollectionOK
<1>. DEFINE t == <<fin>> \o td
<1>8. /\ t \in Seq(Frame) /\ Range(t) = {fin} \cup Range(td) /\ StackOK(t)
      /\ \A x \in Object : Occ(t, Owning(x)) = Occ(td, Owning(x))
  <2>1. ASSUME NEW x \in Object PROVE Occ(t, Owning(x)) = Occ(td, Owning(x))
    <3>1. Occ(t, Owning(x)) = Occ(td, Owning(x)) + Owes(fin, x) /\ Occ(td, Owning(x)) \in Nat
      BY <1>2, <1>6, OwesPush
    <3>2. Owes(fin, x) = 0
      BY <1>6 DEF Owes, OwningOps
    <3>. QED BY <3>1, <3>2
  <2>2. t \in Seq(Frame) /\ Range(t) = {fin} \cup Range(td)
    BY <1>2, <1>6, ConsProperties, RangeCons
  <2>3. StackOK(t)
    BY <1>2, <1>5, <1>6, StackPush DEF MutatorOps, CreatorOps, WritingOps
  <2>. QED BY <2>1, <2>2, <2>3
<1>9. todo' = ReleasesOf(c, s) \o t
  <2>1. /\ ReleasesOf(c, s) \in Seq(Frame) /\ <<fin>> \in Seq(Frame) /\ td \in Seq(Frame)
    BY <1>2, <1>6, <1>7, ReleasesPush
  <2>. QED BY <1>4, <2>1, ConcatAssociative
<1>. HIDE DEF t
<1>10. /\ todo' \in Seq(Frame) /\ StackOK(todo')
       /\ \A f \in Range(todo') : f \in Range(t) \/ f.op = "release"
       /\ Range(t) \subseteq Range(todo')
       /\ \A x \in Object : Occ(todo', Owning(x)) = Occ(t, Owning(x)) + Retained(s, x)
  <2>1. \A g \in Range(t) : g.op \notin MutatorOps
    BY <1>2, <1>6, <1>8 DEF MutatorOps
  <2>. QED BY <1>7, <1>8, <1>9, <2>1, ReleasesPush
<1>11. TypeOK'
  BY <1>4, <1>10 DEF IInv, TypeOK
<1>. DEFINE rest == SubSeq(slots[c], i + 1, Len(slots[c]))
<1>12. /\ \A d \in Collection \ {c} : Owned'[d] = Owned[d]
       /\ Owned[c] = SubSeq(slots[c], i, Len(slots[c]))
       /\ Owned'[c] = rest /\ rest \in Seq(Slot)
  <2>1. ASSUME NEW d \in Collection \ {c} PROVE Owned'[d] = Owned[d]
    <3>1. \A f : f.op \in BusyOps /\ f.obj = d => (f \in Range(todo) <=> f \in Range(todo'))
      BY <1>2, <1>6, <1>8, <1>10 DEF BusyOps
    <3>. QED BY <1>4, <3>1, OwnedKept
  <2>2. Owned[c] = From(slots[c], Now)
    BY <1>1, <1>2, OwnedBusy DEF BusyOps
  <2>3. Owned'[c] = From(slots'[c], fin)
    <3>1. \A g \in Range(todo') : g.obj = c /\ g.op \in BusyOps => g = fin
      BY <1>5, <1>8, <1>10 DEF BusyOps
    <3>2. fin \in Range(todo')
      BY <1>8, <1>10
    <3>. QED BY <1>6, <3>1, <3>2, OwnedBusyNext
  <2>4. rest \in Seq(Slot)
    <3>1. i + 1 \in 1..(Len(slots[c]) + 1)
      BY <1>3
    <3>. QED BY <1>3, <3>1, RestProperties
  <2>. QED BY <1>4, <1>6, <2>1, <2>2, <2>3, <2>4 DEF From
<1>13. Owned \in [Collection -> Seq(Slot)] /\ held' \in [Object -> Nat]
       /\ Owned' \in [Collection -> Seq(Slot)] /\ Owned' = [Owned EXCEPT ![c] = rest]
  <2>1. Owned \in [Collection -> Seq(Slot)] /\ held' \in [Object -> Nat]
    BY <1>4, OwnedTyped, TypeFacts DEF IInv
  <2>. HIDE DEF rest
  <2>2. Owned' = [Owned EXCEPT ![c] = rest]
    BY <1>12, OwnedChange
  <2>. QED BY <1>12, <2>1, <2>2
<1>14. Balanced'
  <2>1. ASSUME NEW x \in Object
        PROVE  \E n \in {-1, 0, 1, 2} :
                   /\ rc'[x] = rc[x] + n
                   /\ RefCount(held', Owned', todo', x) = RefCount(held, Owned, todo, x) + n
                   /\ n > 0 => life[x] = "live"
    <3>1. Occ(todo, Owning(x)) = Occ(td, Owning(x)) + Owes(Now, x)
          /\ Occ(td, Owning(x)) \in Nat
      BY <1>1, <1>2, OwesTop DEF td, Now
    <3>2. Owes(Now, x) = 0
      BY <1>1 DEF Owes, OwningOps
    <3>3. Occ(todo', Owning(x)) = Occ(todo, Owning(x)) + Retained(s, x)
          /\ Occ(todo, Owning(x)) \in Nat
      BY <1>8, <1>10, <3>1, <3>2
    <3>4. Refs(Owned[c], x) = Refs(rest, x) + Retained(s, x)
      BY <1>3, <1>12, RefsRest
    <3>5. SlotRefs(Owned', x) = SlotRefs(Owned, x) + Refs(rest, x) - Refs(Owned[c], x)
      <4>. HIDE DEF rest
      <4>1. Owned \in [Collection -> Seq(Slot)] /\ rest \in Seq(Slot)
        BY <1>12, <1>13
      <4>2. SlotRefs([Owned EXCEPT ![c] = rest], x)
              = SlotRefs(Owned, x) + Refs(rest, x) - Refs(Owned[c], x)
        BY <4>1, SlotRefsChange
      <4>3. Owned' = [Owned EXCEPT ![c] = rest]
        BY <1>13
      <4>. QED BY <4>2, <4>3
    <3>6. Retained(s, x) \in Nat /\ Refs(rest, x) \in Nat /\ SlotRefs(Owned, x) \in Nat
          /\ held[x] \in Nat
      <4>1. Occ(rest, Valued(x)) \in Nat /\ Occ(rest, Keyed(x)) \in Nat
        BY <1>12, OccNat
      <4>2. Refs(rest, x) \in Nat
        BY <4>1 DEF Refs
      <4>. QED BY <4>2, RetainedIn, CountFacts
    <3>. DEFINE r == Retained(s, x)
                a == Refs(rest, x)
                b == Refs(Owned[c], x)
                m == SlotRefs(Owned, x)
                o == Occ(todo, Owning(x))
                h == held[x]
    <3>7. /\ RefCount(held', Owned', todo', x) = h + (m + a - b) + (o + r)
          /\ RefCount(held, Owned, todo, x) = h + m + o
          /\ b = a + r
      BY <1>4, <3>3, <3>4, <3>5 DEF RefCount
    <3>8. r \in Nat /\ a \in Nat /\ m \in Nat /\ o \in Nat /\ h \in Nat /\ rc[x] \in Nat
      BY <3>3, <3>6, CountFacts
    <3>. HIDE DEF r, a, b, m, o, h
    <3>9. RefCount(held', Owned', todo', x) = RefCount(held, Owned, todo, x) + 0
      BY <3>7, <3>8
    <3>10. rc'[x] = rc[x] + 0 /\ ~(0 > 0)
      BY <1>4, <3>8
    <3>. QED BY <3>9, <3>10
  <2>2. \A x \in Object : life'[x] = "live" <=> life[x] = "live"
    BY <1>4
  <2>. QED BY <1>10, <1>13, <2>1, <2>2, CountStep
<1>15. StorageOK'
  <2>1. ASSUME NEW d \in Collection
        PROVE  (\E f \in Range(todo) : f.op = "finalize" /\ f.obj = d)
                 <=> (\E f \in Range(todo') : f.op = "finalize" /\ f.obj = d)
    <3>1. \A f : f.op = "finalize" => (f \in Range(todo') <=> f = fin \/ f \in Range(td))
      BY <1>6, <1>8, <1>10
    <3>. QED BY <1>1, <1>2, <1>6, <3>1
  <2>. QED BY <1>4, <2>1, StorageSame DEF IInv
<1>16. FramesOK'
  <2>. DEFINE P == Range(td)
  <2>1. P \subseteq Range(todo) /\ P \subseteq Range(todo') /\ \A f \in P : f.op \notin MutatorOps
    BY <1>2, <1>8, <1>10
  <2>2. \A f \in Range(todo) : f.op = "fill" => f \in P
    BY <1>1, <1>2
  <2>3. Kept \subseteq Kept'
    <3>1. c \notin Kept
      BY <1>5, KeptFacts
    <3>2. \A d \in Kept \cap Collection : InSlots(Owned[d]) \subseteq InSlots(Owned'[d])
      BY <1>12, <3>1
    <3>. QED BY <1>4, <1>13, <3>2, KeptGrows
  <2>4. ASSUME NEW f \in P
        PROVE  /\ f.op = "free" => life'[f.obj] = "dying"
               /\ f.op \in CreatorOps => life'[f.obj] = "live" /\ rc'[f.obj] = rc[f.obj]
    <3>1. f \in Range(todo) /\ life' = life /\ rc' = rc
      BY <1>4, <2>1
    <3>. QED BY <3>1, PieceLife, CreatorFacts
  <2>5. \A f \in P : FrameOK(f)'
    <3>. HIDE DEF P
    <3>. QED BY <1>4, <2>1, <2>2, <2>3, <2>4, FramesQuiet
  <2>6. FrameOK(fin)'
    <3>1. i + 1 \in 1..(Len(slots'[c]) + 1)
      BY <1>3, <1>4
    <3>. QED BY <1>6, <3>1 DEF FrameOK, MutatorOps, WritingOps
  <2>7. \A f : f.op = "release" => FrameOK(f)'
    BY DEF FrameOK, MutatorOps, WritingOps
  <2>. QED BY <1>8, <1>10, <2>5, <2>6, <2>7 DEF FramesOK
<1>. QED BY <1>4, <1>10, <1>11, <1>14, <1>15, <1>16 DEF IInv, NoFalseAlarm

\* The references of one collection's slots and of the call change by p and q.
LEMMA CountShift ==
    ASSUME IInv, NEW c \in Collection, NEW s \in Seq(Slot), Owned' = [Owned EXCEPT ![c] = s],
           todo' \in Seq(Frame),
           NEW x \in Object, NEW p \in Int, NEW q \in Int, held'[x] = held[x],
           Refs(s, x) = Refs(Owned[c], x) + p,
           Occ(todo', Owning(x)) = Occ(todo, Owning(x)) + q
    PROVE  RefCount(held', Owned', todo', x) = RefCount(held, Owned, todo, x) + (p + q)
<1>1. Owned \in [Collection -> Seq(Slot)]
  BY OwnedTyped DEF IInv
<1>2. SlotRefs([Owned EXCEPT ![c] = s], x)
        = SlotRefs(Owned, x) + Refs(s, x) - Refs(Owned[c], x)
  BY <1>1, SlotRefsChange
<1>3. SlotRefs(Owned, x) \in Nat /\ Occ(todo, Owning(x)) \in Nat /\ held[x] \in Nat
  BY CountFacts
<1>4. Refs(Owned[c], x) \in Nat
  <2>1. Owned[c] \in Seq(Slot)
    BY <1>1
  <2>2. Occ(Owned[c], Valued(x)) \in Nat /\ Occ(Owned[c], Keyed(x)) \in Nat
    BY <2>1, OccNat
  <2>. QED BY <2>2 DEF Refs
<1>. DEFINE a == Refs(s, x)
            b == Refs(Owned[c], x)
            m == SlotRefs(Owned, x)
            n == SlotRefs(Owned', x)
            o == Occ(todo, Owning(x))
            r == Occ(todo', Owning(x))
            h == held[x]
<1>5. /\ RefCount(held', Owned', todo', x) = h + n + r
      /\ RefCount(held, Owned, todo, x) = h + m + o
      /\ n = m + a - b /\ a = b + p /\ r = o + q
      /\ m \in Nat /\ o \in Nat /\ h \in Nat /\ b \in Nat
  BY <1>2, <1>3, <1>4 DEF RefCount
<1>. HIDE DEF a, b, m, n, o, r, h
<1>. QED BY <1>5

\* After EnsureCapacity there is room for n, in one buffer.
LEMMA EnsureFacts ==
    ASSUME TypeOK, NEW c \in Collection, StoreOK(c), life[c] = "live", NEW n \in Nat,
           EnsureCapacity(c, n)
    PROVE  /\ capacity' \in [Collection -> Nat] /\ buffers' \in [Collection -> Nat]
           /\ n <= capacity'[c] /\ buffers'[c] = (IF capacity'[c] > 0 THEN 1 ELSE 0)
           /\ Len(slots[c]) <= capacity'[c]
           /\ \A d \in Collection \ {c} : capacity'[d] = capacity[d] /\ buffers'[d] = buffers[d]
<1>1. /\ capacity \in [Collection -> Nat] /\ buffers \in [Collection -> Nat]
      /\ capacity[c] \in Nat
  BY TypeFacts
<1>2. buffers[c] = (IF capacity[c] > 0 THEN 1 ELSE 0) /\ Len(slots[c]) <= capacity[c]
  BY DEF StoreOK
<1>3. CASE Fits(c, n)
  BY <1>1, <1>2, <1>3 DEF EnsureCapacity, Fits
<1>4. CASE ~Fits(c, n)
  <2>1. PICK m \in Grown(c, n) : capacity' = [capacity EXCEPT ![c] = m]
    BY <1>4 DEF EnsureCapacity
  <2>2. m \in Nat /\ n <= m
    BY DEF Grown
  <2>3. buffers' = [buffers EXCEPT ![c] = buffers[c] + 1 - (IF capacity[c] > 0 THEN 1 ELSE 0)]
    BY <1>4 DEF EnsureCapacity
  <2>4. buffers' = [buffers EXCEPT ![c] = 1]
    <3>1. buffers[c] + 1 - (IF capacity[c] > 0 THEN 1 ELSE 0) = 1
      BY <1>1, <1>2
    <3>. QED BY <2>3, <3>1
  <2>5. n > capacity[c]
    BY <1>1, <1>4 DEF Fits
  <2>6. m > 0 /\ Len(slots[c]) <= m
    <3>1. Len(slots[c]) \in Nat
      BY TypeFacts, LenProperties
    <3>. QED BY <1>1, <1>2, <2>2, <2>5, <3>1
  <2>7. /\ capacity' \in [Collection -> Nat] /\ capacity'[c] = m
        /\ \A d \in Collection \ {c} : capacity'[d] = capacity[d]
    BY <1>1, <2>1, <2>2
  <2>8. /\ buffers' \in [Collection -> Nat] /\ buffers'[c] = 1
        /\ \A d \in Collection \ {c} : buffers'[d] = buffers[d]
    BY <1>1, <2>4
  <2>. QED BY <2>2, <2>6, <2>7, <2>8
<1>. QED BY <1>3, <1>4

LEMMA EqualSymmetric ==
    ASSUME NEW x, NEW y, CFEqual(x, y)
    PROVE  CFEqual(y, x)
BY DEF CFEqual

\* The collections under construction are those a piece is about to fill.
LEMMA BuildingAre ==
    /\ Building = {c \in Collection : \E f \in Range(todo) : f.op \in CreatorOps /\ f.obj = c}
    /\ Building' = {c \in Collection : \E f \in Range(todo') : f.op \in CreatorOps /\ f.obj = c}
BY DEF Building, Pending, CreatorOps

\* A step that adds the slot s to a live collection, or puts its value in the
\* slot of an equal key.
Inserted(c, s) ==
    /\ life[c] = "live" /\ c \in mutable \cup Building /\ (s.key = NULL <=> c \in Array)
    /\ \A x \in Object : x \in {s.key, s.value} => life[x] = "live"
    /\ Owned[c] = slots[c]
    /\ Owned' = [Owned EXCEPT ![c] =
                    IF c \in Array \/ FindIndex(c, s.key) = {} THEN Append(slots[c], s)
                    ELSE [slots[c] EXCEPT ![FirstIndex(c, s.key)].value = s.value]]
    /\ life' = life /\ held' = held /\ mutable' = mutable /\ Building' = Building

\* A slot that is added belongs to its collection at once.
LEMMA AddOwned ==
    ASSUME NEW c \in Collection, NEW s \in Slot, life[c] = "live", AddSlot(c, s), TypeOK,
           \A f \in Range(todo) \cup Range(todo') : f.op \notin BusyOps
    PROVE  Owned[c] = slots[c] /\ Owned' = [Owned EXCEPT ![c] = Append(slots[c], s)]
<1>. PICK new : new = Append(slots[c], s)
  OBVIOUS
<1>1. slots' = [slots EXCEPT ![c] = new] /\ life' = life
  BY DEF AddSlot
<1>2. slots'[c] = new /\ \A d \in Collection \ {c} : slots'[d] = slots[d]
  BY <1>1, TypeFacts
<1>3. \A f \in Range(todo) : f.op \notin BusyOps
  OBVIOUS
<1>4. \A f \in Range(todo') : f.op \notin BusyOps
  OBVIOUS
<1>5. Owned[c] = slots[c]
  BY <1>3, OwnedIdle
<1>6. Owned'[c] = new
  BY <1>1, <1>2, <1>4, OwnedIdleNext
<1>7. \A d \in Collection \ {c} : Owned'[d] = Owned[d]
  BY <1>1, <1>2, <1>3, <1>4, OwnedKept
<1>. QED BY <1>5, <1>6, <1>7, OwnedChange

\* A slot is added to a collection that no piece is busy with.
LEMMA InsertKeeps ==
    ASSUME IInv, NEW c \in Collection, NEW s \in Slot, life[c] = "live",
           s.key = NULL <=> c \in Array,
           c \in Dictionary => FindIndex(c, s.key) = {},
           \A x \in Object : x \in {s.key, s.value} => life[x] = "live",
           AddSlot(c, s),
           capacity' \in [Collection -> Nat], buffers' \in [Collection -> Nat],
           Len(slots[c]) + 1 <= capacity'[c],
           buffers'[c] = (IF capacity'[c] > 0 THEN 1 ELSE 0),
           \A d \in Collection \ {c} : capacity'[d] = capacity[d] /\ buffers'[d] = buffers[d],
           todo' \in Seq(Frame),
           \A f \in Range(todo) \cup Range(todo') : f.op \notin BusyOps,
           \A x \in Object : Occ(todo', Owning(x)) = Occ(todo, Owning(x))
    PROVE  /\ TypeOK' /\ Balanced' /\ StorageOK' /\ NoFalseAlarm'
           /\ Kept \subseteq Kept'
<1>1. /\ slots' = [slots EXCEPT ![c] = Append(slots[c], s)]
      /\ rc' = [o \in Object |-> rc[o] + Retained(s, o)]
      /\ life' = life /\ mutable' = mutable /\ held' = held /\ aborted' = aborted
  BY DEF AddSlot
<1>2. slots[c] \in Seq(Slot) /\ Len(slots[c]) \in Nat /\ DOMAIN slots[c] = 1..Len(slots[c])
  <2>1. slots[c] \in Seq(Slot)
    BY TypeFacts DEF IInv
  <2>. QED BY <2>1, LenProperties
<1>. PICK new : new = Append(slots[c], s)
  OBVIOUS
<1>3. /\ new \in Seq(Slot) /\ Len(new) = Len(slots[c]) + 1 /\ new[Len(new)] = s
      /\ DOMAIN new = 1..Len(new)
      /\ \A i \in 1..Len(slots[c]) : new[i] = slots[c][i]
  <2>1. /\ new \in Seq(Slot) /\ Len(new) = Len(slots[c]) + 1
        /\ new[Len(slots[c]) + 1] = s /\ \A i \in 1..Len(slots[c]) : new[i] = slots[c][i]
    BY <1>2, AppendProperties
  <2>. QED BY <2>1, LenProperties
<1>4. /\ slots' \in [Collection -> Seq(Slot)] /\ slots'[c] = new
      /\ \A d \in Collection \ {c} : slots'[d] = slots[d]
  BY <1>1, <1>3, TypeFacts DEF IInv
<1>5. \A x \in Object : rc'[x] = rc[x] + Retained(s, x) /\ rc[x] \in Nat
                        /\ Retained(s, x) \in {0, 1, 2}
  <2>1. ASSUME NEW x \in Object PROVE Retained(s, x) \in {0, 1, 2}
    BY DEF Retained
  <2>. QED BY <1>1, <2>1, TypeFacts DEF IInv
<1>6. TypeOK'
  <2>1. rc' \in [Object -> Nat]
    BY <1>1, <1>5
  <2>. QED BY <1>1, <1>4, <2>1 DEF IInv, TypeOK
<1>7. Owned[c] = slots[c] /\ Owned' = [Owned EXCEPT ![c] = new]
  BY AddOwned DEF IInv
<1>8. Owned \in [Collection -> Seq(Slot)] /\ Owned' \in [Collection -> Seq(Slot)]
      /\ held' \in [Object -> Nat]
  BY <1>1, <1>3, <1>7, OwnedTyped, TypeFacts DEF IInv
<1>9. Balanced'
  <2>1. ASSUME NEW x \in Object
        PROVE  \E n \in {-1, 0, 1, 2} :
                   /\ rc'[x] = rc[x] + n
                   /\ RefCount(held', Owned', todo', x) = RefCount(held, Owned, todo, x) + n
                   /\ n > 0 => life[x] = "live"
    <3>. PICK p \in {0, 1, 2} : p = Retained(s, x)
      BY <1>5
    <3>1. Refs(new, x) = Refs(Owned[c], x) + p
      BY <1>2, <1>7, RefsAppend
    <3>2. Occ(todo', Owning(x)) = Occ(todo, Owning(x)) + 0
      BY CountFacts
    <3>3. RefCount(held', Owned', todo', x) = RefCount(held, Owned, todo, x) + (p + 0)
      <4>1. /\ new \in Seq(Slot) /\ Owned' = [Owned EXCEPT ![c] = new] /\ held'[x] = held[x]
            /\ p \in Int /\ 0 \in Int
        BY <1>1, <1>3, <1>7
      <4>. QED BY <4>1, <3>1, <3>2, CountShift
    <3>4. p > 0 => x \in {s.key, s.value}
      BY RetainedIn
    <3>5. rc'[x] = rc[x] + p /\ p + 0 = p
      BY <1>5
    <3>. QED BY <3>3, <3>4, <3>5
  <2>. QED BY <1>1, <1>8, <2>1, CountStep
<1>10. StorageOK'
  <2>1. ASSUME NEW d \in Collection \ {c} PROVE StoreOK(d)'
    <3>1. (\E f \in Range(todo) : f.op = "finalize" /\ f.obj = d)
            <=> (\E f \in Range(todo') : f.op = "finalize" /\ f.obj = d)
      BY DEF BusyOps
    <3>2. StoreOK(d)
      BY DEF IInv, StorageOK
    <3>. QED BY <1>1, <1>4, <3>1, <3>2, StoreSame
  <2>2. StoreOK(c)'
    <3>1. StoreOK(c)
      BY DEF IInv, StorageOK
    <3>2. \A i \in DOMAIN new : new[i].key = NULL <=> c \in Array
      <4>1. ASSUME NEW i \in DOMAIN new PROVE new[i].key = NULL <=> c \in Array
        <5>1. i \in 1..Len(slots[c]) \/ new[i] = s
          BY <1>2, <1>3
        <5>. QED BY <1>2, <1>3, <3>1, <5>1 DEF StoreOK, CollectionOK
      <4>. QED BY <4>1
    <3>3. ASSUME c \in Dictionary, NEW i \in DOMAIN new, NEW j \in DOMAIN new, i # j
          PROVE  ~CFEqual(new[i].key, new[j].key)
      <4>1. \A k \in 1..Len(slots[c]) : ~CFEqual(new[k].key, s.key) /\ ~CFEqual(s.key, new[k].key)
        BY <1>2, <1>3, <3>3, EqualSymmetric DEF FindIndex
      <4>2. /\ i \in 1..Len(slots[c]) \/ (new[i] = s /\ i = Len(slots[c]) + 1)
            /\ j \in 1..Len(slots[c]) \/ (new[j] = s /\ j = Len(slots[c]) + 1)
        BY <1>2, <1>3
      <4>3. CASE i \in 1..Len(slots[c]) /\ j \in 1..Len(slots[c])
        BY <1>2, <1>3, <3>1, <3>3, <4>3 DEF StoreOK
      <4>. QED BY <3>3, <4>1, <4>2, <4>3
    <3>4. CollectionOK(c)'
      BY <1>1, <1>4, <3>2 DEF CollectionOK
    <3>5. Len(slots'[c]) <= capacity'[c]
      BY <1>3, <1>4
    <3>. QED BY <1>1, <1>4, <3>3, <3>4, <3>5 DEF StoreOK
  <2>. QED BY <2>1, <2>2 DEF StorageOK
<1>11. Kept \subseteq Kept'
  <2>1. ASSUME NEW d \in Kept \cap Collection
        PROVE  InSlots(Owned[d]) \subseteq InSlots(Owned'[d])
    <3>1. CASE d = c
      <4>1. DOMAIN slots[c] \subseteq DOMAIN new
        BY <1>2, <1>3
      <4>2. \A i \in DOMAIN slots[c] : new[i] = slots[c][i]
        BY <1>2, <1>3
      <4>3. Owned[d] = slots[c] /\ Owned'[d] = new
        BY <1>7, <1>8, <3>1
      <4>. QED BY <4>1, <4>2, <4>3 DEF InSlots
    <3>2. CASE d # c
      BY <1>7, <1>8, <3>2
    <3>. QED BY <3>1, <3>2
  <2>. QED BY <1>1, <1>8, <2>1, KeptGrows
<1>. QED BY <1>1, <1>6, <1>9, <1>10, <1>11 DEF IInv, NoFalseAlarm

\* A piece that ends its call is the whole call.
LEMMA LastPiece ==
    ASSUME IInv, todo # <<>>, Now.op \in MutatorOps \cup CreatorOps
    PROVE  /\ Tail(todo) = <<>> /\ Range(todo) = {Now}
           /\ Now.obj \in Collection /\ FrameOK(Now) /\ Now \in Frame
           /\ \A f \in Range(todo) : f.op \notin BusyOps
           /\ \A x \in Object : Occ(todo, Owning(x)) = Owes(Now, x)
<1>1. /\ todo \in Seq(Frame) /\ Now \in Frame /\ FrameOK(Now) /\ Tail(todo) \in Seq(Frame)
      /\ Range(todo) = {Now} \cup Range(Tail(todo))
  BY NowFacts
<1>2. Tail(todo) = <<>>
  BY <1>1, StackTop DEF IInv, Now
<1>3. Range(todo) = {Now}
  BY <1>1, <1>2 DEF Range
<1>4. Now.obj \in Collection
  BY <1>1, FrameFacts DEF MutatorOps, CreatorOps, Collection
<1>5. \A f \in Range(todo) : f.op \notin BusyOps
  BY <1>3 DEF BusyOps, MutatorOps, CreatorOps
<1>6. ASSUME NEW x \in Object PROVE Occ(todo, Owning(x)) = Owes(Now, x)
  <2>1. Occ(todo, Owning(x)) = Occ(Tail(todo), Owning(x)) + Owes(Now, x)
    BY <1>1, OwesTop DEF Now
  <2>2. Occ(Tail(todo), Owning(x)) = 0
    BY <1>2, OccEmpty
  <2>3. Owes(Now, x) \in Nat
    BY DEF Owes
  <2>. QED BY <2>1, <2>2, <2>3
<1>. QED BY <1>1, <1>2, <1>3, <1>4, <1>5, <1>6

\* The call is over.
LEMMA NothingLeft ==
    /\ <<>> \in Seq(Frame) /\ Range(<<>>) = {} /\ StackOK(<<>>) /\ <<>> \o <<>> = <<>>
    /\ \A x \in Object : Occ(<<>>, Owning(x)) = 0
<1>1. <<>> \in Seq(Frame) /\ DOMAIN <<>> = {} /\ <<>> \o <<>> = <<>>
  OBVIOUS
<1>2. \A x \in Object : Occ(<<>>, Owning(x)) = 0
  BY OccEmpty
<1>. QED BY <1>1, <1>2 DEF Range, StackOK

LEMMA AppendValueKeeps ==
    IInv /\ AppendValue => IInv' /\ \E c \in Collection, s \in Slot : Inserted(c, s)
<1>. SUFFICES ASSUME IInv, AppendValue
              PROVE  IInv' /\ \E c \in Collection, s \in Slot : Inserted(c, s)
  OBVIOUS
<1>1. aborted = "no" /\ todo # <<>> /\ Now.op = "append"
  BY DEF AppendValue, Running
<1>2. /\ Tail(todo) = <<>> /\ Range(todo) = {Now} /\ FrameOK(Now) /\ Now \in Frame
      /\ \A f \in Range(todo) : f.op \notin BusyOps
      /\ \A x \in Object : Occ(todo, Owning(x)) = Owes(Now, x)
  BY <1>1, LastPiece DEF MutatorOps
<1>. PICK c \in Array : c = Now.obj
  BY <1>1, <1>2, FrameFacts
<1>. PICK s \in Slot : s = Now.slot
  BY <1>1, <1>2, FrameFacts DEF MutatorOps
<1>3. EnsureCapacity(c, Len(slots[c]) + 1) /\ AddSlot(c, s) /\ todo' = <<>>
  BY <1>2, NothingLeft DEF AppendValue, Push
<1>4. c \in Kept /\ s.value \in Kept /\ s.key = NULL /\ c \in Collection /\ c \notin Dictionary
  BY <1>1, <1>2, ObjectsDistinct DEF FrameOK, MutatorOps, Collection
<1>5. life[c] = "live" /\ \A x \in Object : x \in {s.key, s.value} => life[x] = "live"
  BY <1>4, KeptFacts, ObjectsDistinct
<1>6. StoreOK(c) /\ TypeOK /\ Len(slots[c]) + 1 \in Nat
  <2>1. Len(slots[c]) \in Nat
    BY <1>4, TypeFacts, LenProperties DEF IInv
  <2>. QED BY <1>4, <2>1 DEF IInv, StorageOK
<1>7. /\ capacity' \in [Collection -> Nat] /\ buffers' \in [Collection -> Nat]
      /\ Len(slots[c]) + 1 <= capacity'[c] /\ buffers'[c] = (IF capacity'[c] > 0 THEN 1 ELSE 0)
      /\ \A d \in Collection \ {c} : capacity'[d] = capacity[d] /\ buffers'[d] = buffers[d]
  BY <1>3, <1>4, <1>5, <1>6, EnsureFacts
<1>8. /\ todo' \in Seq(Frame) /\ \A f \in Range(todo) \cup Range(todo') : f.op \notin BusyOps
      /\ \A x \in Object : Occ(todo', Owning(x)) = Occ(todo, Owning(x))
  <2>1. \A x \in Object : Owes(Now, x) = 0
    BY <1>1 DEF Owes, OwningOps
  <2>. QED BY <1>2, <1>3, <2>1, NothingLeft
<1>9. TypeOK' /\ Balanced' /\ StorageOK' /\ NoFalseAlarm'
  BY <1>3, <1>4, <1>5, <1>7, <1>8, InsertKeeps
<1>10. IInv'
  BY <1>3, <1>9, NothingLeft DEF IInv, FramesOK
<1>11. Inserted(c, s)
  <2>1. Owned[c] = slots[c] /\ Owned' = [Owned EXCEPT ![c] = Append(slots[c], s)]
    BY <1>3, <1>4, <1>5, <1>6, <1>8, AddOwned
  <2>2. Building' = Building
    BY <1>1, <1>2, <1>3, NothingLeft, BuildingAre DEF CreatorOps
  <2>3. c \in mutable
    BY <1>1, <1>2 DEF FrameOK, MutatorOps
  <2>. QED BY <1>3, <1>4, <1>5, <2>1, <2>2, <2>3 DEF Inserted, AddSlot
<1>. QED BY <1>4, <1>10, <1>11

\* A step that neither counts nor stores.
LEMMA QuietStep ==
    ASSUME IInv, life' = life, rc' = rc, slots' = slots, capacity' = capacity,
           buffers' = buffers, mutable' = mutable, held' = held, aborted' = aborted,
           todo' \in Seq(Frame),
           \A f \in Range(todo) \cup Range(todo') : f.op \notin BusyOps,
           \A x \in Object : Occ(todo', Owning(x)) = Occ(todo, Owning(x))
    PROVE  /\ TypeOK' /\ Balanced' /\ StorageOK' /\ NoFalseAlarm'
           /\ Kept' = Kept
<1>1. Owned' = Owned
  BY OwnedSame
<1>2. TypeOK'
  BY DEF IInv, TypeOK
<1>3. Owned' \in [Collection -> Seq(Slot)] /\ held' \in [Object -> Nat]
  BY <1>1, OwnedTyped, TypeFacts DEF IInv
<1>4. Balanced'
  <2>1. ASSUME NEW x \in Object
        PROVE  \E n \in {-1, 0, 1, 2} :
                   /\ rc'[x] = rc[x] + n
                   /\ RefCount(held', Owned', todo', x) = RefCount(held, Owned, todo, x) + n
                   /\ n > 0 => life[x] = "live"
    <3>1. RefCount(held', Owned', todo', x) = RefCount(held, Owned, todo, x)
      BY <1>1 DEF RefCount
    <3>2. RefCount(held, Owned, todo, x) \in Nat /\ rc[x] \in Nat
      BY CountFacts
    <3>3. /\ RefCount(held', Owned', todo', x) = RefCount(held, Owned, todo, x) + 0
          /\ rc'[x] = rc[x] + 0 /\ ~(0 > 0)
      BY <3>1, <3>2
    <3>. QED BY <3>3
  <2>. QED BY <1>3, <2>1, CountStep
<1>5. StorageOK'
  <2>1. ASSUME NEW c \in Collection
        PROVE  (\E f \in Range(todo) : f.op = "finalize" /\ f.obj = c)
                 <=> (\E f \in Range(todo') : f.op = "finalize" /\ f.obj = c)
    BY DEF BusyOps
  <2>. QED BY <2>1, StorageSame DEF IInv
<1>6. Kept' = Kept
  BY <1>1, KeptSame
<1>. QED BY <1>2, <1>4, <1>5, <1>6 DEF IInv, NoFalseAlarm

\* A step that leaves the heap alone.
LEMMA HeapSame ==
    ASSUME IInv, UNCHANGED <<life, rc, storage, held, todo>>,
           aborted' \in {"no", "allocation failed", "not mutable"}
    PROVE  IInv'
<1>1. /\ life' = life /\ rc' = rc /\ slots' = slots /\ capacity' = capacity
      /\ buffers' = buffers /\ mutable' = mutable /\ held' = held /\ todo' = todo
  BY DEF storage
<1>2. Owned' = Owned
  BY <1>1, OwnedSame
<1>3. Kept' = Kept
  BY <1>1, <1>2, KeptSame
<1>4. TypeOK'
  BY <1>1 DEF IInv, TypeOK
<1>5. Balanced'
  <2>1. ASSUME NEW x \in Object PROVE References(x)' = References(x)
    <3>1. todo \in Seq(Frame) /\ held \in [Object -> Nat] /\ Owned \in [Collection -> Seq(Slot)]
      BY TypeFacts, OwnedTyped DEF IInv
    <3>2. References(x)' = RefCount(held', Owned', todo', x)
      BY <1>1, <1>2, <3>1, CountIsNext
    <3>. QED BY <1>1, <1>2, <3>2, CountFacts
  <2>. QED BY <1>1, <2>1 DEF IInv, Balanced, CountIsReferences, NothingDangles
<1>6. StorageOK'
  BY <1>1, StorageSame DEF IInv
<1>7. NoFalseAlarm' /\ StackOK(todo')
  BY <1>1 DEF IInv, NoFalseAlarm
<1>8. FramesOK'
  <2>1. ASSUME NEW f \in Range(todo) PROVE FrameOK(f)'
    <3>1. FrameOK(f)
      BY DEF IInv, FramesOK
    <3>2. \A c, l : BuildingOK(c, l) => BuildingOK(c, l)'
      BY <1>1, <1>3 DEF BuildingOK, ListOK
    <3>. QED BY <1>1, <1>3, <3>1, <3>2 DEF FrameOK
  <2>. QED BY <1>1, <2>1 DEF FramesOK
<1>. QED BY <1>4, <1>5, <1>6, <1>7, <1>8 DEF IInv

LEMMA AbortKeeps ==
    ASSUME IInv, NEW reason \in {"allocation failed", "not mutable"}, Abort(reason)
    PROVE  IInv'
BY HeapSame DEF Abort

LEMMA GrowAbortsKeeps == IInv /\ GrowAborts => IInv'
BY AbortKeeps DEF GrowAborts

\* What the piece that builds a collection says of it.
LEMMA BuildingFacts ==
    ASSUME IInv, todo # <<>>, Now.op \in CreatorOps
    PROVE  /\ Now.obj \in Collection /\ life[Now.obj] = "live" /\ rc[Now.obj] = 1
           /\ held[Now.obj] = 0 /\ Now.obj \notin Kept
           /\ Now.rest \in Seq(Element) /\ ListOK(Now.obj, Now.rest)
           /\ Tail(todo) = <<>> /\ Range(todo) = {Now} /\ Now \in Frame /\ FrameOK(Now)
           /\ \A f \in Range(todo) : f.op \notin BusyOps
           /\ \A x \in Object : Occ(todo, Owning(x)) = IF x = Now.obj THEN 1 ELSE 0
<1>1. /\ Tail(todo) = <<>> /\ Range(todo) = {Now} /\ Now \in Frame /\ FrameOK(Now)
      /\ \A f \in Range(todo) : f.op \notin BusyOps
      /\ \A x \in Object : Occ(todo, Owning(x)) = Owes(Now, x)
  BY LastPiece
<1>2. \A x : Owes(Now, x) = IF x = Now.obj THEN 1 ELSE 0
  BY DEF Owes, OwningOps, CreatorOps
<1>. PICK c : c = Now.obj
  OBVIOUS
<1>3. /\ c \in Collection /\ life[c] = "live" /\ rc[c] = 1 /\ held[c] = 0
      /\ Now.rest \in Seq(Element) /\ ListOK(c, Now.rest)
  BY <1>1, CreatorFacts
<1>4. c \notin Kept
  <2>1. c \in Object /\ Occ(todo, Owning(c)) = 1
    BY <1>1, <1>2, <1>3 DEF Object
  <2>. DEFINE m == SlotRefs(Owned, c)
  <2>2. rc[c] = held[c] + m + Occ(todo, Owning(c)) /\ m \in Nat
    BY <1>3, <2>1, CountFacts
  <2>. HIDE DEF m
  <2>3. 1 = 0 + m + 1 /\ m \in Nat
    BY <1>3, <2>1, <2>2
  <2>4. m = 0
    BY <2>3
  <2>. QED BY <1>3, <2>1, <2>4, NotKept DEF m
<1>. QED BY <1>1, <1>2, <1>3, <1>4

\* A call whose only piece is f.
LEMMA OnePiece ==
    ASSUME NEW f \in Frame, f.op \notin WritingOps \cup {"finalize"}
    PROVE  /\ <<f>> \o <<>> = <<f>> /\ <<f>> \in Seq(Frame) /\ Range(<<f>>) = {f}
           /\ StackOK(<<f>>) /\ \A x \in Object : Occ(<<f>>, Owning(x)) = Owes(f, x)
<1>1. <<f>> \in Seq(Frame) /\ <<f>> \o <<>> = <<f>>
  <2>1. <<f>> \in Seq(Frame)
    OBVIOUS
  <2>. QED BY <2>1, ConcatEmptySeq
<1>2. Range(<<f>> \o <<>>) = {f} \cup Range(<<>>)
  BY NothingLeft, RangeCons
<1>3. StackOK(<<f>> \o <<>>)
  BY NothingLeft, StackPush
<1>4. ASSUME NEW x \in Object PROVE Occ(<<f>>, Owning(x)) = Owes(f, x)
  <2>1. Occ(<<f>> \o <<>>, Owning(x)) = Occ(<<>>, Owning(x)) + Owes(f, x)
    BY NothingLeft, OwesPush
  <2>2. Owes(f, x) \in Nat
    BY DEF Owes
  <2>. QED BY <1>1, <2>1, <2>2, NothingLeft
<1>. QED BY <1>1, <1>2, <1>3, <1>4, NothingLeft

\* The collection under construction is given up.
LEMMA GiveUpKeeps ==
    ASSUME IInv, todo # <<>>, Now.op \in CreatorOps, Push(<<Release(Now.obj)>>),
           UNCHANGED <<life, rc, storage, held, aborted>>
    PROVE  IInv'
<1>. PICK c \in Collection : c = Now.obj
  BY BuildingFacts
<1>. PICK f \in Frame : f = Release(c)
  BY PiecesTyped DEF Object
<1>1. /\ f.op = "release" /\ f.obj = c
  BY DEF Release
<1>2. /\ Tail(todo) = <<>> /\ \A g \in Range(todo) : g.op \notin BusyOps
      /\ \A x \in Object : Occ(todo, Owning(x)) = IF x = c THEN 1 ELSE 0
  BY BuildingFacts
<1>3. /\ todo' = <<f>> /\ Range(todo') = {f} /\ todo' \in Seq(Frame) /\ StackOK(todo')
      /\ \A x \in Object : Occ(todo', Owning(x)) = Owes(f, x)
  <2>1. todo' = <<f>> \o <<>>
    BY <1>2 DEF Push
  <2>. QED BY <1>1, <2>1, OnePiece DEF WritingOps
<1>4. \A x \in Object : Occ(todo', Owning(x)) = Occ(todo, Owning(x))
  BY <1>1, <1>2, <1>3 DEF Owes, OwningOps
<1>5. \A g \in Range(todo) \cup Range(todo') : g.op \notin BusyOps
  BY <1>1, <1>2, <1>3 DEF BusyOps
<1>6. TypeOK' /\ Balanced' /\ StorageOK' /\ NoFalseAlarm'
  BY <1>3, <1>4, <1>5, QuietStep DEF storage
<1>7. FrameOK(f)'
  BY <1>1 DEF FrameOK, MutatorOps, WritingOps
<1>. QED BY <1>3, <1>6, <1>7 DEF IInv, FramesOK

LEMMA ReserveFailsKeeps == IInv /\ ReserveFails => IInv'
<1>. SUFFICES ASSUME IInv, ReserveFails PROVE IInv'
  OBVIOUS
<1>1. /\ todo # <<>> /\ Now.op \in CreatorOps /\ Push(<<Release(Now.obj)>>)
      /\ UNCHANGED <<life, rc, storage, held, aborted>>
  BY DEF ReserveFails, Running, CreatorOps
<1>. QED BY <1>1, GiveUpKeeps

LEMMA FillFailsKeeps == IInv /\ FillFails => IInv'
<1>. SUFFICES ASSUME IInv, FillFails PROVE IInv'
  OBVIOUS
<1>1. /\ todo # <<>> /\ Now.op \in CreatorOps /\ Push(<<Release(Now.obj)>>)
      /\ UNCHANGED <<life, rc, storage, held, aborted>>
  BY DEF FillFails, Running, CreatorOps
<1>. QED BY <1>1, GiveUpKeeps

LEMMA ReserveRoomKeeps == IInv /\ ReserveRoom => IInv'
<1>. SUFFICES ASSUME IInv, ReserveRoom PROVE IInv'
  OBVIOUS
<1>1. todo # <<>> /\ Now.op = "reserve" /\ aborted = "no"
  BY DEF ReserveRoom, Running
<1>. PICK c \in Collection : c = Now.obj
  BY <1>1, BuildingFacts DEF CreatorOps
<1>. PICK l \in Seq(Element) : l = Now.rest
  BY <1>1, BuildingFacts DEF CreatorOps
<1>2. /\ Tail(todo) = <<>> /\ Range(todo) = {Now} /\ Now \in Frame /\ FrameOK(Now)
      /\ \A g \in Range(todo) : g.op \notin BusyOps
      /\ \A x \in Object : Occ(todo, Owning(x)) = IF x = c THEN 1 ELSE 0
      /\ life[c] = "live"
  BY <1>1, BuildingFacts DEF CreatorOps
<1>. PICK n \in Nat : n = Now.room
  BY <1>1, <1>2, FrameFacts
<1>3. BuildingOK(c, l) /\ slots[c] = <<>> /\ Len(l) <= n
  BY <1>1, <1>2 DEF FrameOK
<1>. PICK f \in Frame : f = Fill(c, l)
  BY PiecesTyped
<1>4. f.op = "fill" /\ f.obj = c /\ f.rest = l
  BY DEF Fill
<1>5. /\ EnsureCapacity(c, n) /\ todo' = <<f>> \o <<>>
      /\ life' = life /\ rc' = rc /\ slots' = slots /\ mutable' = mutable
      /\ held' = held /\ aborted' = aborted
  BY <1>2 DEF ReserveRoom, Push
<1>6. StoreOK(c) /\ TypeOK
  BY DEF IInv, StorageOK
<1>7. /\ capacity' \in [Collection -> Nat] /\ buffers' \in [Collection -> Nat]
      /\ n <= capacity'[c] /\ buffers'[c] = (IF capacity'[c] > 0 THEN 1 ELSE 0)
      /\ Len(slots[c]) <= capacity'[c]
      /\ \A d \in Collection \ {c} : capacity'[d] = capacity[d] /\ buffers'[d] = buffers[d]
  BY <1>2, <1>5, <1>6, EnsureFacts
<1>8. /\ todo' \in Seq(Frame) /\ Range(todo') = {f} /\ StackOK(todo')
      /\ \A x \in Object : Occ(todo', Owning(x)) = Occ(todo, Owning(x))
      /\ \A g \in Range(todo') : g.op \notin BusyOps
  <2>1. /\ todo' \in Seq(Frame) /\ Range(todo') = {f} /\ StackOK(todo')
        /\ \A x \in Object : Occ(todo', Owning(x)) = Owes(f, x)
    BY <1>4, <1>5, OnePiece DEF WritingOps
  <2>2. \A x \in Object : Owes(f, x) = IF x = c THEN 1 ELSE 0
    BY <1>4 DEF Owes, OwningOps
  <2>. QED BY <1>2, <1>4, <2>1, <2>2 DEF BusyOps
<1>9. Owned' = Owned
  BY <1>2, <1>5, <1>8, OwnedSame
<1>10. Kept' = Kept
  BY <1>5, <1>9, KeptSame
<1>11. TypeOK'
  BY <1>5, <1>7, <1>8 DEF IInv, TypeOK
<1>12. Balanced'
  <2>1. Owned' \in [Collection -> Seq(Slot)] /\ held' \in [Object -> Nat]
    BY <1>5, <1>9, OwnedTyped, TypeFacts DEF IInv
  <2>2. ASSUME NEW x \in Object
        PROVE  \E m \in {-1, 0, 1, 2} :
                   /\ rc'[x] = rc[x] + m
                   /\ RefCount(held', Owned', todo', x) = RefCount(held, Owned, todo, x) + m
                   /\ m > 0 => life[x] = "live"
    <3>1. RefCount(held', Owned', todo', x) = RefCount(held, Owned, todo, x)
      BY <1>5, <1>8, <1>9 DEF RefCount
    <3>2. RefCount(held, Owned, todo, x) \in Nat /\ rc[x] \in Nat
      BY CountFacts
    <3>3. /\ RefCount(held', Owned', todo', x) = RefCount(held, Owned, todo, x) + 0
          /\ rc'[x] = rc[x] + 0 /\ ~(0 > 0)
      BY <1>5, <3>1, <3>2
    <3>. QED BY <3>3
  <2>. QED BY <1>5, <1>8, <2>1, <2>2, CountStep
<1>13. StorageOK'
  <2>1. ASSUME NEW d \in Collection \ {c} PROVE StoreOK(d)'
    <3>1. (\E g \in Range(todo) : g.op = "finalize" /\ g.obj = d)
            <=> (\E g \in Range(todo') : g.op = "finalize" /\ g.obj = d)
      BY <1>2, <1>8 DEF BusyOps
    <3>2. StoreOK(d)
      BY DEF IInv, StorageOK
    <3>. QED BY <1>5, <1>7, <3>1, <3>2, StoreSame
  <2>2. StoreOK(c)'
    BY <1>2, <1>5, <1>6, <1>7 DEF StoreOK, CollectionOK
  <2>. QED BY <2>1, <2>2 DEF StorageOK
<1>14. FrameOK(f)'
  <2>1. BuildingOK(c, l)'
    BY <1>3, <1>5, <1>10 DEF BuildingOK, ListOK
  <2>2. Len(slots'[c]) + Len(l) <= capacity'[c]
    <3>1. Len(slots'[c]) = 0
      BY <1>3, <1>5
    <3>2. Len(l) \in Nat /\ capacity'[c] \in Nat
      BY <1>7, LenProperties
    <3>. QED BY <1>3, <1>7, <3>1, <3>2
  <2>. QED BY <1>4, <2>1, <2>2 DEF FrameOK, MutatorOps, WritingOps
<1>. QED BY <1>5, <1>8, <1>11, <1>12, <1>13, <1>14 DEF IInv, NoFalseAlarm, FramesOK

LEMMA ReturnNewKeeps == IInv /\ ReturnNew => IInv'
<1>. SUFFICES ASSUME IInv, ReturnNew PROVE IInv'
  OBVIOUS
<1>1. todo # <<>> /\ Now.op = "fill"
  BY DEF ReturnNew, Running
<1>. PICK c \in Collection : c = Now.obj
  BY <1>1, BuildingFacts DEF CreatorOps
<1>2. /\ Tail(todo) = <<>> /\ \A g \in Range(todo) : g.op \notin BusyOps
      /\ \A x \in Object : Occ(todo, Owning(x)) = IF x = c THEN 1 ELSE 0
      /\ life[c] = "live" /\ held[c] = 0 /\ c \in Object
  BY <1>1, BuildingFacts DEF CreatorOps, Object
<1>3. /\ held' = [held EXCEPT ![c] = @ + 1] /\ todo' = <<>>
      /\ life' = life /\ rc' = rc /\ slots' = slots /\ capacity' = capacity
      /\ buffers' = buffers /\ mutable' = mutable /\ aborted' = aborted
  BY <1>2, NothingLeft DEF ReturnNew, Push, storage
<1>4. /\ todo' \in Seq(Frame) /\ Range(todo') = {} /\ StackOK(todo')
      /\ \A x \in Object : Occ(todo', Owning(x)) = 0
  BY <1>3, NothingLeft
<1>5. /\ held' \in [Object -> 0..MaxHeld] /\ held'[c] = 1
      /\ \A x \in Object \ {c} : held'[x] = held[x]
  <2>1. held' = [held EXCEPT ![c] = 1]
    BY <1>2, <1>3
  <2>2. 1 \in 0..MaxHeld
    BY BoundsPositive
  <2>. QED BY <1>2, <2>1, <2>2, TypeFacts DEF IInv
<1>6. TypeOK'
  BY <1>3, <1>4, <1>5 DEF IInv, TypeOK
<1>7. Owned' = Owned
  BY <1>2, <1>3, <1>4, OwnedSame
<1>8. Balanced'
  <2>1. Owned' \in [Collection -> Seq(Slot)] /\ held' \in [Object -> Nat]
    <3>1. 0..MaxHeld \subseteq Nat
      BY BoundsPositive
    <3>2. held' \in [Object -> Nat]
      BY <1>5, <3>1
    <3>. QED BY <1>7, <3>2, OwnedTyped DEF IInv
  <2>2. ASSUME NEW x \in Object
        PROVE  \E m \in {-1, 0, 1, 2} :
                   /\ rc'[x] = rc[x] + m
                   /\ RefCount(held', Owned', todo', x) = RefCount(held, Owned, todo, x) + m
                   /\ m > 0 => life[x] = "live"
    <3>. DEFINE k == SlotRefs(Owned, x)
                h == held[x]
                g == held'[x]
    <3>1. k \in Nat /\ h \in Nat /\ rc[x] \in Nat
      BY CountFacts
    <3>2. g = h + (IF x = c THEN 1 ELSE 0)
      BY <1>2, <1>5, <3>1
    <3>3. RefCount(held', Owned', todo', x) = g + k + 0
      BY <1>4, <1>7 DEF RefCount
    <3>4. RefCount(held, Owned, todo, x) = h + k + (IF x = c THEN 1 ELSE 0)
      BY <1>2 DEF RefCount
    <3>. HIDE DEF k, h, g
    <3>5. RefCount(held', Owned', todo', x) = RefCount(held, Owned, todo, x) + 0
      BY <3>1, <3>2, <3>3, <3>4
    <3>6. rc'[x] = rc[x] + 0 /\ ~(0 > 0)
      BY <1>3, <3>1
    <3>. QED BY <3>5, <3>6
  <2>. QED BY <1>3, <1>4, <2>1, <2>2, CountStep
<1>9. StorageOK'
  <2>1. ASSUME NEW d \in Collection
        PROVE  (\E g \in Range(todo) : g.op = "finalize" /\ g.obj = d)
                 <=> (\E g \in Range(todo') : g.op = "finalize" /\ g.obj = d)
    BY <1>2, <1>4 DEF BusyOps
  <2>. QED BY <1>3, <2>1, StorageSame DEF IInv
<1>. QED BY <1>3, <1>4, <1>6, <1>8, <1>9 DEF IInv, NoFalseAlarm, FramesOK

\* The only key that equals k is the one of slot i.
OnlyAt(s, i, k) == i \in DOMAIN s /\ \A j \in DOMAIN s : CFEqual(s[j].key, k) <=> j = i

\* At most one slot of a dictionary has a key equal to k.
LEMMA FirstIndexFound ==
    ASSUME IInv, NEW c \in Dictionary, NEW k, FindIndex(c, k) # {}
    PROVE  /\ FirstIndex(c, k) \in DOMAIN slots[c]
           /\ OnlyAt(slots[c], FirstIndex(c, k), k)
<1>1. slots[c] \in Seq(Slot) /\ StoreOK(c)
  BY TypeFacts DEF IInv, StorageOK, Collection
<1>2. DOMAIN slots[c] = 1..Len(slots[c]) /\ Len(slots[c]) \in Nat
  BY <1>1, LenProperties
<1>3. PICK i : i \in FindIndex(c, k)
  OBVIOUS
<1>4. ASSUME NEW j \in FindIndex(c, k) PROVE j = i
  <2>1. CFEqual(slots[c][i].key, k) /\ CFEqual(slots[c][j].key, k)
        /\ i \in DOMAIN slots[c] /\ j \in DOMAIN slots[c]
    BY <1>3, <1>4 DEF FindIndex
  <2>2. CFEqual(slots[c][i].key, slots[c][j].key)
    BY <2>1 DEF CFEqual
  <2>. QED BY <1>1, <2>1, <2>2 DEF StoreOK
<1>5. i \in DOMAIN slots[c] /\ i <= i
  BY <1>2, <1>3 DEF FindIndex
<1>6. \E m \in FindIndex(c, k) : \A j \in FindIndex(c, k) : m <= j
  BY <1>3, <1>4, <1>5
<1>7. FirstIndex(c, k) \in FindIndex(c, k)
  BY <1>6 DEF FirstIndex
<1>8. FirstIndex(c, k) = i
  BY <1>4, <1>7
<1>. QED BY <1>3, <1>4, <1>8 DEF FindIndex, OnlyAt

\* The slots of one collection and the pieces of the call change together.
LEMMA BalancedBy ==
    ASSUME IInv, NEW c \in Collection, NEW s \in Seq(Slot), Owned' = [Owned EXCEPT ![c] = s],
           todo' \in Seq(Frame), held' = held,
           \A x \in Object : life'[x] = "live" <=> life[x] = "live",
           \A x \in Object : \E p, q \in Int :
               /\ Refs(s, x) = Refs(Owned[c], x) + p
               /\ Occ(todo', Owning(x)) = Occ(todo, Owning(x)) + q
               /\ rc'[x] = rc[x] + (p + q) /\ p + q \in {-1, 0, 1, 2}
               /\ p + q > 0 => life[x] = "live"
    PROVE  Balanced'
<1>1. Owned' \in [Collection -> Seq(Slot)] /\ held' \in [Object -> Nat]
  BY OwnedTyped, TypeFacts DEF IInv
<1>2. ASSUME NEW x \in Object
      PROVE  \E n \in {-1, 0, 1, 2} :
                 /\ rc'[x] = rc[x] + n
                 /\ RefCount(held', Owned', todo', x) = RefCount(held, Owned, todo, x) + n
                 /\ n > 0 => life[x] = "live"
  <2>1. PICK p \in Int, q \in Int :
               /\ Refs(s, x) = Refs(Owned[c], x) + p
               /\ Occ(todo', Owning(x)) = Occ(todo, Owning(x)) + q
               /\ rc'[x] = rc[x] + (p + q) /\ p + q \in {-1, 0, 1, 2}
               /\ p + q > 0 => life[x] = "live"
    OBVIOUS
  <2>2. RefCount(held', Owned', todo', x) = RefCount(held, Owned, todo, x) + (p + q)
    <3>1. held'[x] = held[x]
      OBVIOUS
    <3>. QED BY <2>1, <3>1, CountShift
  <2>. QED BY <2>1, <2>2
<1>. QED BY <1>1, <1>2, CountStep

\* The value of a slot is about to be replaced.
LEMMA ReplaceKeeps ==
    ASSUME IInv, todo # <<>>, Tail(todo) = <<>>, NEW c \in Dictionary, NEW s \in Slot,
           life[c] = "live", s.value \in Kept, FindIndex(c, s.key) # {},
           NEW rest \in Seq(Frame), StackOK(rest), \A g \in Range(rest) : g.op = "fill",
           \A x \in Object : Occ(rest, Owning(x)) = Occ(todo, Owning(x)),
           \A g \in Range(todo) : g.op \notin BusyOps,
           c \in Kept \/ \E g \in Range(rest) : g.op = "fill" /\ g.obj = c,
           Replace(c, s, rest)
    PROVE  /\ TypeOK' /\ Balanced' /\ StorageOK' /\ NoFalseAlarm' /\ StackOK(todo')
           /\ \A f \in Range(todo') : f \in Range(rest) \/ FrameOK(f)'
           /\ c \notin Kept => Kept \subseteq Kept'
           /\ rc' = [rc EXCEPT ![s.value] = @ + 1]
           /\ UNCHANGED <<life, storage, held>>
           /\ Owned[c] = slots[c]
           /\ Owned' = [Owned EXCEPT ![c] =
                           [slots[c] EXCEPT ![FirstIndex(c, s.key)].value = s.value]]
           /\ \A g : g.op \in CreatorOps => (g \in Range(todo') <=> g \in Range(rest))
<1>. PICK i : i = FirstIndex(c, s.key)
  OBVIOUS
<1>1. /\ slots[c] \in Seq(Slot) /\ DOMAIN slots[c] = 1..Len(slots[c]) /\ i \in 1..Len(slots[c])
      /\ c \in Collection /\ i \in Nat
  <2>1. slots[c] \in Seq(Slot) /\ c \in Collection
    BY TypeFacts DEF IInv, Collection
  <2>2. i \in DOMAIN slots[c]
    BY FirstIndexFound
  <2>3. DOMAIN slots[c] = 1..Len(slots[c])
    BY <2>1, LenProperties
  <2>. QED BY <2>1, <2>2, <2>3
<1>. PICK old \in Object : old = slots[c][i].value
  <2>1. slots[c][i] \in Slot
    BY <1>1, LenProperties
  <2>. QED BY <2>1 DEF Slot
<1>. PICK v \in Object : v = s.value
  BY DEF Slot
<1>. PICK r \in Frame : r = Release(old)
  BY PiecesTyped
<1>. PICK st \in Frame : st = StoreAt(c, i, v)
  BY <1>1, PiecesTyped
<1>2. /\ r.op = "release" /\ r.obj = old
      /\ st.op = "store" /\ st.obj = c /\ st.index = i /\ st.value = v
  BY DEF Release, StoreAt
<1>3. /\ rc' = [rc EXCEPT ![v] = @ + 1] /\ todo' = (<<r, st>> \o rest) \o <<>>
      /\ life' = life /\ slots' = slots /\ capacity' = capacity /\ buffers' = buffers
      /\ mutable' = mutable /\ held' = held /\ aborted' = aborted
  BY DEF Replace, Push, storage
<1>. DEFINE t == <<st>> \o rest
            u == <<r>> \o t
<1>4. /\ t \in Seq(Frame) /\ Range(t) = {st} \cup Range(rest)
      /\ \A x \in Object : Occ(t, Owning(x)) = Occ(rest, Owning(x)) + Owes(st, x)
  <2>1. \A x \in Object : Occ(t, Owning(x)) = Occ(rest, Owning(x)) + Owes(st, x)
    BY OwesPush
  <2>. QED BY <2>1, ConsProperties, RangeCons
<1>5. StackOK(t)
  BY <1>2, StackPush DEF MutatorOps, CreatorOps, WritingOps
<1>. HIDE DEF t
<1>6. /\ u \in Seq(Frame) /\ Range(u) = {r} \cup Range(t)
      /\ \A x \in Object : Occ(u, Owning(x)) = Occ(t, Owning(x)) + Owes(r, x)
  <2>1. \A x \in Object : Occ(u, Owning(x)) = Occ(t, Owning(x)) + Owes(r, x)
    BY <1>4, OwesPush
  <2>. QED BY <1>4, <2>1, ConsProperties, RangeCons
<1>7. StackOK(u)
  <2>1. \A g \in Range(t) : g.op \notin MutatorOps
    BY <1>2, <1>4 DEF MutatorOps
  <2>. QED BY <1>2, <1>4, <1>5, <2>1, StackPush DEF MutatorOps, CreatorOps, WritingOps
<1>8. todo' = u
  <2>1. <<r, st>> \o rest = u
    BY PushShapes DEF t
  <2>2. u \o <<>> = u
    <3>. HIDE DEF u
    <3>. QED BY <1>6, ConcatEmptySeq
  <2>. QED BY <1>3, <2>1, <2>2
<1>. HIDE DEF u
<1>9. /\ todo' \in Seq(Frame) /\ StackOK(todo') /\ Range(todo') = {r, st} \cup Range(rest)
      /\ \A x \in Object : Occ(todo', Owning(x))
                             = Occ(todo, Owning(x)) + (IF old = x THEN 1 ELSE 0)
  <2>1. ASSUME NEW x \in Object
        PROVE  Occ(todo', Owning(x)) = Occ(todo, Owning(x)) + (IF old = x THEN 1 ELSE 0)
    <3>1. Owes(st, x) = 0 /\ Owes(r, x) = (IF old = x THEN 1 ELSE 0)
      BY <1>2 DEF Owes, OwningOps
    <3>2. Occ(todo', Owning(x)) = (Occ(rest, Owning(x)) + Owes(st, x)) + Owes(r, x)
      BY <1>4, <1>6, <1>8
    <3>3. Occ(todo, Owning(x)) \in Nat /\ Occ(rest, Owning(x)) = Occ(todo, Owning(x))
      BY CountFacts
    <3>. QED BY <3>1, <3>2, <3>3
  <2>. QED BY <1>4, <1>6, <1>7, <1>8, <2>1
<1>10. /\ rc' \in [Object -> Nat]
       /\ \A x \in Object : rc'[x] = rc[x] + (IF v = x THEN 1 ELSE 0) /\ rc[x] \in Nat
  <2>1. rc \in [Object -> Nat]
    BY TypeFacts DEF IInv
  <2>2. rc[v] + 1 \in Nat
    BY <2>1
  <2>. QED BY <1>3, <2>1, <2>2
<1>11. TypeOK'
  BY <1>3, <1>9, <1>10 DEF IInv, TypeOK
<1>. PICK new : new = Stored(slots[c], st)
  OBVIOUS
<1>12. /\ new \in Seq(Slot)
       /\ \A x \in Object : Refs(new, x) = Refs(slots[c], x)
            + (IF v = x THEN 1 ELSE 0) - (IF old = x THEN 1 ELSE 0)
  <2>1. new = [slots[c] EXCEPT ![i].value = v]
    BY <1>2 DEF Stored
  <2>. PICK z \in Seq(Slot) : z = slots[c]
    BY <1>1
  <2>2. ASSUME NEW x \in Object
        PROVE  /\ [z EXCEPT ![i].value = v] \in Seq(Slot)
               /\ Refs([z EXCEPT ![i].value = v], x)
                    = Refs(z, x) + (IF v = x THEN 1 ELSE 0) - (IF z[i].value = x THEN 1 ELSE 0)
    <3>1. i \in 1..Len(z)
      BY <1>1
    <3>2. [z EXCEPT ![i].value = v] \in Seq(Slot)
      BY <3>1, RefsPut
    <3>3. Refs([z EXCEPT ![i].value = v], x)
                    = Refs(z, x) + (IF v = x THEN 1 ELSE 0) - (IF z[i].value = x THEN 1 ELSE 0)
      BY <3>1, RefsPut
    <3>. QED BY <3>2, <3>3
  <2>. QED BY <2>1, <2>2
<1>13. Owned[c] = slots[c] /\ Owned' = [Owned EXCEPT ![c] = new]
       /\ \A d \in Collection \ {c} : Owned'[d] = Owned[d]
  <2>1. Owned[c] = slots[c]
    BY <1>1, OwnedIdle
  <2>2. Owned'[c] = new
    <3>1. \A g \in Range(todo') : g.obj = c /\ g.op \in BusyOps => g = st
      BY <1>2, <1>9 DEF BusyOps
    <3>2. Owned'[c] = Stored(slots'[c], st)
      BY <1>1, <1>2, <1>9, <3>1, OwnedBusyNext
    <3>. QED BY <1>3, <3>2
  <2>3. ASSUME NEW d \in Collection \ {c} PROVE Owned'[d] = Owned[d]
    <3>1. \A f : f.op \in BusyOps /\ f.obj = d => (f \in Range(todo) <=> f \in Range(todo'))
      BY <1>2, <1>9 DEF BusyOps
    <3>. QED BY <1>3, <3>1, OwnedKept
  <2>. QED BY <1>1, <2>1, <2>2, <2>3, OwnedChange
<1>14. Owned' \in [Collection -> Seq(Slot)] /\ held' \in [Object -> Nat]
  BY <1>3, <1>12, <1>13, OwnedTyped, TypeFacts DEF IInv
<1>15. Balanced'
  <2>1. ASSUME NEW x \in Object
        PROVE  \E p, q \in Int :
                   /\ Refs(new, x) = Refs(Owned[c], x) + p
                   /\ Occ(todo', Owning(x)) = Occ(todo, Owning(x)) + q
                   /\ rc'[x] = rc[x] + (p + q) /\ p + q \in {-1, 0, 1, 2}
                   /\ p + q > 0 => life[x] = "live"
    <3>. DEFINE a == IF v = x THEN 1 ELSE 0
                b == IF old = x THEN 1 ELSE 0
    <3>1. a \in {0, 1} /\ b \in {0, 1} /\ a - b \in Int /\ b \in Int /\ (a - b) + b = a
      OBVIOUS
    <3>2. Refs(new, x) = Refs(Owned[c], x) + (a - b)
      <4>1. Refs(new, x) = Refs(slots[c], x) + a - b
        BY <1>12
      <4>2. Refs(slots[c], x) \in Nat
        <5>1. Occ(slots[c], Valued(x)) \in Nat /\ Occ(slots[c], Keyed(x)) \in Nat
          BY <1>1, OccNat
        <5>. QED BY <5>1 DEF Refs
      <4>. QED BY <1>13, <3>1, <4>1, <4>2
    <3>3. Occ(todo', Owning(x)) = Occ(todo, Owning(x)) + b
      BY <1>9
    <3>4. rc'[x] = rc[x] + a
      BY <1>10
    <3>5. a > 0 => life[x] = "live"
      BY KeptFacts
    <3>. HIDE DEF a, b
    <3>. DEFINE p == a - b
    <3>6. /\ Refs(new, x) = Refs(Owned[c], x) + p /\ p \in Int /\ b \in Int
          /\ Occ(todo', Owning(x)) = Occ(todo, Owning(x)) + b
          /\ rc'[x] = rc[x] + (p + b) /\ p + b \in {-1, 0, 1, 2}
          /\ p + b > 0 => life[x] = "live"
      BY <3>1, <3>2, <3>3, <3>4, <3>5
    <3>. HIDE DEF p
    <3>. QED BY <3>6
  <2>2. c \in Collection /\ new \in Seq(Slot) /\ Owned' = [Owned EXCEPT ![c] = new]
    BY <1>1, <1>12, <1>13
  <2>3. /\ todo' \in Seq(Frame) /\ held' = held
        /\ \A x \in Object : life'[x] = "live" <=> life[x] = "live"
    BY <1>3, <1>9
  <2>. QED BY <2>1, <2>2, <2>3, BalancedBy
<1>16. StorageOK'
  <2>1. ASSUME NEW d \in Collection
        PROVE  (\E f \in Range(todo) : f.op = "finalize" /\ f.obj = d)
                 <=> (\E f \in Range(todo') : f.op = "finalize" /\ f.obj = d)
    BY <1>2, <1>9 DEF BusyOps
  <2>. QED BY <1>3, <2>1, StorageSame DEF IInv
<1>17. c \notin Kept => Kept \subseteq Kept'
  <2>1. SUFFICES ASSUME c \notin Kept PROVE Kept \subseteq Kept'
    OBVIOUS
  <2>2. \A d \in Kept \cap Collection : InSlots(Owned[d]) \subseteq InSlots(Owned'[d])
    BY <1>13, <2>1
  <2>. QED BY <1>3, <1>14, <2>2, KeptGrows
<1>18. c \in Kept => c \in Kept'
  BY <1>1, <1>3, <1>13, <1>14, KeptItself
<1>19. FrameOK(r)'
  BY <1>2 DEF FrameOK, MutatorOps, WritingOps
<1>20. FrameOK(st)'
  <2>1. i \in DOMAIN slots'[c]
    BY <1>1, <1>3
  <2>2. c \in Kept' \/ \E g \in Range(todo') : g.op = "fill" /\ g.obj = c
    BY <1>9, <1>18
  <2>. QED BY <1>2, <2>1, <2>2 DEF FrameOK, MutatorOps, WritingOps
<1>21. Owned' = [Owned EXCEPT ![c] = [slots[c] EXCEPT ![FirstIndex(c, s.key)].value = s.value]]
  <2>1. new = [slots[c] EXCEPT ![i].value = v]
    BY <1>2 DEF Stored
  <2>. QED BY <1>13, <2>1
<1>22. \A g : g.op \in CreatorOps => (g \in Range(todo') <=> g \in Range(rest))
  BY <1>2, <1>9 DEF CreatorOps
<1>23. UNCHANGED <<life, storage, held>> /\ rc' = [rc EXCEPT ![s.value] = @ + 1] /\ NoFalseAlarm'
  BY <1>3 DEF IInv, NoFalseAlarm, storage
<1>24. \A f \in Range(todo') : f \in Range(rest) \/ FrameOK(f)'
  BY <1>9, <1>19, <1>20
<1>. QED BY <1>9, <1>11, <1>13, <1>15, <1>16, <1>17, <1>21, <1>22, <1>23, <1>24

LEMMA SetValueKeeps ==
    IInv /\ SetValue => IInv' /\ \E c \in Collection, s \in Slot : Inserted(c, s)
<1>. SUFFICES ASSUME IInv, SetValue
              PROVE  IInv' /\ \E c \in Collection, s \in Slot : Inserted(c, s)
  OBVIOUS
<1>1. todo # <<>> /\ Now.op = "set"
  BY DEF SetValue, Running
<1>2. /\ Tail(todo) = <<>> /\ Range(todo) = {Now} /\ FrameOK(Now) /\ Now \in Frame
      /\ \A f \in Range(todo) : f.op \notin BusyOps
      /\ \A x \in Object : Occ(todo, Owning(x)) = Owes(Now, x)
  BY <1>1, LastPiece DEF MutatorOps
<1>. PICK c \in Dictionary : c = Now.obj
  BY <1>1, <1>2, FrameFacts
<1>. PICK s \in Slot : s = Now.slot
  BY <1>1, <1>2, FrameFacts DEF MutatorOps
<1>3. c \in Kept /\ s.value \in Kept /\ s.key \in Kept /\ c \in Collection /\ c \notin Array
  BY <1>1, <1>2, ObjectsDistinct DEF FrameOK, MutatorOps, Collection
<1>4. /\ life[c] = "live" /\ \A x \in Object : x \in {s.key, s.value} => life[x] = "live"
      /\ s.key # NULL
  BY <1>3, KeptFacts, ObjectsDistinct
<1>5. \A x \in Object : Occ(todo, Owning(x)) = 0
  BY <1>1, <1>2 DEF Owes, OwningOps
<1>8. c \in mutable
  BY <1>1, <1>2 DEF FrameOK, MutatorOps
<1>6. CASE FindIndex(c, s.key) # {}
  <2>1. Replace(c, s, <<>>)
    BY <1>6 DEF SetValue, InsertOrReplace
  <2>. PICK rest \in Seq(Frame) : rest = <<>>
    BY NothingLeft
  <2>2. StackOK(rest) /\ Range(rest) = {} /\ \A x \in Object : Occ(rest, Owning(x)) = 0
    BY NothingLeft
  <2>3. /\ StackOK(rest) /\ \A g \in Range(rest) : g.op = "fill"
        /\ \A x \in Object : Occ(rest, Owning(x)) = Occ(todo, Owning(x))
        /\ Replace(c, s, rest)
    BY <1>5, <2>1, <2>2
  <2>4. /\ TypeOK' /\ Balanced' /\ StorageOK' /\ NoFalseAlarm' /\ StackOK(todo')
        /\ \A f \in Range(todo') : f \in Range(rest) \/ FrameOK(f)'
        /\ UNCHANGED <<life, storage, held>> /\ Owned[c] = slots[c]
        /\ Owned' = [Owned EXCEPT ![c] =
                        [slots[c] EXCEPT ![FirstIndex(c, s.key)].value = s.value]]
        /\ \A g : g.op \in CreatorOps => (g \in Range(todo') <=> g \in Range(rest))
    BY <1>1, <1>2, <1>3, <1>4, <1>6, <2>3, ReplaceKeeps
  <2>5. IInv'
    BY <2>2, <2>4 DEF IInv, FramesOK
  <2>6. Building' = Building
    BY <1>1, <1>2, <2>2, <2>4, BuildingAre DEF CreatorOps
  <2>7. Inserted(c, s)
    BY <1>3, <1>4, <1>6, <1>8, <2>4, <2>6 DEF Inserted, storage
  <2>. QED BY <1>3, <2>5, <2>7
<1>7. CASE FindIndex(c, s.key) = {}
  <2>1. EnsureCapacity(c, Len(slots[c]) + 1) /\ AddSlot(c, s) /\ todo' = <<>>
    BY <1>2, <1>7, NothingLeft DEF SetValue, InsertOrReplace, Push
  <2>2. StoreOK(c) /\ TypeOK /\ Len(slots[c]) + 1 \in Nat
    <3>1. Len(slots[c]) \in Nat
      BY <1>3, TypeFacts, LenProperties DEF IInv
    <3>. QED BY <1>3, <3>1 DEF IInv, StorageOK
  <2>3. /\ capacity' \in [Collection -> Nat] /\ buffers' \in [Collection -> Nat]
        /\ Len(slots[c]) + 1 <= capacity'[c]
        /\ buffers'[c] = (IF capacity'[c] > 0 THEN 1 ELSE 0)
        /\ \A d \in Collection \ {c} : capacity'[d] = capacity[d] /\ buffers'[d] = buffers[d]
    BY <1>3, <1>4, <2>1, <2>2, EnsureFacts
  <2>4. /\ todo' \in Seq(Frame) /\ \A f \in Range(todo) \cup Range(todo') : f.op \notin BusyOps
        /\ \A x \in Object : Occ(todo', Owning(x)) = Occ(todo, Owning(x))
    BY <1>2, <1>5, <2>1, NothingLeft
  <2>5. TypeOK' /\ Balanced' /\ StorageOK' /\ NoFalseAlarm'
    BY <1>3, <1>4, <1>7, <2>1, <2>3, <2>4, InsertKeeps
  <2>6. IInv'
    BY <2>1, <2>5, NothingLeft DEF IInv, FramesOK
  <2>7. Inserted(c, s)
    <3>1. Owned[c] = slots[c] /\ Owned' = [Owned EXCEPT ![c] = Append(slots[c], s)]
      BY <1>3, <1>4, <2>1, <2>2, <2>4, AddOwned
    <3>2. Building' = Building
      BY <1>1, <1>2, <2>1, NothingLeft, BuildingAre DEF CreatorOps
    <3>. QED BY <1>3, <1>4, <1>7, <1>8, <2>1, <3>1, <3>2 DEF Inserted, AddSlot
  <2>. QED BY <1>3, <2>6, <2>7
<1>. QED BY <1>6, <1>7

LEMMA FillSlotKeeps ==
    IInv /\ FillSlot => IInv' /\ \E c \in Collection, s \in Slot : Inserted(c, s)
<1>. SUFFICES ASSUME IInv, FillSlot
              PROVE  IInv' /\ \E c \in Collection, s \in Slot : Inserted(c, s)
  OBVIOUS
<1>1. todo # <<>> /\ Now.op = "fill"
  BY DEF FillSlot, Running
<1>. PICK c \in Collection : c = Now.obj
  BY <1>1, BuildingFacts DEF CreatorOps
<1>. PICK l \in Seq(Element) : l = Now.rest
  BY <1>1, BuildingFacts DEF CreatorOps
<1>2. /\ Tail(todo) = <<>> /\ Range(todo) = {Now} /\ Now \in Frame /\ FrameOK(Now)
      /\ \A g \in Range(todo) : g.op \notin BusyOps
      /\ \A x \in Object : Occ(todo, Owning(x)) = IF x = c THEN 1 ELSE 0
      /\ life[c] = "live" /\ rc[c] = 1 /\ held[c] = 0 /\ c \notin Kept
      /\ ListOK(c, l)
  BY <1>1, BuildingFacts DEF CreatorOps
<1>3. l # <<>> /\ Complete(c, Head(l))
  BY DEF FillSlot
<1>4. Len(slots[c]) + Len(l) <= capacity[c]
  BY <1>1, <1>2 DEF FrameOK
<1>. PICK s : s = Head(l)
  OBVIOUS
<1>. PICK m : m = Tail(l)
  OBVIOUS
<1>5. /\ s = l[1] /\ 1 \in DOMAIN l /\ m \in Seq(Element) /\ Len(m) = Len(l) - 1
      /\ Len(l) \in Nat \ {0}
      /\ DOMAIN m = 1..Len(m) /\ DOMAIN l = 1..Len(l)
      /\ \A j \in 1..Len(m) : m[j] = l[j+1]
  <2>1. s = l[1] /\ 1 \in DOMAIN l
    BY <1>3, TailIsRemoveAt
  <2>2. m \in Seq(Element) /\ Len(m) = Len(l) - 1 /\ \A i \in 1..Len(m) : m[i] = l[i+1]
    BY <1>3, HeadTailProperties
  <2>3. DOMAIN l = 1..Len(l) /\ Len(l) \in Nat /\ DOMAIN m = 1..Len(m)
    BY <2>2, LenProperties
  <2>. QED BY <2>1, <2>2, <2>3
<1>6. s \in Element
  BY <1>5, LenProperties
<1>7. /\ s \in Slot /\ s.value \in Kept /\ s.key \in Kept \cup {NULL}
      /\ s.key = NULL <=> c \in Array
  <2>1. s.value # NULL /\ (c \in Dictionary => s.key # NULL)
    BY <1>3 DEF Complete
  <2>2. {s.key, s.value} \subseteq Kept \cup {NULL} /\ (c \in Array => s.key = NULL)
    BY <1>2, <1>5 DEF ListOK
  <2>3. s \in Slot
    BY <1>6, <2>1 DEF Slot, Element
  <2>4. c \in Array \/ c \in Dictionary
    BY DEF Collection
  <2>. QED BY <2>1, <2>2, <2>3, <2>4
<1>8. \A x \in Object : x \in {s.key, s.value} => life[x] = "live"
  BY <1>7, KeptFacts, ObjectsDistinct
<1>9. c \notin {s.key, s.value}
  BY <1>2, <1>7, ObjectsDistinct DEF Object
<1>19. c \in Building
  BY <1>1, <1>2, BuildingAre DEF CreatorOps
<1>. PICK f \in Frame : f = Fill(c, m)
  BY <1>5, PiecesTyped
<1>10. f.op = "fill" /\ f.obj = c /\ f.rest = m
  BY DEF Fill
<1>. PICK rest : rest = <<f>>
  OBVIOUS
<1>11. /\ rest \o <<>> = rest /\ rest \in Seq(Frame) /\ Range(rest) = {f} /\ StackOK(rest)
       /\ \A x \in Object : Occ(rest, Owning(x)) = Occ(todo, Owning(x))
  <2>1. /\ rest \o <<>> = rest /\ rest \in Seq(Frame) /\ Range(rest) = {f} /\ StackOK(rest)
        /\ \A x \in Object : Occ(rest, Owning(x)) = Owes(f, x)
    BY <1>10, OnePiece DEF WritingOps
  <2>2. \A x : Owes(f, x) = IF x = c THEN 1 ELSE 0
    BY <1>10 DEF Owes, OwningOps
  <2>. QED BY <1>2, <2>1, <2>2
<1>12. StoreOK(c) /\ TypeOK /\ Len(slots[c]) \in Nat /\ capacity[c] \in Nat
  <2>1. Len(slots[c]) \in Nat /\ capacity[c] \in Nat
    BY TypeFacts, LenProperties DEF IInv
  <2>. QED BY <2>1 DEF IInv, StorageOK
<1>. PICK n \in Nat : n = Len(slots[c])
  BY <1>12
<1>. PICK q \in Nat : q = capacity[c]
  BY <1>12
<1>. PICK k \in Nat : k = Len(m)
  BY <1>5, LenProperties
<1>18. n + 1 <= q /\ (n + 1) + k <= q /\ n + k <= q
  <2>. PICK a \in Nat : a = Len(l)
    BY <1>5
  <2>1. n + a <= q /\ k = a - 1
    BY <1>4, <1>5
  <2>2. ASSUME NEW x \in Nat, NEW y \in Nat, NEW z \in Nat, NEW w \in Nat,
               x + w <= y, z = w - 1
        PROVE  x + 1 <= y /\ (x + 1) + z <= y /\ x + z <= y
    BY <2>2
  <2>. QED BY <2>1, <2>2
\* There is room: the creation asked for it.
<1>13. Fits(c, Len(slots[c]) + 1)
  <2>1. n + 1 <= capacity[c]
    BY <1>18
  <2>. QED BY <2>1 DEF Fits
<1>14. ASSUME Kept \subseteq Kept', rc'[c] = 1, held' = held, life' = life,
              Len(slots'[c]) + Len(m) <= capacity'[c]
       PROVE  FrameOK(f)'
  <2>1. ListOK(c, m)'
    <3>1. ASSUME NEW j \in DOMAIN m
          PROVE  {m[j].key, m[j].value} \subseteq Kept' \cup {NULL} /\ (c \in Array => m[j].key = NULL)
      <4>1. j + 1 \in DOMAIN l /\ m[j] = l[j+1]
        BY <1>5
      <4>. QED BY <1>2, <1>14, <4>1 DEF ListOK
    <3>. QED BY <3>1 DEF ListOK
  <2>2. BuildingOK(c, m)'
    BY <1>2, <1>14, <2>1 DEF BuildingOK
  <2>. QED BY <1>10, <1>14, <2>2 DEF FrameOK, MutatorOps, WritingOps
<1>15. CASE c \in Dictionary /\ FindIndex(c, s.key) # {}
  <2>1. Replace(c, s, rest)
    BY <1>15, ObjectsDistinct DEF FillSlot, InsertOrReplace
  <2>2. /\ \A g \in Range(rest) : g.op = "fill"
        /\ \E g \in Range(rest) : g.op = "fill" /\ g.obj = c
    BY <1>10, <1>11
  <2>3. /\ TypeOK' /\ Balanced' /\ StorageOK' /\ NoFalseAlarm' /\ StackOK(todo')
        /\ \A g \in Range(todo') : g \in Range(rest) \/ FrameOK(g)'
        /\ Kept \subseteq Kept'
        /\ rc' = [rc EXCEPT ![s.value] = @ + 1]
        /\ UNCHANGED <<life, storage, held>>
        /\ Owned[c] = slots[c]
        /\ Owned' = [Owned EXCEPT ![c] =
                        [slots[c] EXCEPT ![FirstIndex(c, s.key)].value = s.value]]
        /\ \A g : g.op \in CreatorOps => (g \in Range(todo') <=> g \in Range(rest))
    <3>1. /\ todo # <<>> /\ Tail(todo) = <<>> /\ c \in Dictionary /\ s \in Slot
          /\ life[c] = "live" /\ s.value \in Kept /\ FindIndex(c, s.key) # {}
          /\ rest \in Seq(Frame) /\ StackOK(rest) /\ Replace(c, s, rest)
      BY <1>1, <1>2, <1>7, <1>11, <1>15, <2>1
    <3>2. /\ \A x \in Object : Occ(rest, Owning(x)) = Occ(todo, Owning(x))
          /\ \A g \in Range(todo) : g.op \notin BusyOps
          /\ \A g \in Range(rest) : g.op = "fill"
      BY <1>2, <1>11, <2>2
    <3>3. c \in Kept \/ \E g \in Range(rest) : g.op = "fill" /\ g.obj = c
      BY <2>2
    <3>4. c \notin Kept
      BY <1>2
    <3>. QED BY <3>1, <3>2, <3>3, <3>4, ReplaceKeeps
  <2>10. life' = life /\ held' = held /\ slots' = slots /\ capacity' = capacity
         /\ mutable' = mutable
    BY <2>3 DEF storage
  <2>4. rc'[c] = 1
    BY <1>2, <1>9, <2>3, TypeFacts DEF IInv, Object
  <2>5. Len(slots'[c]) + Len(m) <= capacity'[c]
    <3>1. Len(slots'[c]) = n /\ capacity'[c] = q
      BY <2>10
    <3>. QED BY <1>18, <3>1
  <2>6. FrameOK(f)'
    BY <1>14, <2>3, <2>4, <2>5, <2>10
  <2>7. IInv'
    BY <1>11, <2>3, <2>6 DEF IInv, FramesOK
  <2>8. Building' = Building
    BY <1>1, <1>2, <1>10, <1>11, <2>3, BuildingAre DEF CreatorOps
  <2>9. Inserted(c, s)
    BY <1>2, <1>7, <1>8, <1>15, <1>19, <2>3, <2>8, <2>10, ObjectsDistinct DEF Inserted
  <2>. QED BY <1>7, <2>7, <2>9
<1>16. CASE c \in Array \/ FindIndex(c, s.key) = {}
  <2>1. AddSlot(c, s) /\ Push(rest) /\ capacity' = capacity /\ buffers' = buffers
    <3>1. CASE c \in Array
      BY <3>1 DEF FillSlot
    <3>2. CASE c \notin Array
      <4>1. InsertOrReplace(c, s, rest)
        BY <3>2 DEF FillSlot
      <4>2. EnsureCapacity(c, Len(slots[c]) + 1) /\ AddSlot(c, s) /\ Push(rest)
        BY <1>16, <3>2, <4>1 DEF InsertOrReplace
      <4>. QED BY <1>13, <4>2 DEF EnsureCapacity
    <3>. QED BY <3>1, <3>2
  <2>2. todo' = rest
    BY <1>2, <1>11, <2>1 DEF Push
  <2>3. /\ capacity' \in [Collection -> Nat] /\ buffers' \in [Collection -> Nat]
        /\ Len(slots[c]) + 1 <= capacity'[c]
        /\ buffers'[c] = (IF capacity'[c] > 0 THEN 1 ELSE 0)
        /\ \A d \in Collection \ {c} : capacity'[d] = capacity[d] /\ buffers'[d] = buffers[d]
    <3>1. capacity \in [Collection -> Nat] /\ buffers \in [Collection -> Nat]
      BY TypeFacts DEF IInv
    <3>2. buffers[c] = (IF capacity[c] > 0 THEN 1 ELSE 0)
      BY <1>2, <1>12 DEF StoreOK
    <3>. QED BY <1>13, <2>1, <3>1, <3>2 DEF Fits
  <2>4. /\ todo' \in Seq(Frame) /\ \A g \in Range(todo) \cup Range(todo') : g.op \notin BusyOps
        /\ \A x \in Object : Occ(todo', Owning(x)) = Occ(todo, Owning(x))
    BY <1>2, <1>10, <1>11, <2>2 DEF BusyOps
  <2>5. c \in Dictionary => FindIndex(c, s.key) = {}
    BY <1>16, ObjectsDistinct
  <2>6. TypeOK' /\ Balanced' /\ StorageOK' /\ NoFalseAlarm' /\ Kept \subseteq Kept'
    BY <1>2, <1>7, <1>8, <2>1, <2>3, <2>4, <2>5, InsertKeeps
  <2>7. /\ rc' = [o \in Object |-> rc[o] + Retained(s, o)] /\ held' = held /\ life' = life
        /\ slots' = [slots EXCEPT ![c] = Append(slots[c], s)]
    BY <2>1 DEF AddSlot
  <2>8. rc'[c] = 1
    <3>1. Retained(s, c) = 0
      BY <1>9 DEF Retained
    <3>. QED BY <1>2, <2>7, <3>1 DEF Object
  <2>9. Len(slots'[c]) + Len(m) <= capacity'[c]
    <3>1. slots[c] \in Seq(Slot) /\ slots'[c] = Append(slots[c], s)
      BY <2>7, TypeFacts DEF IInv
    <3>2. Len(slots'[c]) = Len(slots[c]) + 1
      BY <1>7, <3>1, AppendProperties
    <3>3. Len(slots'[c]) = n + 1 /\ capacity'[c] = q
      BY <2>1, <3>2
    <3>. QED BY <1>18, <3>3
  <2>10. FrameOK(f)'
    BY <1>14, <2>6, <2>7, <2>8, <2>9
  <2>11. IInv'
    BY <1>11, <2>2, <2>6, <2>10 DEF IInv, FramesOK
  <2>12. Inserted(c, s)
    <3>1. Owned[c] = slots[c] /\ Owned' = [Owned EXCEPT ![c] = Append(slots[c], s)]
      BY <1>2, <1>7, <1>12, <2>1, <2>4, AddOwned
    <3>2. Building' = Building
      BY <1>1, <1>2, <1>10, <1>11, <2>2, BuildingAre DEF CreatorOps
    <3>. QED BY <1>2, <1>7, <1>8, <1>16, <1>19, <2>1, <3>1, <3>2 DEF Inserted, AddSlot
  <2>. QED BY <1>7, <2>11, <2>12
<1>17. c \in Array \/ c \in Dictionary
  BY DEF Collection
<1>. QED BY <1>15, <1>16, <1>17

\* The slots become what the collection owned while a slot was to be written.
LEMMA WriteKeeps ==
    ASSUME IInv, todo # <<>>, Now.op \in WritingOps,
           NEW c \in Collection, c = Now.obj, NEW s \in Seq(Slot), Owned[c] = s,
           slots' = [slots EXCEPT ![c] = s], Len(s) <= Len(slots[c]),
           \A i \in DOMAIN s : s[i].key = NULL <=> c \in Array,
           c \in Dictionary => \A i, j \in DOMAIN s : i # j => ~CFEqual(s[i].key, s[j].key),
           Push(<<>>), UNCHANGED <<life, rc, capacity, buffers, mutable, held, aborted>>
    PROVE  IInv' /\ Owned' = Owned
<1>. DEFINE td == Tail(todo)
<1>1. /\ todo \in Seq(Frame) /\ td \in Seq(Frame) /\ StackOK(td) /\ Now \in Frame
      /\ Range(todo) = {Now} \cup Range(td) /\ Range(td) \subseteq Frame
      /\ Now \in Range(todo) /\ FrameOK(Now)
      /\ \A f \in Range(td) : f.op \notin MutatorOps
  BY NowFacts
<1>2. \A f \in Range(td) : f.op \notin WritingOps
  <2>1. todo \in Seq(Frame) /\ StackOK(todo) /\ Head(todo).op \in WritingOps
    BY <1>1 DEF IInv, Now
  <2>. QED BY <2>1, StackTop
<1>3. /\ life' = life /\ rc' = rc /\ capacity' = capacity /\ buffers' = buffers
      /\ mutable' = mutable /\ held' = held /\ aborted' = aborted
  OBVIOUS
<1>4. todo' = td
  BY <1>1, PushShapes DEF Push
<1>. HIDE DEF td
<1>5. life[c] = "live" /\ Now.op \notin {"finalize", "free", "release", "reserve", "fill"}
  BY <1>1, PieceLife DEF WritingOps
<1>6. \A f \in Range(td) : f.obj = c => f.op \notin BusyOps /\ f.op \notin {"free", "reserve"}
  <2>1. ASSUME NEW f \in Range(td), f.obj = c, f.op \in {"finalize", "free"} PROVE FALSE
    BY <1>1, <1>5, <2>1, PieceLife
  <2>2. ASSUME NEW f \in Range(td), f.obj = c, f.op = "reserve" PROVE FALSE
    <3>1. slots[c] = <<>>
      BY <1>1, <2>2, PiecesTypedIn DEF FrameOK
    <3>2. Now.index \in DOMAIN slots[c]
      BY <1>1 DEF FrameOK
    <3>. QED BY <3>1, <3>2
  <2>. QED BY <1>2, <2>1, <2>2 DEF BusyOps, WritingOps
<1>7. /\ slots' \in [Collection -> Seq(Slot)] /\ slots'[c] = s
      /\ \A d \in Collection \ {c} : slots'[d] = slots[d]
  BY TypeFacts DEF IInv
<1>8. TypeOK'
  BY <1>1, <1>3, <1>4, <1>7 DEF IInv, TypeOK
<1>9. Owned' = Owned
  <2>1. Owned'[c] = s
    BY <1>3, <1>4, <1>5, <1>6, <1>7, OwnedIdleNext
  <2>2. ASSUME NEW d \in Collection \ {c} PROVE Owned'[d] = Owned[d]
    <3>1. \A f : f.op \in BusyOps /\ f.obj = d => (f \in Range(todo) <=> f \in Range(todo'))
      BY <1>1, <1>4
    <3>. QED BY <1>3, <1>7, <3>1, OwnedKept
  <2>3. \A d \in Collection : Owned'[d] = Owned[d]
    BY <2>1, <2>2
  <2>. QED BY <2>3, OwnedDomain
<1>10. Balanced'
  <2>1. ASSUME NEW x \in Object
        PROVE  \E n \in {-1, 0, 1, 2} :
                   /\ rc'[x] = rc[x] + n
                   /\ RefCount(held', Owned', todo', x) = RefCount(held, Owned, todo, x) + n
                   /\ n > 0 => life[x] = "live"
    <3>1. Occ(todo', Owning(x)) = Occ(todo, Owning(x))
      <4>1. Occ(todo, Owning(x)) = Occ(td, Owning(x)) + Owes(Now, x)
            /\ Occ(td, Owning(x)) \in Nat
        BY <1>1, OwesTop DEF td, Now
      <4>2. Owes(Now, x) = 0
        BY <1>5 DEF Owes, OwningOps
      <4>. QED BY <1>4, <4>1, <4>2
    <3>2. RefCount(held', Owned', todo', x) = RefCount(held, Owned, todo, x)
      BY <1>3, <1>9, <3>1 DEF RefCount
    <3>3. RefCount(held, Owned, todo, x) \in Nat /\ rc[x] \in Nat
      BY CountFacts
    <3>4. rc'[x] = rc[x] + 0 /\ ~(0 > 0)
          /\ RefCount(held', Owned', todo', x) = RefCount(held, Owned, todo, x) + 0
      BY <1>3, <3>2, <3>3
    <3>. QED BY <3>4
  <2>2. held' \in [Object -> Nat] /\ Owned' \in [Collection -> Seq(Slot)]
    BY <1>3, <1>9, OwnedTyped, TypeFacts DEF IInv
  <2>. QED BY <1>1, <1>3, <1>4, <2>1, <2>2, CountStep
<1>11. StorageOK'
  <2>1. ASSUME NEW d \in Collection
        PROVE  (\E f \in Range(todo) : f.op = "finalize" /\ f.obj = d)
                 <=> (\E f \in Range(todo') : f.op = "finalize" /\ f.obj = d)
    BY <1>1, <1>4, <1>5
  <2>2. ASSUME NEW d \in Collection \ {c} PROVE StoreOK(d)'
    BY <1>3, <1>7, <2>1, <2>2, StoreSame DEF IInv, StorageOK
  <2>3. StoreOK(c)'
    <3>1. CollectionOK(c)'
      BY <1>3, <1>5, <1>7 DEF CollectionOK
    <3>2. buffers'[c] = (IF capacity'[c] > 0 THEN 1 ELSE 0) /\ Len(slots[c]) <= capacity[c]
      BY <1>3, <1>5 DEF IInv, StorageOK, StoreOK
    <3>3. Len(s) \in Nat /\ Len(slots[c]) \in Nat /\ capacity[c] \in Nat
      BY TypeFacts, LenProperties DEF IInv
    <3>. PICK a \in Nat : a = Len(s)
      BY <3>3
    <3>. PICK b \in Nat : b = Len(slots[c])
      BY <3>3
    <3>. PICK q \in Nat : q = capacity[c]
      BY <3>3
    <3>4. a <= b /\ b <= q
      BY <3>2
    <3>5. a <= q
      BY <3>4
    <3>6. Len(slots'[c]) <= capacity'[c]
      BY <1>3, <1>7, <3>5
    <3>. QED BY <1>3, <1>5, <1>7, <3>1, <3>2, <3>6 DEF StoreOK
  <2>. QED BY <2>2, <2>3 DEF StorageOK
<1>12. FramesOK'
  <2>. DEFINE P == Range(td)
  <2>1. P \subseteq Range(todo) /\ P \subseteq Range(todo') /\ \A f \in P : f.op \notin MutatorOps
    BY <1>1, <1>4
  <2>2. \A f \in Range(todo) : f.op = "fill" => f \in P
    BY <1>1, <1>5
  <2>3. Kept \subseteq Kept'
    BY <1>3, <1>9, KeptSame
  <2>4. ASSUME NEW f \in P
        PROVE  /\ f.op = "free" => life'[f.obj] = "dying"
               /\ f.op \in {"finalize", "reserve"} => slots'[f.obj] = slots[f.obj]
               /\ f.op \in WritingOps => DOMAIN slots'[f.obj] = DOMAIN slots[f.obj]
               /\ f.op = "fill" => /\ Len(slots'[f.obj]) <= Len(slots[f.obj])
                                   /\ capacity'[f.obj] = capacity[f.obj]
               /\ f.op \in CreatorOps => life'[f.obj] = "live" /\ rc'[f.obj] = rc[f.obj]
    <3>1. f \in Range(todo) /\ f \in Frame
      BY <1>1
    <3>2. f.op \in {"finalize", "reserve", "fill"} => f.obj \in Collection
      BY <3>1, FrameFacts
    <3>3. f.op \in {"finalize", "reserve"} => f.obj # c
      BY <1>6 DEF BusyOps
    <3>4. f.op = "fill" => Len(slots'[f.obj]) <= Len(slots[f.obj])
      <4>1. CASE f.obj = c
        BY <1>7, <4>1
      <4>2. CASE f.obj # c
        <5>. SUFFICES ASSUME f.op = "fill" PROVE Len(slots'[f.obj]) <= Len(slots[f.obj])
          OBVIOUS
        <5>1. f.obj \in Collection /\ slots'[f.obj] = slots[f.obj]
          BY <1>7, <3>2, <4>2
        <5>2. Len(slots[f.obj]) \in Nat
          BY <5>1, TypeFacts, LenProperties DEF IInv
        <5>. QED BY <5>1, <5>2
      <4>. QED BY <4>1, <4>2
    <3>5. f.op \in CreatorOps => life[f.obj] = "live"
      BY <3>1, CreatorFacts
    <3>6. f.op = "free" => life[f.obj] = "dying"
      BY <3>1, PieceLife
    <3>. QED BY <1>2, <1>3, <1>7, <3>2, <3>3, <3>4, <3>5, <3>6
  <2>5. \A f \in P : FrameOK(f)'
    <3>. HIDE DEF P
    <3>. QED BY <1>3, <1>7, <2>1, <2>2, <2>3, <2>4, FramesKept
  <2>. QED BY <1>4, <2>5 DEF FramesOK
<1>. QED BY <1>1, <1>3, <1>4, <1>8, <1>9, <1>10, <1>11, <1>12 DEF IInv, NoFalseAlarm

\* The slots of the collection whose slot is written.
LEMMA WriteFacts ==
    ASSUME IInv, todo # <<>>, Now.op \in WritingOps
    PROVE  /\ Now.obj \in Collection /\ StoreOK(Now.obj) /\ life[Now.obj] = "live"
           /\ slots[Now.obj] \in Seq(Slot) /\ Len(slots[Now.obj]) \in Nat
           /\ DOMAIN slots[Now.obj] = 1..Len(slots[Now.obj])
           /\ Now.index \in 1..Len(slots[Now.obj])
           /\ \A i \in DOMAIN slots[Now.obj] :
                  slots[Now.obj][i].key = NULL <=> Now.obj \in Array
           /\ Now.op = "shift" => Owned[Now.obj] = Without(slots[Now.obj], Now)
           /\ Now.op = "store" => Owned[Now.obj] = Stored(slots[Now.obj], Now)
<1>1. Now \in Range(todo) /\ Now \in Frame /\ FrameOK(Now)
  BY NowFacts
<1>2. Now.obj \in Collection
  BY <1>1, FrameFacts DEF WritingOps
<1>3. slots[Now.obj] \in Seq(Slot)
  BY <1>2, TypeFacts DEF IInv
<1>4. DOMAIN slots[Now.obj] = 1..Len(slots[Now.obj]) /\ Len(slots[Now.obj]) \in Nat
  BY <1>3, LenProperties
<1>5. Now.index \in DOMAIN slots[Now.obj]
  BY <1>1 DEF FrameOK
<1>6. life[Now.obj] = "live"
  BY <1>1, PieceLife
<1>7. StoreOK(Now.obj)
  BY <1>2 DEF IInv, StorageOK
<1>8. \A i \in DOMAIN slots[Now.obj] : slots[Now.obj][i].key = NULL <=> Now.obj \in Array
  BY <1>7 DEF StoreOK, CollectionOK
<1>9. /\ Now.op = "shift" => Owned[Now.obj] = Without(slots[Now.obj], Now)
      /\ Now.op = "store" => Owned[Now.obj] = Stored(slots[Now.obj], Now)
  BY <1>1, OwnedBusy DEF BusyOps, WritingOps
<1>. QED BY <1>2, <1>3, <1>4, <1>5, <1>6, <1>7, <1>8, <1>9

LEMMA ShiftDownKeeps == IInv /\ ShiftDown => IInv' /\ Owned' = Owned
<1>. SUFFICES ASSUME IInv, ShiftDown PROVE IInv' /\ Owned' = Owned
  OBVIOUS
<1>1. todo # <<>> /\ Now.op = "shift" /\ Now.op \in WritingOps
  BY DEF ShiftDown, Running, WritingOps
<1>. PICK c \in Collection : c = Now.obj
  BY <1>1, WriteFacts
<1>. PICK z \in Seq(Slot) : z = slots[c]
  BY <1>1, WriteFacts
<1>. PICK i \in 1..Len(z) : i = Now.index
  BY <1>1, WriteFacts
<1>2. /\ StoreOK(c) /\ Len(z) \in Nat /\ DOMAIN z = 1..Len(z)
      /\ \A j \in DOMAIN z : z[j].key = NULL <=> c \in Array
      /\ Owned[c] = RemoveAt(z, i)
  BY <1>1, WriteFacts DEF Without
<1>. PICK s : s = RemoveAt(z, i)
  OBVIOUS
<1>3. /\ s \in Seq(Slot) /\ Len(s) = Len(z) - 1 /\ DOMAIN s = 1..(Len(z) - 1)
      /\ \A j \in 1..(Len(z) - 1) : s[j] = IF j < i THEN z[j] ELSE z[j+1]
  BY RemoveAtProperties
<1>4. slots' = [slots EXCEPT ![c] = s]
  BY DEF ShiftDown
<1>. PICK n \in Nat : n = Len(z)
  BY <1>2
<1>5. Len(s) <= Len(z)
  <2>1. Len(s) = n - 1 /\ n - 1 <= n
    BY <1>3
  <2>. QED BY <2>1
<1>6. ASSUME NEW j \in DOMAIN s
      PROVE  \E k \in DOMAIN z : s[j] = z[k] /\ k = IF j < i THEN j ELSE j + 1
  <2>1. j \in 1..(n - 1)
    BY <1>3
  <2>2. j \in 1..n /\ j + 1 \in 1..n
    BY <2>1
  <2>3. s[j] = IF j < i THEN z[j] ELSE z[j+1]
    BY <1>3, <2>1
  <2>. QED BY <1>2, <2>2, <2>3
<1>7. \A j \in DOMAIN s : s[j].key = NULL <=> c \in Array
  BY <1>2, <1>6
<1>8. ASSUME c \in Dictionary, NEW j \in DOMAIN s, NEW k \in DOMAIN s, j # k
      PROVE  ~CFEqual(s[j].key, s[k].key)
  <2>1. PICK a \in DOMAIN z : s[j] = z[a] /\ a = IF j < i THEN j ELSE j + 1
    BY <1>6
  <2>2. PICK b \in DOMAIN z : s[k] = z[b] /\ b = IF k < i THEN k ELSE k + 1
    BY <1>6
  <2>3. j \in Int /\ k \in Int /\ i \in Int
    BY <1>2, <1>3
  <2>4. a # b
    BY <1>8, <2>1, <2>2, <2>3
  <2>. QED BY <1>2, <1>8, <2>1, <2>2, <2>4 DEF StoreOK
<1>9. Push(<<>>) /\ UNCHANGED <<life, rc, capacity, buffers, mutable, held, aborted>>
  BY DEF ShiftDown
<1>10. Owned[c] = s
  BY <1>2
<1>11. c \in Dictionary => \A j, k \in DOMAIN s : j # k => ~CFEqual(s[j].key, s[k].key)
  BY <1>8
<1>. QED BY <1>1, <1>3, <1>4, <1>5, <1>7, <1>9, <1>10, <1>11, WriteKeeps

LEMMA StoreValueKeeps == IInv /\ StoreValue => IInv' /\ Owned' = Owned
<1>. SUFFICES ASSUME IInv, StoreValue PROVE IInv' /\ Owned' = Owned
  OBVIOUS
<1>1. todo # <<>> /\ Now.op = "store" /\ Now.op \in WritingOps
  BY DEF StoreValue, Running, WritingOps
<1>. PICK c \in Collection : c = Now.obj
  BY <1>1, WriteFacts
<1>. PICK z \in Seq(Slot) : z = slots[c]
  BY <1>1, WriteFacts
<1>. PICK i \in 1..Len(z) : i = Now.index
  BY <1>1, WriteFacts
<1>. PICK v \in Object : v = Now.value
  <2>1. Now \in Frame
    BY <1>1, NowFacts
  <2>. QED BY <1>1, <2>1, FrameFacts
<1>2. /\ StoreOK(c) /\ Len(z) \in Nat /\ DOMAIN z = 1..Len(z)
      /\ \A j \in DOMAIN z : z[j].key = NULL <=> c \in Array
      /\ Owned[c] = [z EXCEPT ![i].value = v]
  BY <1>1, WriteFacts DEF Stored
<1>. PICK s : s = [z EXCEPT ![i].value = v]
  OBVIOUS
<1>3. /\ s \in Seq(Slot) /\ DOMAIN s = DOMAIN z /\ \A j \in DOMAIN z : s[j].key = z[j].key
      /\ Len(s) = Len(z)
  <2>1. s \in Seq(Slot)
    BY CollectionsFinite, RefsPut
  <2>2. DOMAIN s = DOMAIN z
    OBVIOUS
  <2>3. Len(s) = Len(z)
    BY <2>1, <2>2, LenProperties
  <2>4. ASSUME NEW j \in DOMAIN z PROVE s[j].key = z[j].key
    <3>1. z[j] \in Slot
      BY <1>2, LenProperties
    <3>. QED BY <3>1 DEF Slot
  <2>. QED BY <2>1, <2>2, <2>3, <2>4
<1>4. slots' = [slots EXCEPT ![c] = s]
  <2>1. slots' = [slots EXCEPT ![c][i].value = v]
    BY DEF StoreValue
  <2>. QED BY <2>1
<1>5. Len(s) <= Len(z)
  <2>. PICK n \in Nat : n = Len(z)
    BY <1>2
  <2>1. n <= n
    OBVIOUS
  <2>. QED BY <1>3, <2>1
<1>6. \A j \in DOMAIN s : s[j].key = NULL <=> c \in Array
  BY <1>2, <1>3
<1>7. c \in Dictionary => \A j, k \in DOMAIN s : j # k => ~CFEqual(s[j].key, s[k].key)
  <2>1. c \in Dictionary => \A j, k \in DOMAIN z : j # k => ~CFEqual(z[j].key, z[k].key)
    BY <1>2 DEF StoreOK
  <2>. QED BY <1>3, <2>1
<1>8. Push(<<>>) /\ UNCHANGED <<life, rc, capacity, buffers, mutable, held, aborted>>
  BY DEF StoreValue
<1>9. Owned[c] = s
  BY <1>2
<1>. QED BY <1>1, <1>3, <1>4, <1>5, <1>6, <1>7, <1>8, <1>9, WriteKeeps

\* Every piece of a call.
LEMMA StepKeeps == IInv /\ Step => IInv'
BY ReleaseSharedKeeps, ReleaseLastKeeps, FinalizeElementKeeps, FinalizeBufferKeeps, FreeKeeps,
   SetValueKeeps, AppendValueKeeps, GrowAbortsKeeps, StoreValueKeeps, ShiftDownKeeps,
   ReserveRoomKeeps, ReserveFailsKeeps, FillSlotKeeps, FillFailsKeeps, ReturnNewKeeps
   DEF Step

-----------------------------------------------------------------------------
(* The client.                                                             *)

\* Between two calls every live collection owns its slots, and what the client may
\* use is what it keeps.
LEMMA IdleFacts ==
    ASSUME IInv, todo = <<>>
    PROVE  /\ Range(todo) = {} /\ \A x \in Object : Occ(todo, Owning(x)) = 0
           /\ \A c \in Collection : Owned[c] = IF life[c] = "live" THEN slots[c] ELSE <<>>
           /\ Usable \subseteq Kept
           /\ \A o \in Usable : o \in Object /\ life[o] = "live"
<1>1. Range(todo) = {} /\ \A x \in Object : Occ(todo, Owning(x)) = 0
  BY NothingLeft
<1>2. ASSUME NEW c \in Collection
      PROVE  Owned[c] = IF life[c] = "live" THEN slots[c] ELSE <<>>
  BY <1>1, OwnedIdle
<1>. DEFINE H == {o \in Object : held[o] > 0}
            contents == [c \in Collection |-> Members(c)]
<1>3. Kept \in SUBSET Object /\ H \subseteq Kept
  BY KeptFacts
<1>4. ASSUME NEW c \in Kept \cap Collection PROVE contents[c] \subseteq Kept
  <2>1. life[c] = "live" /\ InSlots(Owned[c]) \subseteq Kept
    BY KeptFacts
  <2>2. Owned[c] = slots[c]
    BY <1>2, <2>1
  <2>3. Members(c) = InSlots(slots[c])
    BY DEF Members, InSlots
  <2>. QED BY <2>1, <2>2, <2>3
<1>5. Usable = Reachable(H, contents)
  BY DEF Usable
<1>6. Closed(Kept, H, contents)
  BY <1>3, <1>4 DEF Closed
<1>. HIDE DEF H, contents
<1>7. Usable \subseteq Kept
  BY <1>3, <1>5, <1>6, ReachableLeast
<1>. QED BY <1>1, <1>2, <1>7, KeptFacts

\* Between two calls a reference of the client comes or goes.
LEMMA HeldChanges ==
    ASSUME IInv, todo = <<>>, life' = life, slots' = slots, capacity' = capacity,
           buffers' = buffers, mutable' = mutable, aborted' = aborted,
           todo' \in Seq(Frame), \A f \in Range(todo') : f.op \notin BusyOps,
           held' \in [Object -> 0..MaxHeld], rc' \in [Object -> Nat],
           \A x \in Object : \E p, q \in Int :
               /\ held'[x] = held[x] + p /\ Occ(todo', Owning(x)) = q
               /\ rc'[x] = rc[x] + (p + q) /\ p + q \in {-1, 0, 1, 2}
               /\ p + q > 0 => life[x] = "live"
    PROVE  TypeOK' /\ Balanced' /\ StorageOK' /\ NoFalseAlarm'
<1>1. Range(todo) = {} /\ \A x \in Object : Occ(todo, Owning(x)) = 0
  BY IdleFacts
<1>2. Owned' = Owned
  BY <1>1, OwnedSame
<1>3. Owned' \in [Collection -> Seq(Slot)] /\ held' \in [Object -> Nat]
  <2>1. 0..MaxHeld \subseteq Nat
    BY BoundsPositive
  <2>. QED BY <1>2, <2>1, OwnedTyped DEF IInv
<1>4. TypeOK'
  BY DEF IInv, TypeOK
<1>5. ASSUME NEW x \in Object
      PROVE  \E n \in {-1, 0, 1, 2} :
                 /\ rc'[x] = rc[x] + n
                 /\ RefCount(held', Owned', todo', x) = RefCount(held, Owned, todo, x) + n
                 /\ n > 0 => life[x] = "live"
  <2>1. PICK p \in Int, q \in Int :
               /\ held'[x] = held[x] + p /\ Occ(todo', Owning(x)) = q
               /\ rc'[x] = rc[x] + (p + q) /\ p + q \in {-1, 0, 1, 2}
               /\ p + q > 0 => life[x] = "live"
    OBVIOUS
  <2>. DEFINE k == SlotRefs(Owned, x)
              h == held[x]
  <2>2. k \in Nat /\ h \in Nat
    BY CountFacts
  <2>3. RefCount(held', Owned', todo', x) = (h + p) + k + q
    BY <1>2, <2>1 DEF RefCount
  <2>4. RefCount(held, Owned, todo, x) = h + k + 0
    BY <1>1 DEF RefCount
  <2>. HIDE DEF k, h
  <2>5. RefCount(held', Owned', todo', x) = RefCount(held, Owned, todo, x) + (p + q)
    BY <2>2, <2>3, <2>4
  <2>. QED BY <2>1, <2>5
<1>6. Balanced'
  BY <1>3, <1>5, CountStep
<1>7. StorageOK'
  <2>1. ASSUME NEW c \in Collection
        PROVE  (\E f \in Range(todo) : f.op = "finalize" /\ f.obj = c)
                 <=> (\E f \in Range(todo') : f.op = "finalize" /\ f.obj = c)
    BY <1>1 DEF BusyOps
  <2>. QED BY <2>1, StorageSame DEF IInv
<1>. QED BY <1>4, <1>6, <1>7 DEF IInv, NoFalseAlarm

LEMMA CallRetainKeeps == IInv /\ todo = <<>> /\ CallRetain => IInv'
<1>. SUFFICES ASSUME IInv, todo = <<>>, CallRetain PROVE IInv'
  OBVIOUS
<1>1. PICK o \in Usable :
        /\ held[o] < MaxHeld
        /\ held' = [held EXCEPT ![o] = @ + 1] /\ rc' = [rc EXCEPT ![o] = @ + 1]
        /\ Call(<<>>) /\ UNCHANGED life
  BY DEF CallRetain
<1>2. o \in Object /\ life[o] = "live"
  BY IdleFacts
<1>3. /\ todo' = <<>> /\ life' = life /\ slots' = slots /\ capacity' = capacity
      /\ buffers' = buffers /\ mutable' = mutable /\ aborted' = aborted
  BY <1>1 DEF Call, storage
<1>4. /\ todo' \in Seq(Frame) /\ Range(todo') = {} /\ StackOK(todo')
      /\ \A x \in Object : Occ(todo', Owning(x)) = 0
  BY <1>3, NothingLeft
<1>5. held' \in [Object -> 0..MaxHeld] /\ rc' \in [Object -> Nat]
  <2>1. held[o] \in 0..MaxHeld /\ MaxHeld \in Nat /\ rc[o] \in Nat
    BY <1>2, TypeFacts, BoundsPositive DEF IInv
  <2>2. held[o] + 1 \in 0..MaxHeld /\ rc[o] + 1 \in Nat
    BY <1>1, <2>1
  <2>3. held \in [Object -> 0..MaxHeld] /\ rc \in [Object -> Nat]
    BY TypeFacts DEF IInv
  <2>. QED BY <1>1, <2>2, <2>3
<1>6. ASSUME NEW x \in Object
      PROVE  \E p, q \in Int :
               /\ held'[x] = held[x] + p /\ Occ(todo', Owning(x)) = q
               /\ rc'[x] = rc[x] + (p + q) /\ p + q \in {-1, 0, 1, 2}
               /\ p + q > 0 => life[x] = "live"
  <2>1. held[x] \in Nat /\ rc[x] \in Nat /\ Occ(todo', Owning(x)) = 0
    BY <1>4, CountFacts
  <2>2. CASE x = o
    <3>1. /\ held'[x] = held[x] + 1 /\ rc'[x] = rc[x] + (1 + 0)
      BY <1>1, <1>2, <2>1, <2>2, TypeFacts DEF IInv
    <3>. QED BY <1>2, <2>1, <2>2, <3>1
  <2>3. CASE x # o
    <3>1. held'[x] = held[x] + 0 /\ rc'[x] = rc[x] + (0 + 0)
      BY <1>1, <2>1, <2>3, TypeFacts DEF IInv
    <3>. QED BY <2>1, <3>1
  <2>. QED BY <2>2, <2>3
<1>7. TypeOK' /\ Balanced' /\ StorageOK' /\ NoFalseAlarm'
  BY <1>3, <1>4, <1>5, <1>6, HeldChanges
<1>. QED BY <1>4, <1>7 DEF IInv, FramesOK

LEMMA CallReleaseKeeps == IInv /\ todo = <<>> /\ CallRelease => IInv'
<1>. SUFFICES ASSUME IInv, todo = <<>>, CallRelease PROVE IInv'
  OBVIOUS
<1>1. PICK o \in Object :
        /\ held[o] > 0 /\ held' = [held EXCEPT ![o] = @ - 1]
        /\ Call(<<Release(o)>>) /\ UNCHANGED <<life, rc>>
  BY DEF CallRelease
<1>. PICK f \in Frame : f = Release(o)
  BY PiecesTyped
<1>2. f.op = "release" /\ f.obj = o
  BY DEF Release
<1>3. /\ todo' = <<f>> /\ life' = life /\ rc' = rc /\ slots' = slots /\ capacity' = capacity
      /\ buffers' = buffers /\ mutable' = mutable /\ aborted' = aborted
  BY <1>1 DEF Call, storage
<1>4. /\ todo' \in Seq(Frame) /\ Range(todo') = {f} /\ StackOK(todo')
      /\ \A x \in Object : Occ(todo', Owning(x)) = Owes(f, x)
  BY <1>2, <1>3, OnePiece DEF WritingOps
<1>5. held' \in [Object -> 0..MaxHeld] /\ rc' \in [Object -> Nat]
  <2>1. held[o] \in 0..MaxHeld /\ MaxHeld \in Nat
    BY TypeFacts, BoundsPositive DEF IInv
  <2>2. held[o] - 1 \in 0..MaxHeld
    BY <1>1, <2>1
  <2>3. held \in [Object -> 0..MaxHeld] /\ rc \in [Object -> Nat]
    BY TypeFacts DEF IInv
  <2>. QED BY <1>1, <1>3, <2>2, <2>3
<1>6. ASSUME NEW x \in Object
      PROVE  \E p, q \in Int :
               /\ held'[x] = held[x] + p /\ Occ(todo', Owning(x)) = q
               /\ rc'[x] = rc[x] + (p + q) /\ p + q \in {-1, 0, 1, 2}
               /\ p + q > 0 => life[x] = "live"
  <2>1. held[x] \in Nat /\ rc[x] \in Nat /\ Occ(todo', Owning(x)) = Owes(f, x)
        /\ rc'[x] = rc[x]
    BY <1>3, <1>4, CountFacts
  <2>2. CASE x = o
    <3>1. held'[x] = held[x] - 1
      BY <1>1, <2>1, <2>2, TypeFacts DEF IInv
    <3>2. Owes(f, x) = 1
      BY <1>2, <2>2 DEF Owes, OwningOps
    <3>3. /\ held'[x] = held[x] + (-1) /\ Occ(todo', Owning(x)) = 1
          /\ rc'[x] = rc[x] + ((-1) + 1) /\ (-1) + 1 \in {-1, 0, 1, 2} /\ ~((-1) + 1 > 0)
      BY <2>1, <3>1, <3>2
    <3>4. -1 \in Int /\ 1 \in Int
      OBVIOUS
    <3>. QED BY <3>3, <3>4
  <2>3. CASE x # o
    <3>1. held'[x] = held[x] + 0 /\ rc'[x] = rc[x] + (0 + 0)
      BY <1>1, <2>1, <2>3, TypeFacts DEF IInv
    <3>2. Owes(f, x) = 0
      BY <1>2, <2>3 DEF Owes
    <3>. QED BY <2>1, <3>1, <3>2
  <2>. QED BY <2>2, <2>3
<1>7. TypeOK' /\ Balanced' /\ StorageOK' /\ NoFalseAlarm'
  BY <1>2, <1>3, <1>4, <1>5, <1>6, HeldChanges DEF BusyOps
<1>8. FrameOK(f)'
  BY <1>2 DEF FrameOK, MutatorOps, WritingOps
<1>. QED BY <1>4, <1>7, <1>8 DEF IInv, FramesOK

\* A call that begins with one piece, which takes nothing.
LEMMA MutatorBegins ==
    ASSUME IInv, todo = <<>>, NEW f \in Frame, f.op \in MutatorOps,
           f.obj \in Usable \cap mutable, f.slot.value \in Usable,
           IF f.op = "append" THEN f.slot.key = NULL ELSE f.slot.key \in Usable,
           Call(<<f>>), UNCHANGED <<life, rc, held>>
    PROVE  IInv'
<1>1. Usable \subseteq Kept /\ Range(todo) = {} /\ \A x \in Object : Occ(todo, Owning(x)) = 0
  BY IdleFacts
<1>2. /\ todo' = <<f>> /\ life' = life /\ rc' = rc /\ slots' = slots /\ capacity' = capacity
      /\ buffers' = buffers /\ mutable' = mutable /\ held' = held /\ aborted' = aborted
  BY DEF Call, storage
<1>3. /\ todo' \in Seq(Frame) /\ Range(todo') = {f} /\ StackOK(todo')
      /\ \A x \in Object : Occ(todo', Owning(x)) = Owes(f, x)
  BY <1>2, OnePiece DEF WritingOps, MutatorOps
<1>4. \A x \in Object : Occ(todo', Owning(x)) = Occ(todo, Owning(x))
  BY <1>1, <1>3 DEF Owes, OwningOps, MutatorOps
<1>5. \A g \in Range(todo) \cup Range(todo') : g.op \notin BusyOps
  BY <1>1, <1>3 DEF BusyOps, MutatorOps
<1>6. TypeOK' /\ Balanced' /\ StorageOK' /\ NoFalseAlarm' /\ Kept' = Kept
  BY <1>2, <1>3, <1>4, <1>5, QuietStep
<1>7. FrameOK(f)'
  BY <1>1, <1>2, <1>6 DEF FrameOK, MutatorOps, WritingOps
<1>. QED BY <1>3, <1>6, <1>7 DEF IInv, FramesOK

LEMMA CallAppendValueKeeps == IInv /\ todo = <<>> /\ CallAppendValue => IInv'
<1>. SUFFICES ASSUME IInv, todo = <<>>, CallAppendValue PROVE IInv'
  OBVIOUS
<1>1. PICK c \in Array \cap Usable, v \in Usable :
        Mutate(c, <<[op |-> "append", obj |-> c, slot |-> [key |-> NULL, value |-> v]]>>)
  BY DEF CallAppendValue
<1>. DEFINE x == [key |-> NULL, value |-> v]
            a == [op |-> "append", obj |-> c, slot |-> x]
<1>2. x \in Slot /\ x.value = v /\ x.key = NULL
  BY IdleFacts DEF Slot
<1>. HIDE DEF x
<1>3. a \in Frame /\ a.op = "append" /\ a.obj = c /\ a.slot = x
  BY <1>2 DEF Frame
<1>4. Mutate(c, <<a>>)
  BY <1>1 DEF x
<1>. HIDE DEF a
<1>5. CASE MayMutate(c) /\ Call(<<a>>) /\ UNCHANGED <<life, rc, held>>
  BY <1>2, <1>3, <1>5, MutatorBegins DEF MutatorOps, MayMutate
<1>6. CASE Abort("not mutable")
  BY <1>6, AbortKeeps
<1>. QED BY <1>4, <1>5, <1>6 DEF Mutate

LEMMA CallSetValueKeeps == IInv /\ todo = <<>> /\ CallSetValue => IInv'
<1>. SUFFICES ASSUME IInv, todo = <<>>, CallSetValue PROVE IInv'
  OBVIOUS
<1>1. PICK c \in Dictionary \cap Usable, x \in DictionarySlots :
        /\ NULL \notin {x.key, x.value}
        /\ Mutate(c, <<[op |-> "set", obj |-> c, slot |-> x]>>)
  BY DEF CallSetValue
<1>. DEFINE a == [op |-> "set", obj |-> c, slot |-> x]
<1>2. x \in Slot /\ x.value \in Usable /\ x.key \in Usable
  <2>1. x \in [key : (Usable \cap Leaf) \cup {NULL}, value : Usable \cup {NULL}]
        /\ x.key # NULL /\ x.value # NULL
    BY <1>1 DEF DictionarySlots
  <2>. QED BY <2>1, IdleFacts DEF Slot
<1>3. a \in Frame /\ a.op = "set" /\ a.obj = c /\ a.slot = x
  BY <1>2 DEF Frame
<1>4. Mutate(c, <<a>>)
  BY <1>1
<1>. HIDE DEF a
<1>5. CASE MayMutate(c) /\ Call(<<a>>) /\ UNCHANGED <<life, rc, held>>
  BY <1>2, <1>3, <1>5, MutatorBegins DEF MutatorOps, MayMutate
<1>6. CASE Abort("not mutable")
  BY <1>6, AbortKeeps
<1>. QED BY <1>4, <1>5, <1>6 DEF Mutate

\* A call that changes nothing.
LEMMA NothingBegins ==
    ASSUME IInv, todo = <<>>, Call(<<>>), UNCHANGED <<life, rc, held>>
    PROVE  IInv'
<1>1. Range(todo) = {} /\ \A x \in Object : Occ(todo, Owning(x)) = 0
  BY IdleFacts
<1>2. /\ todo' = <<>> /\ life' = life /\ rc' = rc /\ slots' = slots /\ capacity' = capacity
      /\ buffers' = buffers /\ mutable' = mutable /\ held' = held /\ aborted' = aborted
  BY DEF Call, storage
<1>3. /\ todo' \in Seq(Frame) /\ Range(todo') = {} /\ StackOK(todo')
      /\ \A x \in Object : Occ(todo', Owning(x)) = Occ(todo, Owning(x))
  BY <1>1, <1>2, NothingLeft
<1>4. TypeOK' /\ Balanced' /\ StorageOK' /\ NoFalseAlarm'
  BY <1>1, <1>2, <1>3, QuietStep
<1>. QED BY <1>3, <1>4 DEF IInv, FramesOK

\* A removal gives up what the slot refers to and then closes it.
LEMMA RemovalBegins ==
    ASSUME IInv, todo = <<>>, NEW c \in Collection, c \in Usable, NEW i \in DOMAIN slots[c],
           Call(ReleasesOf(c, slots[c][i]) \o <<ShiftAt(c, i)>>), UNCHANGED <<life, rc, held>>
    PROVE  /\ IInv' /\ life[c] = "live" /\ Owned[c] = slots[c]
           /\ Owned' = [Owned EXCEPT ![c] = RemoveAt(slots[c], i)]
           /\ Building' = Building /\ mutable' = mutable
<1>1. /\ Usable \subseteq Kept /\ Range(todo) = {} /\ \A x \in Object : Occ(todo, Owning(x)) = 0
      /\ c \in Object /\ life[c] = "live" /\ Owned[c] = slots[c]
  BY IdleFacts
<1>. PICK z \in Seq(Slot) : z = slots[c]
  BY TypeFacts DEF IInv
<1>2. DOMAIN z = 1..Len(z) /\ Len(z) \in Nat /\ i \in 1..Len(z) /\ i \in Nat
  BY LenProperties
<1>. PICK s \in Slot : s = z[i]
  BY <1>2, LenProperties
<1>3. s.key = NULL <=> c \in Array
  BY DEF IInv, StorageOK, StoreOK, CollectionOK
<1>. PICK f \in Frame : f = ShiftAt(c, i)
  BY <1>2, PiecesTyped
<1>4. f.op = "shift" /\ f.obj = c /\ f.index = i
  BY DEF ShiftAt
<1>. PICK t : t = <<f>>
  OBVIOUS
<1>5. /\ todo' = ReleasesOf(c, s) \o t /\ life' = life /\ rc' = rc /\ slots' = slots
      /\ capacity' = capacity /\ buffers' = buffers /\ mutable' = mutable /\ held' = held
      /\ aborted' = aborted
  BY DEF Call, storage
<1>6. /\ t \in Seq(Frame) /\ Range(t) = {f} /\ StackOK(t)
      /\ \A x \in Object : Occ(t, Owning(x)) = 0
  <2>1. t = <<f>> \o <<>> /\ <<>> \in Seq(Frame) /\ Range(<<>>) = {} /\ StackOK(<<>>)
    BY NothingLeft
  <2>2. t \in Seq(Frame) /\ Range(t) = {f}
    <3>. PICK e \in Seq(Frame) : e = <<>>
      BY <2>1
    <3>1. t = <<f>> \o e /\ Range(e) = {}
      BY <2>1
    <3>2. <<f>> \o e \in Seq(Frame) /\ Range(<<f>> \o e) = {f} \cup Range(e)
      BY ConsProperties, RangeCons
    <3>. QED BY <3>1, <3>2
  <2>3. StackOK(t)
    BY <1>4, <2>1, StackPush DEF MutatorOps, CreatorOps
  <2>4. ASSUME NEW x \in Object PROVE Occ(t, Owning(x)) = 0
    <3>1. Occ(t, Owning(x)) = Occ(<<>>, Owning(x)) + Owes(f, x)
      BY <2>1, OwesPush
    <3>2. Owes(f, x) = 0
      BY <1>4 DEF Owes, OwningOps
    <3>. QED BY <3>1, <3>2, NothingLeft
  <2>. QED BY <2>2, <2>3, <2>4
<1>7. /\ todo' \in Seq(Frame) /\ StackOK(todo')
      /\ \A g \in Range(todo') : g = f \/ g.op = "release"
      /\ f \in Range(todo')
      /\ \A x \in Object : Occ(todo', Owning(x)) = 0 + Retained(s, x)
  <2>1. \A g \in Range(t) : g.op \notin MutatorOps
    BY <1>4, <1>6 DEF MutatorOps
  <2>2. /\ ReleasesOf(c, s) \o t \in Seq(Frame) /\ StackOK(ReleasesOf(c, s) \o t)
        /\ \A g \in Range(ReleasesOf(c, s) \o t) : g \in Range(t) \/ g.op = "release"
        /\ Range(t) \subseteq Range(ReleasesOf(c, s) \o t)
        /\ \A x \in Object : Occ(ReleasesOf(c, s) \o t, Owning(x))
                               = Occ(t, Owning(x)) + Retained(s, x)
    <3>1. t \in Seq(Frame) /\ StackOK(t)
      BY <1>6
    <3>2. /\ ReleasesOf(c, s) \o t \in Seq(Frame) /\ StackOK(ReleasesOf(c, s) \o t)
      BY <1>3, <2>1, <3>1, ReleasesPush
    <3>3. /\ \A g \in Range(ReleasesOf(c, s) \o t) : g \in Range(t) \/ g.op = "release"
          /\ Range(t) \subseteq Range(ReleasesOf(c, s) \o t)
      BY <1>3, <2>1, <3>1, ReleasesPush
    <3>4. \A x \in Object : Occ(ReleasesOf(c, s) \o t, Owning(x))
                               = Occ(t, Owning(x)) + Retained(s, x)
      BY <1>3, <2>1, <3>1, ReleasesPush
    <3>. QED BY <3>2, <3>3, <3>4
  <2>. QED BY <1>5, <1>6, <2>2
<1>8. TypeOK'
  BY <1>5, <1>7 DEF IInv, TypeOK
<1>. PICK r : r = RemoveAt(z, i)
  OBVIOUS
<1>9. r \in Seq(Slot)
  BY <1>2, RemoveAtProperties
<1>10. /\ Owned'[c] = r /\ \A d \in Collection \ {c} : Owned'[d] = Owned[d]
       /\ Owned' = [Owned EXCEPT ![c] = r]
  <2>1. Owned'[c] = Without(slots'[c], f)
    BY <1>4, <1>7, OwnedBusyNext DEF BusyOps
  <2>2. Owned'[c] = r
    BY <1>4, <1>5, <2>1 DEF Without
  <2>3. ASSUME NEW d \in Collection \ {c} PROVE Owned'[d] = Owned[d]
    <3>1. \A g : g.op \in BusyOps /\ g.obj = d => (g \in Range(todo) <=> g \in Range(todo'))
      BY <1>1, <1>4, <1>7 DEF BusyOps
    <3>. QED BY <1>5, <3>1, OwnedKept
  <2>. QED BY <2>2, <2>3, OwnedChange
<1>11. Balanced'
  <2>1. ASSUME NEW x \in Object
        PROVE  \E p, q \in Int :
                 /\ Refs(r, x) = Refs(Owned[c], x) + p
                 /\ Occ(todo', Owning(x)) = Occ(todo, Owning(x)) + q
                 /\ rc'[x] = rc[x] + (p + q) /\ p + q \in {-1, 0, 1, 2}
                 /\ p + q > 0 => life[x] = "live"
    <3>. DEFINE q == Retained(s, x)
                p == 0 - q
                a == Refs(r, x)
    <3>1. Refs(z, x) = a + q
      BY <1>2, RefsRemoveAt
    <3>2. q \in Nat /\ a \in Nat /\ rc[x] \in Nat
      <4>1. Occ(r, Valued(x)) \in Nat /\ Occ(r, Keyed(x)) \in Nat
        BY <1>9, OccNat
      <4>2. a \in Nat
        BY <4>1 DEF Refs
      <4>. QED BY <4>2, RetainedIn, CountFacts
    <3>3. Occ(todo', Owning(x)) = 0 + q /\ Occ(todo, Owning(x)) = 0 /\ rc'[x] = rc[x]
          /\ Refs(Owned[c], x) = Refs(z, x)
      BY <1>1, <1>5, <1>7
    <3>. HIDE DEF q, a
    <3>4. p \in Int /\ q \in Int /\ p + q = 0
      BY <3>2
    <3>5. a = Refs(Owned[c], x) + p
      BY <3>1, <3>2, <3>3
    <3>. HIDE DEF p
    <3>6. Occ(todo', Owning(x)) = Occ(todo, Owning(x)) + q /\ rc'[x] = rc[x] + (p + q)
          /\ p + q \in {-1, 0, 1, 2} /\ ~(p + q > 0)
      BY <3>2, <3>3, <3>4
    <3>. QED BY <3>4, <3>5, <3>6 DEF a
  <2>2. \A x \in Object : life'[x] = "live" <=> life[x] = "live"
    BY <1>5
  <2>. QED BY <1>5, <1>7, <1>9, <1>10, <2>1, <2>2, BalancedBy
<1>12. StorageOK'
  <2>1. ASSUME NEW d \in Collection
        PROVE  (\E g \in Range(todo) : g.op = "finalize" /\ g.obj = d)
                 <=> (\E g \in Range(todo') : g.op = "finalize" /\ g.obj = d)
    BY <1>1, <1>4, <1>7
  <2>. QED BY <1>5, <2>1, StorageSame DEF IInv
<1>13. FrameOK(f)'
  <2>1. Owned' \in [Collection -> Seq(Slot)] /\ c \in Kept
    BY <1>1, <1>9, <1>10, OwnedTyped DEF IInv
  <2>2. c \in Kept'
    BY <1>5, <1>10, <2>1, KeptItself
  <2>3. i \in DOMAIN slots'[c]
    BY <1>2, <1>5
  <2>. QED BY <1>4, <2>2, <2>3 DEF FrameOK, MutatorOps, WritingOps
<1>14. \A g : g.op = "release" => FrameOK(g)'
  BY DEF FrameOK, MutatorOps, WritingOps
<1>15. FramesOK'
  BY <1>7, <1>13, <1>14 DEF FramesOK
<1>16. IInv'
  BY <1>5, <1>7, <1>8, <1>11, <1>12, <1>15 DEF IInv, NoFalseAlarm
<1>17. Building' = Building
  BY <1>1, <1>4, <1>7, BuildingAre DEF CreatorOps
<1>. QED BY <1>1, <1>5, <1>10, <1>16, <1>17

LEMMA CallRemoveValueAtIndexKeeps == IInv /\ todo = <<>> /\ CallRemoveValueAtIndex => IInv'
<1>. SUFFICES ASSUME IInv, todo = <<>>, CallRemoveValueAtIndex PROVE IInv'
  OBVIOUS
<1>1. PICK c \in Array \cap Usable : \E i \in DOMAIN slots[c] :
        Mutate(c, ReleasesOf(c, slots[c][i]) \o <<ShiftAt(c, i)>>)
  BY DEF CallRemoveValueAtIndex
<1>2. PICK i \in DOMAIN slots[c] : Mutate(c, ReleasesOf(c, slots[c][i]) \o <<ShiftAt(c, i)>>)
  BY <1>1
<1>3. CASE MayMutate(c) /\ Call(ReleasesOf(c, slots[c][i]) \o <<ShiftAt(c, i)>>)
           /\ UNCHANGED <<life, rc, held>>
  BY <1>3, RemovalBegins DEF Collection
<1>4. CASE Abort("not mutable")
  BY <1>4, AbortKeeps
<1>. QED BY <1>2, <1>3, <1>4 DEF Mutate

LEMMA CallRemoveValueKeeps == IInv /\ todo = <<>> /\ CallRemoveValue => IInv'
<1>. SUFFICES ASSUME IInv, todo = <<>>, CallRemoveValue PROVE IInv'
  OBVIOUS
<1>1. PICK c \in Dictionary \cap Usable, k \in Leaf \cap Usable :
        Mutate(c, IF FindIndex(c, k) = {} THEN <<>>
                  ELSE LET i == FirstIndex(c, k) IN
                       ReleasesOf(c, slots[c][i]) \o <<ShiftAt(c, i)>>)
  BY DEF CallRemoveValue
<1>2. CASE Abort("not mutable")
  BY <1>2, AbortKeeps
<1>3. CASE FindIndex(c, k) = {} /\ ~Abort("not mutable")
  <2>1. Mutate(c, <<>>)
    BY <1>1, <1>3
  <2>2. Call(<<>>) /\ UNCHANGED <<life, rc, held>>
    BY <1>3, <2>1 DEF Mutate
  <2>. QED BY <2>2, NothingBegins
<1>4. CASE FindIndex(c, k) # {} /\ ~Abort("not mutable")
  <2>. PICK i : i = FirstIndex(c, k)
    OBVIOUS
  <2>1. i \in DOMAIN slots[c]
    BY <1>4, FirstIndexFound
  <2>2. Mutate(c, ReleasesOf(c, slots[c][i]) \o <<ShiftAt(c, i)>>)
    BY <1>1, <1>4
  <2>3. Call(ReleasesOf(c, slots[c][i]) \o <<ShiftAt(c, i)>>) /\ UNCHANGED <<life, rc, held>>
    BY <1>4, <2>2 DEF Mutate
  <2>. QED BY <2>1, <2>3, RemovalBegins DEF Collection
<1>. QED BY <1>2, <1>3, <1>4

\* A call begins to build c.
Begun(c, isMutable) ==
    /\ life[c] = "unborn" /\ life' = [life EXCEPT ![c] = "live"]
    /\ mutable' = IF isMutable THEN mutable \cup {c} ELSE mutable
    /\ held' = held /\ Owned' = Owned /\ Owned[c] = <<>> /\ Building = {} /\ Building' = {c}

\* A collection is born, and the call that builds it holds the reference to it.
LEMMA CreateKeeps ==
    ASSUME IInv, todo = <<>>, NEW c \in Collection, NEW isMutable, NEW room \in Nat,
           NEW l \in Seq(Element), ListOK(c, l), Len(l) <= room,
           Create(c, isMutable, room, l)
    PROVE  IInv' /\ Begun(c, isMutable)
<1>1. Range(todo) = {} /\ \A x \in Object : Occ(todo, Owning(x)) = 0
  BY IdleFacts
<1>. PICK f \in Frame : f = Reserve(c, room, l)
  BY PiecesTyped
<1>2. f.op = "reserve" /\ f.obj = c /\ f.rest = l /\ f.room = room
  BY DEF Reserve
<1>3. /\ life[c] = "unborn" /\ life' = [life EXCEPT ![c] = "live"]
      /\ rc' = [rc EXCEPT ![c] = 1]
      /\ mutable' = IF isMutable THEN mutable \cup {c} ELSE mutable
      /\ todo' = <<f>> /\ slots' = slots /\ capacity' = capacity /\ buffers' = buffers
      /\ held' = held /\ aborted' = aborted
  BY DEF Create
<1>4. /\ todo' \in Seq(Frame) /\ Range(todo') = {f} /\ StackOK(todo')
      /\ \A x \in Object : Occ(todo', Owning(x)) = Owes(f, x)
  BY <1>2, <1>3, OnePiece DEF WritingOps
<1>5. c \in Object /\ life'[c] = "live" /\ rc'[c] = 1
      /\ \A x \in Object \ {c} : life'[x] = life[x] /\ rc'[x] = rc[x]
  BY <1>3, TypeFacts DEF IInv, Object
<1>6. TypeOK'
  <2>1. life' \in [Object -> {"unborn", "live", "dying", "freed"}] /\ rc' \in [Object -> Nat]
    BY <1>3, TypeFacts DEF IInv
  <2>2. mutable' \subseteq Collection
    BY <1>3, TypeFacts DEF IInv
  <2>. QED BY <1>3, <1>4, <2>1, <2>2 DEF IInv, TypeOK
<1>7. slots[c] = <<>> /\ capacity[c] = 0 /\ buffers[c] = 0 /\ life[c] # "live"
  BY <1>3 DEF IInv, StorageOK, StoreOK, CollectionOK
<1>8. \A g \in Range(todo') : g.op \notin BusyOps
  BY <1>2, <1>4 DEF BusyOps
<1>9. Owned' = Owned
  <2>1. ASSUME NEW d \in Collection PROVE Owned'[d] = Owned[d]
    <3>1. Owned[d] = IF life[d] = "live" THEN slots[d] ELSE <<>>
      BY IdleFacts
    <3>2. Owned'[d] = IF life'[d] = "live" THEN slots'[d] ELSE <<>>
      BY <1>8, OwnedIdleNext
    <3>3. CASE d = c
      BY <1>3, <1>5, <1>7, <3>1, <3>2, <3>3
    <3>4. CASE d # c
      BY <1>3, <1>5, <3>1, <3>2, <3>4 DEF Object
    <3>. QED BY <3>3, <3>4
  <2>. QED BY <2>1, OwnedDomain
<1>10. Owned' \in [Collection -> Seq(Slot)] /\ held' \in [Object -> Nat]
  BY <1>3, <1>9, OwnedTyped, TypeFacts DEF IInv
\* Nothing refers to what is not born.
<1>11. RefCount(held, Owned, todo, c) = 0 /\ held[c] = 0
  <2>. DEFINE k == SlotRefs(Owned, c)
              h == held[c]
  <2>1. /\ RefCount(held, Owned, todo, c) = h + k + 0 /\ k \in Nat /\ h \in Nat
        /\ RefCount(held, Owned, todo, c) \in Nat
    BY <1>1, <1>5, CountFacts
  <2>2. ~(RefCount(held, Owned, todo, c) > 0)
    BY <1>5, <1>7, CountFacts
  <2>. HIDE DEF k, h
  <2>3. RefCount(held, Owned, todo, c) = 0 /\ h = 0
    BY <2>1, <2>2
  <2>. QED BY <2>3 DEF h
<1>12. ASSUME NEW x \in Object
       PROVE  /\ life'[x] = "live" => rc'[x] = References(x)'
              /\ References(x)' > 0 => life'[x] = "live"
  <2>. DEFINE k == SlotRefs(Owned, x)
              h == held[x]
  <2>1. k \in Nat /\ h \in Nat /\ rc[x] \in Nat /\ RefCount(held, Owned, todo, x) = h + k + 0
    BY <1>1, CountFacts
  <2>2. RefCount(held', Owned', todo', x) = h + k + Owes(f, x)
    BY <1>3, <1>4, <1>9 DEF RefCount
  <2>. HIDE DEF k, h
  <2>3. CASE x = c
    <3>1. Owes(f, x) = 1
      BY <1>2, <2>3 DEF Owes, OwningOps
    <3>2. RefCount(held', Owned', todo', x) = 1
      BY <1>11, <2>1, <2>2, <2>3, <3>1
    <3>. QED BY <1>4, <1>5, <1>10, <2>3, <3>2, CountIsNext
  <2>4. CASE x # c
    <3>1. Owes(f, x) = 0
      BY <1>2, <2>4 DEF Owes
    <3>2. RefCount(held', Owned', todo', x) = RefCount(held, Owned, todo, x) + 0
      BY <2>1, <2>2, <3>1
    <3>3. life'[x] = "live" <=> life[x] = "live"
      BY <1>5, <2>4
    <3>4. rc'[x] = rc[x] + 0
      BY <1>5, <2>1, <2>4
    <3>. QED BY <1>4, <1>10, <3>2, <3>3, <3>4, CountAt
  <2>. QED BY <2>3, <2>4
<1>13. Balanced'
  BY <1>12 DEF Balanced, CountIsReferences, NothingDangles
<1>14. StorageOK'
  <2>1. ASSUME NEW d \in Collection \ {c} PROVE StoreOK(d)'
    <3>1. /\ StoreOK(d) /\ life'[d] = life[d] /\ slots'[d] = slots[d]
          /\ capacity'[d] = capacity[d] /\ buffers'[d] = buffers[d]
      BY <1>3, <1>5 DEF IInv, StorageOK, Object
    <3>2. (\E g \in Range(todo) : g.op = "finalize" /\ g.obj = d)
             <=> (\E g \in Range(todo') : g.op = "finalize" /\ g.obj = d)
      BY <1>1, <1>2, <1>4
    <3>. QED BY <3>1, <3>2, StoreSame
  <2>2. StoreOK(c)'
    <3>1. slots'[c] = <<>> /\ capacity'[c] = 0 /\ buffers'[c] = 0
      BY <1>3, <1>7
    <3>2. DOMAIN <<>> = {} /\ Len(<<>>) = 0
      OBVIOUS
    <3>3. DOMAIN slots'[c] = {} /\ Len(slots'[c]) <= capacity'[c]
          /\ buffers'[c] = (IF capacity'[c] > 0 THEN 1 ELSE 0)
      BY <3>1, <3>2
    <3>4. CollectionOK(c)'
      BY <1>5, <3>3 DEF CollectionOK
    <3>. QED BY <1>5, <3>3, <3>4 DEF StoreOK
  <2>. QED BY <2>1, <2>2 DEF StorageOK
<1>15. FrameOK(f)'
  <2>1. Kept' = Kept
    BY <1>3, <1>9, KeptSame
  <2>2. ListOK(c, l)'
    BY <2>1 DEF ListOK
  <2>3. BuildingOK(c, l)'
    BY <1>3, <1>5, <1>11, <2>2 DEF BuildingOK
  <2>4. slots'[c] = <<>>
    BY <1>3, <1>7
  <2>. QED BY <1>2, <2>3, <2>4 DEF FrameOK, MutatorOps, WritingOps
<1>16. IInv'
  BY <1>3, <1>4, <1>6, <1>13, <1>14, <1>15 DEF IInv, NoFalseAlarm, FramesOK
<1>17. Building = {} /\ Building' = {c}
  BY <1>1, <1>2, <1>4, BuildingAre DEF CreatorOps
<1>18. Owned[c] = <<>>
  BY <1>7, IdleFacts
<1>. QED BY <1>3, <1>9, <1>16, <1>17, <1>18 DEF Begun

\* A list that the client gives to a creation.
LEMMA ListsOK ==
    ASSUME IInv, todo = <<>>, NEW c \in Collection, NEW S,
           S = ArraySlots \/ (c \in Dictionary /\ S = DictionarySlots),
           NEW l \in SeqOf(S, MaxNew)
    PROVE  l \in Seq(Element) /\ Len(l) \in Nat /\ ListOK(c, l)
<1>1. PICK m \in 0..MaxNew : l \in [1..m -> S]
  BY DEF SeqOf
<1>2. m \in Nat
  BY BoundsPositive
<1>3. Usable \subseteq Kept /\ Usable \subseteq Object
  BY IdleFacts
<1>4. ASSUME NEW x \in S
      PROVE  /\ x \in Element /\ {x.key, x.value} \subseteq Kept \cup {NULL}
             /\ c \in Array => x.key = NULL
  <2>1. CASE S = ArraySlots
    BY <1>3, <2>1 DEF ArraySlots, Element
  <2>2. CASE c \in Dictionary /\ S = DictionarySlots
    BY <1>3, <2>2, ObjectsDistinct DEF DictionarySlots, Element
  <2>. QED BY <2>1, <2>2
<1>5. l \in Seq(Element)
  <2>1. l \in [1..m -> Element]
    BY <1>1, <1>4
  <2>. QED BY <1>2, <2>1
<1>6. ListOK(c, l)
  BY <1>1, <1>4 DEF ListOK
<1>. QED BY <1>5, <1>6, LenProperties

\* The contents of a collection that the client copies.
LEMMA CopiesOK ==
    ASSUME IInv, todo = <<>>, NEW c \in Collection, NEW a \in Collection, a \in Usable,
           c \in Array => a \in Array
    PROVE  slots[a] \in Seq(Element) /\ Len(slots[a]) \in Nat /\ ListOK(c, slots[a])
<1>1. a \in Kept /\ life[a] = "live" /\ Owned[a] = slots[a]
  BY IdleFacts
<1>2. InSlots(slots[a]) \subseteq Kept
  <2>1. InSlots(Owned[a]) \subseteq Kept
    BY <1>1, KeptFacts
  <2>. QED BY <1>1, <2>1
<1>. PICK z \in Seq(Slot) : z = slots[a]
  BY TypeFacts DEF IInv
<1>3. DOMAIN z = 1..Len(z) /\ Len(z) \in Nat /\ \A i \in DOMAIN z : z[i] \in Slot
  BY LenProperties
<1>4. z \in Seq(Element)
  <2>1. Slot \subseteq Element
    BY DEF Slot, Element
  <2>2. z \in [1..Len(z) -> Element]
    <3>1. z \in [1..Len(z) -> Slot]
      BY LenProperties
    <3>. QED BY <2>1, <3>1
  <2>. QED BY <1>3, <2>2
<1>5. ASSUME NEW i \in DOMAIN z
      PROVE  {z[i].key, z[i].value} \subseteq Kept \cup {NULL} /\ (c \in Array => z[i].key = NULL)
  <2>1. z[i].key = NULL <=> a \in Array
    BY DEF IInv, StorageOK, StoreOK, CollectionOK
  <2>2. {z[i].key, z[i].value} \subseteq InSlots(z) \cup {NULL}
    BY DEF InSlots
  <2>. QED BY <1>2, <2>1, <2>2
<1>. QED BY <1>3, <1>4, <1>5 DEF ListOK

LEMMA CreationsKeep ==
    IInv /\ todo = <<>>
    /\ (ArrayCreate \/ DictionaryCreate \/ ArrayCreateCopy \/ DictionaryCreateCopy
        \/ CreateMutable)
    => IInv' /\ \E c \in Collection, m \in BOOLEAN : Begun(c, m)
<1>. SUFFICES ASSUME IInv, todo = <<>>,
                     ArrayCreate \/ DictionaryCreate \/ ArrayCreateCopy
                       \/ DictionaryCreateCopy \/ CreateMutable
              PROVE  IInv' /\ \E c \in Collection, m \in BOOLEAN : Begun(c, m)
  OBVIOUS
<1>1. CASE ArrayCreate
  <2>1. PICK c \in Array, l \in SeqOf(ArraySlots, MaxNew) : Create(c, FALSE, Len(l), l)
    BY <1>1 DEF ArrayCreate
  <2>2. c \in Collection
    BY DEF Collection
  <2>3. l \in Seq(Element) /\ Len(l) \in Nat /\ ListOK(c, l)
    BY <2>2, ListsOK
  <2>. PICK n \in Nat : n = Len(l)
    BY <2>3
  <2>4. n <= n
    OBVIOUS
  <2>. QED BY <2>1, <2>2, <2>3, <2>4, CreateKeeps
<1>2. CASE DictionaryCreate
  <2>1. PICK c \in Dictionary, l \in SeqOf(DictionarySlots, MaxNew) :
            Create(c, FALSE, Len(l), l)
    BY <1>2 DEF DictionaryCreate
  <2>2. c \in Collection
    BY DEF Collection
  <2>3. l \in Seq(Element) /\ Len(l) \in Nat /\ ListOK(c, l)
    BY <2>2, ListsOK
  <2>. PICK n \in Nat : n = Len(l)
    BY <2>3
  <2>4. n <= n
    OBVIOUS
  <2>. QED BY <2>1, <2>2, <2>3, <2>4, CreateKeeps
<1>3. ASSUME NEW c \in Collection, NEW a \in Collection, a \in Usable,
             c \in Array => a \in Array, Create(c, FALSE, Len(slots[a]), slots[a])
      PROVE  IInv' /\ \E d \in Collection, m \in BOOLEAN : Begun(d, m)
  <2>1. slots[a] \in Seq(Element) /\ Len(slots[a]) \in Nat /\ ListOK(c, slots[a])
    BY <1>3, CopiesOK
  <2>. PICK n \in Nat : n = Len(slots[a])
    BY <2>1
  <2>2. n <= n
    OBVIOUS
  <2>. QED BY <1>3, <2>1, <2>2, CreateKeeps
<1>4. CASE ArrayCreateCopy
  BY <1>3, <1>4 DEF ArrayCreateCopy, Collection
<1>5. CASE DictionaryCreateCopy
  BY <1>3, <1>5, ObjectsDistinct DEF DictionaryCreateCopy, Collection
<1>6. CASE CreateMutable
  <2>1. PICK c \in Collection, room \in 0..1 : Create(c, TRUE, room, <<>>)
    BY <1>6 DEF CreateMutable
  <2>. PICK l \in Seq(Element) : l = <<>>
    <3>1. <<>> \in Seq(Element)
      OBVIOUS
    <3>. QED BY <3>1
  <2>2. Len(l) = 0 /\ DOMAIN l = {}
    OBVIOUS
  <2>3. ListOK(c, l)
    BY <2>2 DEF ListOK
  <2>4. room \in Nat /\ Len(l) <= room
    BY <2>2
  <2>. QED BY <2>1, <2>3, <2>4, CreateKeeps
<1>. QED BY <1>1, <1>2, <1>4, <1>5, <1>6

LEMMA ClientKeeps == IInv /\ Client => IInv'
BY CreationsKeep, CallRetainKeeps, CallReleaseKeeps, CallAppendValueKeeps,
   CallRemoveValueAtIndexKeeps, CallSetValueKeeps, CallRemoveValueKeeps DEF Client

LEMMA InvariantStutters == IInv /\ UNCHANGED vars => IInv'
<1>. SUFFICES ASSUME IInv, UNCHANGED vars PROVE IInv'
  OBVIOUS
<1>1. UNCHANGED <<life, rc, storage, held, todo>> /\ aborted' = aborted
  BY DEF vars, storage
<1>2. aborted \in {"no", "allocation failed", "not mutable"}
  BY DEF IInv, TypeOK, NoFalseAlarm
<1>. QED BY <1>1, <1>2, HeapSame

LEMMA InvariantStarts == Init => IInv
<1>. SUFFICES ASSUME Init PROVE IInv
  OBVIOUS
<1>1. /\ life = [o \in Object |-> IF o \in Leaf THEN "live" ELSE "unborn"]
      /\ rc = [o \in Object |-> IF o \in Leaf THEN 1 ELSE 0]
      /\ slots = [c \in Collection |-> <<>>]
      /\ capacity = [c \in Collection |-> 0] /\ buffers = [c \in Collection |-> 0]
      /\ mutable = {} /\ held = [o \in Object |-> IF o \in Leaf THEN 1 ELSE 0]
      /\ todo = <<>> /\ aborted = "no"
  BY DEF Init
<1>2. todo \in Seq(Frame) /\ Range(todo) = {} /\ StackOK(todo)
      /\ \A x \in Object : Occ(todo, Owning(x)) = 0
  BY <1>1, NothingLeft
<1>3. TypeOK
  <2>1. 0 \in 0..MaxHeld /\ 1 \in 0..MaxHeld
    BY BoundsPositive
  <2>2. held \in [Object -> 0..MaxHeld]
    BY <1>1, <2>1
  <2>3. slots \in [Collection -> Seq(Slot)]
    BY <1>1
  <2>. QED BY <1>1, <1>2, <2>2, <2>3 DEF TypeOK
<1>4. FramesOK
  BY <1>2 DEF FramesOK
<1>5. \A c \in Collection : life[c] = "unborn" /\ slots[c] = <<>> /\ c \in Object
                            /\ capacity[c] = 0 /\ buffers[c] = 0
  BY <1>1, ObjectsDistinct DEF Object
<1>6. StorageOK
  <2>1. DOMAIN <<>> = {}
    OBVIOUS
  <2>. QED BY <1>5, <2>1 DEF StorageOK, StoreOK, CollectionOK
<1>7. Owned = [c \in Collection |-> <<>>]
  <2>1. ASSUME NEW c \in Collection PROVE Owned[c] = <<>>
    BY <1>2, <1>5, OwnedIdle
  <2>. QED BY <2>1, OwnedDomain
<1>8. ASSUME NEW x \in Object PROVE References(x) = held[x] + 0
  <2>1. References(x) = RefCount(held, Owned, todo, x)
    BY <1>3, <1>4, CountIs
  <2>2. AllAt(Owned, Valued(x)) = {} /\ AllAt(Owned, Keyed(x)) = {}
    <3>1. \A A : At(<<>>, A) = {}
      BY DEF At
    <3>. QED BY <1>7, <3>1 DEF AllAt
  <2>3. SlotRefs(Owned, x) = 0
    BY <2>2, FS_EmptySet DEF SlotRefs, Total
  <2>4. held[x] \in Nat
    BY <1>3, TypeFacts
  <2>. QED BY <1>2, <2>1, <2>3, <2>4 DEF RefCount
<1>9. Balanced
  BY <1>1, <1>8 DEF Balanced, CountIsReferences, NothingDangles
<1>10. NoFalseAlarm
  BY <1>1 DEF NoFalseAlarm
<1>. QED BY <1>2, <1>3, <1>4, <1>6, <1>9, <1>10 DEF IInv

LEMMA InvariantImplies == IInv => HeapOK
<1>. SUFFICES ASSUME IInv PROVE HeapOK
  OBVIOUS
<1>1. BuffersOwned
  BY DEF IInv, StorageOK, StoreOK, BuffersOwned
<1>2. KeysDistinct
  BY DEF IInv, StorageOK, StoreOK, KeysDistinct, Collection
<1>. QED BY <1>1, <1>2 DEF IInv, Balanced, HeapOK

\* IInv holds in every state that the calls reach.
LEMMA Invariant == Spec => []IInv
<1>1. IInv /\ [Next]_vars => IInv'
  BY StepKeeps, ClientKeeps, InvariantStutters DEF Next
<1>. QED BY <1>1, InvariantStarts, PTL DEF Spec

\* The heap is sound between any two pieces of any call, whatever calls the client
\* makes on however many objects: every live object is counted as often as it is
\* referred to, what is referred to is alive, every collection has its one buffer and
\* nothing is left of one that is gone, and no two keys of a dictionary are equal.
THEOREM HeapSound == Spec => []HeapOK
BY Invariant, InvariantImplies, PTL

-----------------------------------------------------------------------------
(* The collections implement Collections.                                  *)

\* The sequence or the set of pairs that slots are seen as.
Values(s) == [i \in DOMAIN s |-> s[i].value]
Pairs(s) == {<<s[i].key, s[i].value>> : i \in DOMAIN s}
Shown(c, s) == IF c \in Array THEN Values(s) ELSE Pairs(s)

AllContents == [c \in Collection |-> ContentsOf(c)]

AStep == Abstract!ANext \/ UNCHANGED Abstract!avars

\* A collection that is not alive shows nothing.
LEMMA ContentsAre ==
    ASSUME NEW c \in Collection
    PROVE  /\ ContentsOf(c) = Shown(c, IF life[c] = "live" THEN Owned[c] ELSE <<>>)
           /\ ContentsOf(c)' = Shown(c, IF life'[c] = "live" THEN Owned'[c] ELSE <<>>)
BY DEF ContentsOf, Shown, Values, Pairs, Owned

\* The contents of one live collection change.
LEMMA OneChanges ==
    ASSUME NEW c \in Collection, life[c] = "live", NEW s, Owned' = [Owned EXCEPT ![c] = s],
           \A o \in Object : life'[o] = "live" <=> life[o] = "live"
    PROVE  AllContents' = [AllContents EXCEPT ![c] = Shown(c, s)]
<1>1. ASSUME NEW d \in Collection
      PROVE  ContentsOf(d)' = IF d = c THEN Shown(c, s) ELSE ContentsOf(d)
  <2>1. life'[d] = "live" <=> life[d] = "live"
    BY DEF Object
  <2>2. Owned'[d] = IF d = c THEN s ELSE Owned[d]
    BY OwnedDomain
  <2>. QED BY <2>1, <2>2, ContentsAre
<1>. QED BY <1>1 DEF AllContents

\* What is not seen of a step.
LEMMA NotSeen ==
    ASSUME \A o \in Object : life'[o] = "live" <=> life[o] = "live",
           \A c \in Collection : life[c] = "live" => Owned'[c] = Owned[c],
           \A c \in Collection : life[c] = "live" => (c \in mutable <=> c \in mutable'),
           held' = held, Building' = Building, TypeOK, mutable' \subseteq Collection
    PROVE  UNCHANGED Abstract!avars
<1>1. Exists' = Exists
  BY DEF Exists
<1>2. AllContents' = AllContents
  <2>1. ASSUME NEW c \in Collection PROVE ContentsOf(c)' = ContentsOf(c)
    <3>1. life'[c] = "live" <=> life[c] = "live"
      BY DEF Object
    <3>. QED BY <3>1, ContentsAre
  <2>. QED BY <2>1 DEF AllContents
<1>3. (mutable \cap Exists)' = mutable \cap Exists
  BY <1>1, TypeFacts DEF Exists
<1>. QED BY <1>1, <1>2, <1>3 DEF Abstract!avars, AllContents

\* The same when the flags and the slots owned are the same.
LEMMA NotSeenAtAll ==
    ASSUME IInv, \A o \in Object : life'[o] = "live" <=> life[o] = "live",
           Owned' = Owned, mutable' = mutable, held' = held, Building' = Building
    PROVE  AStep
<1>1. TypeOK /\ mutable' \subseteq Collection
  BY TypeFacts DEF IInv
<1>. QED BY <1>1, NotSeen DEF AStep

LEMMA ReleaseSharedRefines == IInv /\ ReleaseShared => AStep
<1>. SUFFICES ASSUME IInv, ReleaseShared PROVE AStep
  OBVIOUS
<1>1. /\ todo # <<>> /\ Now.op = "release" /\ life' = life /\ slots' = slots
      /\ held' = held /\ mutable' = mutable /\ todo' = <<>> \o Tail(todo)
  BY DEF ReleaseShared, Running, Push, storage
<1>2. Range(todo) = {Now} \cup Range(Tail(todo)) /\ Tail(todo) \in Seq(Frame)
  BY <1>1, NowFacts
<1>3. todo' = Tail(todo)
  BY <1>1, <1>2, PushShapes
<1>4. Owned' = Owned
  BY <1>1, <1>2, <1>3, OwnedSame DEF BusyOps
<1>5. Building' = Building
  BY <1>1, <1>2, <1>3, BuildingAre DEF CreatorOps
<1>. QED BY <1>1, <1>4, <1>5, NotSeenAtAll

\* The slot is written when what it referred to is released: it was seen before.
LEMMA WriteRefines ==
    IInv /\ (StoreValue \/ ShiftDown) => AStep
<1>. SUFFICES ASSUME IInv, StoreValue \/ ShiftDown PROVE AStep
  OBVIOUS
<1>1. /\ todo # <<>> /\ Now.op \in WritingOps /\ life' = life
      /\ held' = held /\ mutable' = mutable /\ todo' = <<>> \o Tail(todo)
  BY DEF StoreValue, ShiftDown, Running, Push, WritingOps
<1>2. Range(todo) = {Now} \cup Range(Tail(todo)) /\ Tail(todo) \in Seq(Frame)
  BY <1>1, NowFacts
<1>3. todo' = Tail(todo)
  BY <1>1, <1>2, PushShapes
<1>4. Owned' = Owned
  BY ShiftDownKeeps, StoreValueKeeps
<1>5. Building' = Building
  BY <1>1, <1>2, <1>3, BuildingAre DEF CreatorOps, WritingOps
<1>. QED BY <1>1, <1>4, <1>5, NotSeenAtAll

\* A process that aborts, or a step that is not taken, changes nothing that is seen.
LEMMA AbortRefines ==
    ASSUME IInv, UNCHANGED <<life, rc, storage, held, todo>>
    PROVE  AStep
<1>1. life' = life /\ slots' = slots /\ held' = held /\ mutable' = mutable /\ todo' = todo
  BY DEF storage
<1>2. Owned' = Owned
  BY <1>1, OwnedSame
<1>3. Building' = Building
  BY <1>1, BuildingAre
<1>. QED BY <1>1, <1>2, <1>3, NotSeenAtAll

LEMMA ReserveRoomRefines == IInv /\ ReserveRoom => AStep
<1>. SUFFICES ASSUME IInv, ReserveRoom PROVE AStep
  OBVIOUS
<1>. PICK f : f = Fill(Now.obj, Now.rest)
  OBVIOUS
<1>1. /\ todo # <<>> /\ Now.op = "reserve" /\ life' = life /\ slots' = slots
      /\ held' = held /\ mutable' = mutable /\ todo' = <<f>> \o Tail(todo)
      /\ f.op = "fill" /\ f.obj = Now.obj
  BY DEF ReserveRoom, Running, Push, Fill
<1>2. Range(todo) = {Now} /\ Tail(todo) = <<>> /\ Now.obj \in Collection
      /\ Now.rest \in Seq(Element)
  BY <1>1, BuildingFacts DEF CreatorOps
<1>3. Range(todo') = {f}
  <2>1. f \in Frame
    BY <1>2, PiecesTyped
  <2>2. <<f>> \o <<>> = <<f>> /\ Range(<<f>>) = {f}
    BY <1>1, <2>1, OnePiece DEF WritingOps
  <2>. QED BY <1>1, <1>2, <2>2
<1>4. Owned' = Owned
  BY <1>1, <1>2, <1>3, OwnedSame DEF BusyOps
<1>5. Building' = Building
  BY <1>1, <1>2, <1>3, BuildingAre DEF CreatorOps
<1>. QED BY <1>1, <1>4, <1>5, NotSeenAtAll

\* The pieces that give up the references of a slot are releases.
LEMMA ReleasesRange ==
    ASSUME NEW c \in Collection, NEW s \in Slot, s.key = NULL <=> c \in Array,
           NEW f \in Frame, NEW td \in Seq(Frame)
    PROVE  \A g : g.op # "release" =>
               (g \in Range((ReleasesOf(c, s) \o <<f>>) \o td) <=> g = f \/ g \in Range(td))
<1>. PICK r : r = ReleasesOf(c, s)
  OBVIOUS
<1>1. r \in Seq(Frame) /\ \A g \in Range(r) : g.op = "release"
  <2>1. /\ r \in Seq(Frame) /\ \A g \in Range(r \o <<>>) : g \in Range(<<>>) \/ g.op = "release"
    BY NothingLeft, ReleasesPush
  <2>2. r \o <<>> = r /\ Range(<<>>) = {}
    BY <2>1, ConcatEmptySeq, NothingLeft
  <2>. QED BY <2>1, <2>2
<1>. PICK e : e = <<f>>
  OBVIOUS
<1>2. e \in Seq(Frame) /\ Range(e) = {f}
  <2>1. e \in Seq(Frame)
    OBVIOUS
  <2>2. e = <<f>> \o <<>> /\ <<>> \in Seq(Frame) /\ Range(<<>>) = {}
    BY NothingLeft
  <2>. QED BY <2>1, <2>2, RangeCons
<1>. PICK u : u = r \o e
  OBVIOUS
<1>3. u \in Seq(Frame)
  BY <1>1, <1>2, ConcatProperties
<1>6. \A a, b \in Seq(Frame) : Range(a \o b) = Range(a) \cup Range(b)
  BY RangeConcatenation
<1>4. Range(u) = Range(r) \cup Range(e)
  BY <1>1, <1>2, <1>6
<1>5. Range(u \o td) = Range(u) \cup Range(td)
  BY <1>3, <1>6
<1>. QED BY <1>1, <1>2, <1>4, <1>5

LEMMA FinalizeElementRefines == IInv /\ FinalizeElement => AStep
<1>. SUFFICES ASSUME IInv, FinalizeElement PROVE AStep
  OBVIOUS
<1>. DEFINE td == Tail(todo)
<1>1. todo # <<>> /\ Now.op = "finalize"
  BY DEF FinalizeElement, Running
<1>2. td \in Seq(Frame) /\ Now \in Frame /\ Range(todo) = {Now} \cup Range(td)
  BY <1>1, NowFacts
<1>. PICK c \in Collection : c = Now.obj
  BY <1>1, FinalizeTop
<1>3. life[c] = "dying"
  BY <1>1, FinalizeTop
<1>4. slots[c] \in Seq(Slot) /\ DOMAIN slots[c] = 1..Len(slots[c])
  <2>1. slots[c] \in Seq(Slot)
    BY TypeFacts DEF IInv
  <2>. QED BY <2>1, LenProperties
<1>. PICK i \in DOMAIN slots[c] : i = Now.index
  BY DEF FinalizeElement
<1>. PICK s \in Slot : s = slots[c][i]
  BY <1>4, LenProperties
<1>5. s.key = NULL <=> c \in Array
  BY DEF IInv, StorageOK, StoreOK, CollectionOK
<1>. PICK f \in Frame : f = FinalizeFrom(c, i + 1)
  <2>1. i + 1 \in Nat
    BY <1>4
  <2>. QED BY <2>1, PiecesTyped
<1>6. f.op = "finalize" /\ f.obj = c
  BY DEF FinalizeFrom
<1>7. /\ todo' = (ReleasesOf(c, s) \o <<f>>) \o td
      /\ life' = life /\ slots' = slots /\ mutable' = mutable /\ held' = held
  BY DEF FinalizeElement, Push, storage
<1>8. \A g : g.op # "release" => (g \in Range(todo') <=> g = f \/ g \in Range(td))
  <2>. HIDE DEF td
  <2>. QED BY <1>2, <1>5, <1>7, ReleasesRange
<1>9. ASSUME NEW d \in Collection, life[d] = "live" PROVE Owned'[d] = Owned[d]
  <2>1. \A g : g.op \in BusyOps /\ g.obj = d => (g \in Range(todo) <=> g \in Range(todo'))
    BY <1>2, <1>3, <1>6, <1>8, <1>9 DEF BusyOps
  <2>. QED BY <1>7, <2>1, OwnedKept
<1>10. Building' = Building
  BY <1>1, <1>2, <1>6, <1>8, BuildingAre DEF CreatorOps
<1>11. TypeOK /\ mutable' \subseteq Collection
  BY <1>7, TypeFacts DEF IInv
<1>. QED BY <1>7, <1>9, <1>10, <1>11, NotSeen DEF AStep

LEMMA FinalizeBufferRefines == IInv /\ FinalizeBuffer => AStep
<1>. SUFFICES ASSUME IInv, FinalizeBuffer PROVE AStep
  OBVIOUS
<1>1. /\ todo # <<>> /\ Now.op = "finalize" /\ life' = life /\ slots' = slots
      /\ held' = held /\ mutable' = mutable /\ todo' = <<>> \o Tail(todo)
  BY DEF FinalizeBuffer, Running, Push
<1>2. Range(todo) = {Now} \cup Range(Tail(todo)) /\ Tail(todo) \in Seq(Frame)
      /\ life[Now.obj] = "dying"
  BY <1>1, NowFacts, FinalizeTop
<1>3. todo' = Tail(todo)
  BY <1>1, <1>2, PushShapes
<1>4. ASSUME NEW d \in Collection, life[d] = "live" PROVE Owned'[d] = Owned[d]
  <2>1. \A g : g.op \in BusyOps /\ g.obj = d => (g \in Range(todo) <=> g \in Range(todo'))
    BY <1>2, <1>3, <1>4
  <2>. QED BY <1>1, <2>1, OwnedKept
<1>5. Building' = Building
  BY <1>1, <1>2, <1>3, BuildingAre DEF CreatorOps
<1>6. TypeOK /\ mutable' \subseteq Collection
  BY <1>1, TypeFacts DEF IInv
<1>. QED BY <1>1, <1>4, <1>5, <1>6, NotSeen DEF AStep

LEMMA FreeRefines == IInv /\ Free => AStep
<1>. SUFFICES ASSUME IInv, Free PROVE AStep
  OBVIOUS
<1>. PICK o \in Object : o = Now.obj
  BY FreeTop DEF Free, Running
<1>1. /\ todo # <<>> /\ Now.op = "free" /\ life' = [life EXCEPT ![o] = "freed"]
      /\ held' = held /\ todo' = <<>> \o Tail(todo)
      /\ IF o \in Collection
         THEN slots' = [slots EXCEPT ![o] = <<>>] /\ mutable' = mutable \ {o}
         ELSE slots' = slots /\ mutable' = mutable
  BY DEF Free, Running, Push
<1>2. Range(todo) = {Now} \cup Range(Tail(todo)) /\ Tail(todo) \in Seq(Frame)
      /\ life[o] = "dying"
  BY <1>1, NowFacts, FreeTop
<1>3. todo' = Tail(todo)
  BY <1>1, <1>2, PushShapes
<1>4. /\ \A x \in Object : life'[x] = "live" <=> life[x] = "live"
      /\ \A d \in Collection : life[d] = "live" => slots'[d] = slots[d]
      /\ \A d \in Collection : life[d] = "live" => (d \in mutable <=> d \in mutable')
      /\ mutable' \subseteq Collection /\ TypeOK
  <2>1. life \in [Object -> {"unborn", "live", "dying", "freed"}]
        /\ slots \in [Collection -> Seq(Slot)] /\ mutable \subseteq Collection /\ TypeOK
    BY TypeFacts DEF IInv
  <2>. QED BY <1>1, <1>2, <2>1
<1>5. ASSUME NEW d \in Collection, life[d] = "live" PROVE Owned'[d] = Owned[d]
  <2>1. \A g : g.op \in BusyOps /\ g.obj = d => (g \in Range(todo) <=> g \in Range(todo'))
    BY <1>1, <1>2, <1>3 DEF BusyOps
  <2>2. life'[d] = "live" <=> life[d] = "live"
    BY <1>4 DEF Object
  <2>. QED BY <1>4, <1>5, <2>1, <2>2, OwnedKept
<1>6. Building' = Building
  BY <1>1, <1>2, <1>3, BuildingAre DEF CreatorOps
<1>. QED BY <1>1, <1>4, <1>5, <1>6, NotSeen DEF AStep

\* What is seen in a live collection is in the slots it owns.
LEMMA SeenIsOwned ==
    ASSUME NEW c \in Collection, life[c] = "live", NEW o \in Abstract!Members(c), o # NULL
    PROVE  o \in InSlots(Owned[c])
<1>. DEFINE s == Owned[c]
<1>1. AllContents[c] = Shown(c, s)
  BY ContentsAre DEF AllContents
<1>. HIDE DEF s
<1>2. CASE c \in Array
  <2>1. o \in {AllContents[c][i] : i \in DOMAIN AllContents[c]}
    BY <1>2 DEF Abstract!Members, AllContents
  <2>. QED BY <1>1, <1>2, <2>1 DEF Shown, Values, Pairs, InSlots, s
<1>3. CASE c \notin Array
  <2>1. o \in {p[1] : p \in AllContents[c]} \cup {p[2] : p \in AllContents[c]}
    BY <1>3 DEF Abstract!Members, AllContents
  <2>2. PICK p \in AllContents[c] : o = p[1] \/ o = p[2]
    BY <2>1
  <2>3. PICK i \in DOMAIN s : p = <<s[i].key, s[i].value>>
    BY <1>1, <1>3, <2>2 DEF Shown, Values, Pairs
  <2>4. o \in {s[i].key, s[i].value}
    BY <2>2, <2>3
  <2>. QED BY <2>4 DEF InSlots, s
<1>. QED BY <1>2, <1>3

\* No slots are no contents.
LEMMA EmptyIsShown ==
    ASSUME NEW c \in Collection
    PROVE  Shown(c, <<>>) = Abstract!Empty(c)
<1>1. DOMAIN <<>> = {}
  OBVIOUS
<1>2. CASE c \in Array
  <2>1. \A z : [i \in DOMAIN <<>> |-> z[i].value] = <<>>
    BY <1>1
  <2>. QED BY <1>2, <2>1 DEF Shown, Values, Pairs, Abstract!Empty
<1>3. CASE c \notin Array
  BY <1>1, <1>3 DEF Shown, Values, Pairs, Abstract!Empty
<1>. QED BY <1>2, <1>3

\* The last reference is given up: nothing is seen of the object any more.
LEMMA ReleaseLastRefines == IInv /\ ReleaseLast => AStep
<1>. SUFFICES ASSUME IInv, ReleaseLast PROVE AStep
  OBVIOUS
<1>1. todo # <<>> /\ Now.op = "release" /\ (life[Now.obj] = "live" => rc[Now.obj] = 1)
  BY DEF ReleaseLast, Running
<1>2. CASE life[Now.obj] # "live"
  <2>1. Abort("release of a dead object")
    BY <1>2 DEF ReleaseLast
  <2>. QED BY <2>1, AbortRefines DEF Abort
<1>3. CASE life[Now.obj] = "live"
  <2>1. /\ held[Now.obj] = 0 /\ SlotRefs(Owned, Now.obj) = 0 /\ Now.obj \in Object
        /\ \A f \in Range(Tail(todo)) : f.obj # Now.obj
    BY <1>1, <1>3, LastReference
  <2>. PICK o \in Object : o = Now.obj
    BY <2>1
  <2>2. Range(todo) = {Now} \cup Range(Tail(todo)) /\ Tail(todo) \in Seq(Frame)
    BY <1>1, NowFacts
  <2>. DEFINE top == (IF o \in Leaf THEN <<>> ELSE <<FinalizeFrom(o, 1)>>) \o <<FreeOf(o)>>
  <2>3. /\ life' = [life EXCEPT ![o] = "dying"] /\ todo' = top \o Tail(todo)
        /\ slots' = slots /\ held' = held /\ mutable' = mutable
    BY <1>3 DEF ReleaseLast, Push, storage
  <2>4. \A g : g.op \notin {"free", "finalize"} \/ g.obj # o =>
                 (g \in Range(todo') <=> g \in Range(Tail(todo)))
    <3>. PICK td \in Seq(Frame) : td = Tail(todo)
      BY <2>2
    <3>. PICK f \in Frame : f = FreeOf(o)
      BY PiecesTyped
    <3>1. f.op = "free" /\ f.obj = o
      BY DEF FreeOf
    <3>2. <<f>> \o td \in Seq(Frame) /\ Range(<<f>> \o td) = {f} \cup Range(td)
      BY ConsProperties, RangeCons
    <3>3. CASE o \in Leaf
      <4>1. todo' = <<f>> \o td
        BY <2>3, <3>3, PushShapes
      <4>. QED BY <3>1, <3>2, <4>1
    <3>4. CASE o \notin Leaf
      <4>. PICK g \in Frame : g = FinalizeFrom(o, 1)
        BY <3>4, PiecesTyped DEF Object
      <4>1. g.op = "finalize" /\ g.obj = o
        BY DEF FinalizeFrom
      <4>2. todo' = <<g>> \o (<<f>> \o td)
        <5>1. todo' = (<<g>> \o <<f>>) \o td
          BY <2>3, <3>4
        <5>2. (<<g>> \o <<f>>) \o td = <<g>> \o (<<f>> \o td)
          BY PushShapes
        <5>. QED BY <5>1, <5>2
      <4>. PICK t \in Seq(Frame) : t = <<f>> \o td
        BY <3>2
      <4>3. Range(todo') = {g} \cup Range(t)
        BY <4>2, RangeCons
      <4>. QED BY <3>1, <3>2, <4>1, <4>3
    <3>. QED BY <3>3, <3>4
  <2>. HIDE DEF top
  <2>5. ASSUME NEW d \in Collection \ {o}
        PROVE  (life'[d] = "live" <=> life[d] = "live") /\ Owned'[d] = Owned[d]
    <3>1. life'[d] = life[d]
      BY <2>3, TypeFacts DEF IInv
    <3>2. \A g : g.op \in BusyOps /\ g.obj = d => (g \in Range(todo) <=> g \in Range(todo'))
      BY <1>1, <2>2, <2>4 DEF BusyOps
    <3>. QED BY <2>3, <3>1, <3>2, OwnedKept
  <2>6. life'[o] = "dying" /\ life[o] = "live"
    BY <1>3, <2>3, TypeFacts DEF IInv
  <2>7. Exists' = Exists \ {o} /\ o \in Exists
    <3>1. \A x \in Object \ {o} : life'[x] = life[x]
      BY <2>3, TypeFacts DEF IInv
    <3>. QED BY <2>6, <3>1 DEF Exists
  <2>8. Building' = Building /\ o \notin Building
    <3>1. \A g : g.op \in CreatorOps => (g \in Range(todo) <=> g \in Range(todo'))
      BY <1>1, <2>2, <2>4 DEF CreatorOps
    <3>2. \A g \in Range(todo) : g.op \in CreatorOps => g.obj # o
      BY <1>1, <2>1, <2>2 DEF CreatorOps
    <3>. QED BY <3>1, <3>2, BuildingAre
  <2>9. AllContents' = IF o \in Collection THEN [AllContents EXCEPT ![o] = Abstract!Empty(o)]
                       ELSE AllContents
    <3>1. ASSUME NEW d \in Collection
          PROVE  ContentsOf(d)' = IF d = o THEN Abstract!Empty(d) ELSE ContentsOf(d)
      <4>1. CASE d = o
        BY <2>6, <4>1, ContentsAre, EmptyIsShown
      <4>2. CASE d # o
        BY <2>5, <4>2, ContentsAre
      <4>. QED BY <4>1, <4>2
    <3>. QED BY <3>1 DEF AllContents
  <2>10. (mutable \cap Exists)' = (mutable \cap Exists) \ {o}
    BY <2>3, <2>7
  <2>11. ~Abstract!Contained(o)
    <3>1. ASSUME NEW c \in Collection, life[c] = "live", o \in Abstract!Members(c) PROVE FALSE
      <4>1. o \in InSlots(Owned[c])
        BY <3>1, SeenIsOwned, ObjectsDistinct
      <4>2. SlotRefs(Owned, o) > 0
        BY <4>1, OwnedTyped, SlotRefsMember DEF IInv
      <4>. QED BY <2>1, <4>2
    <3>. QED BY <3>1 DEF Abstract!Contained, Abstract!Collection, Collection, Exists
  <2>12. Abstract!Vanish(o)
    <3>1. ~Abstract!Referenced(o)
      BY <2>1, <2>8, <2>11 DEF Abstract!Referenced
    <3>. QED BY <2>3, <2>7, <2>8, <2>9, <2>10, <3>1
           DEF Abstract!Vanish, AllContents, Abstract!Collection, Collection
  <2>. QED BY <2>12 DEF AStep, Abstract!ANext
<1>. QED BY <1>2, <1>3

\* The values of slots, as a sequence.
LEMMA ValuesTyped ==
    ASSUME NEW s \in Seq(Slot)
    PROVE  /\ Values(s) \in Seq(Object) /\ Len(Values(s)) = Len(s)
           /\ DOMAIN Values(s) = 1..Len(s) /\ DOMAIN s = 1..Len(s) /\ Len(s) \in Nat
           /\ \A i \in 1..Len(s) : Values(s)[i] = s[i].value
<1>1. DOMAIN s = 1..Len(s) /\ Len(s) \in Nat /\ \A i \in 1..Len(s) : s[i] \in Slot
  BY LenProperties
<1>. PICK n \in Nat : n = Len(s)
  BY <1>1
<1>2. Values(s) \in [1..n -> Object]
  BY <1>1 DEF Values, Slot
<1>3. Values(s) \in Seq(Object)
  BY <1>2, SeqDef
<1>4. Len(Values(s)) = n
  <2>. PICK m \in Nat : m = Len(Values(s))
    BY <1>3, LenProperties
  <2>1. 1..m = 1..n
    BY <1>2, <1>3, LenProperties
  <2>. QED BY <2>1
<1>. QED BY <1>1, <1>2, <1>3, <1>4 DEF Values

LEMMA ValuesAppend ==
    ASSUME NEW s \in Seq(Slot), NEW x \in Slot
    PROVE  Values(Append(s, x)) = Append(Values(s), x.value)
<1>. PICK t \in Seq(Slot) : t = Append(s, x)
  BY AppendProperties
<1>. PICK n \in Nat : n = Len(s)
  BY LenProperties
<1>1. Len(t) = n + 1 /\ t[n + 1] = x /\ \A i \in 1..n : t[i] = s[i]
  BY AppendProperties
<1>. PICK v \in Seq(Object) : v = Values(s)
  BY ValuesTyped
<1>2. Len(v) = n /\ \A i \in 1..n : v[i] = s[i].value
  BY ValuesTyped
<1>. PICK o \in Object : o = x.value
  BY DEF Slot
<1>. PICK w \in Seq(Object) : w = Append(v, o)
  BY AppendProperties
<1>3. Len(w) = n + 1 /\ w[n + 1] = o /\ \A i \in 1..n : w[i] = v[i]
  BY <1>2, AppendProperties
<1>. PICK u \in Seq(Object) : u = Values(t)
  BY ValuesTyped
<1>4. Len(u) = n + 1 /\ \A i \in 1..(n + 1) : u[i] = t[i].value
  BY <1>1, ValuesTyped
<1>5. \A i \in 1..(n + 1) : u[i] = w[i]
  <2>1. ASSUME NEW i \in 1..(n + 1) PROVE u[i] = w[i]
    <3>1. CASE i = n + 1
      BY <1>1, <1>3, <1>4, <3>1
    <3>2. CASE i # n + 1
      <4>1. i \in 1..n
        BY <3>2
      <4>. QED BY <1>1, <1>2, <1>3, <1>4, <4>1
    <3>. QED BY <3>1, <3>2
  <2>. QED BY <2>1
<1>6. u = w
  BY <1>3, <1>4, <1>5, SeqEqual
<1>. QED BY <1>6

LEMMA ValuesRemoveAt ==
    ASSUME NEW s \in Seq(Slot), NEW i \in 1..Len(s)
    PROVE  Values(RemoveAt(s, i)) = RemoveAt(Values(s), i)
<1>. PICK t \in Seq(Slot) : t = RemoveAt(s, i)
  BY RemoveAtProperties
<1>. PICK n \in Nat : n = Len(s)
  BY LenProperties
<1>1. Len(t) = n - 1 /\ \A j \in 1..(n - 1) : t[j] = IF j < i THEN s[j] ELSE s[j+1]
  BY RemoveAtProperties
<1>. PICK v \in Seq(Object) : v = Values(s)
  BY ValuesTyped
<1>2. Len(v) = n /\ (\A j \in 1..n : v[j] = s[j].value) /\ i \in 1..n /\ i \in 1..Len(v)
  BY ValuesTyped
<1>. PICK w \in Seq(Object) : w = RemoveAt(v, i)
  BY <1>2, RemoveAtProperties
<1>3. Len(w) = n - 1 /\ \A j \in 1..(n - 1) : w[j] = IF j < i THEN v[j] ELSE v[j+1]
  BY <1>2, RemoveAtProperties
<1>. PICK u \in Seq(Object) : u = Values(t)
  BY ValuesTyped
<1>4. Len(u) = n - 1 /\ \A j \in 1..(n - 1) : u[j] = t[j].value
  BY <1>1, ValuesTyped
<1>5. \A j \in 1..(n - 1) : u[j] = w[j]
  <2>1. ASSUME NEW j \in 1..(n - 1) PROVE u[j] = w[j]
    <3>1. j \in 1..n /\ j + 1 \in 1..n
      OBVIOUS
    <3>. QED BY <1>1, <1>2, <1>3, <1>4, <3>1
  <2>. QED BY <2>1
<1>6. u = w
  BY <1>3, <1>4, <1>5, SeqEqual
<1>. QED BY <1>6

\* The keys and values of slots, as a set of pairs.
LEMMA PairsAppend ==
    ASSUME NEW s \in Seq(Slot), NEW x \in Slot
    PROVE  Pairs(Append(s, x)) = Pairs(s) \cup {<<x.key, x.value>>}
<1>. PICK t \in Seq(Slot) : t = Append(s, x)
  BY AppendProperties
<1>. PICK n \in Nat : n = Len(s)
  BY LenProperties
<1>1. /\ Len(t) = n + 1 /\ t[n + 1] = x /\ \A i \in 1..n : t[i] = s[i]
      /\ DOMAIN s = 1..n /\ DOMAIN t = 1..(n + 1)
  BY AppendProperties, LenProperties
<1>2. 1..(n + 1) = 1..n \cup {n + 1}
  OBVIOUS
<1>3. {<<t[i].key, t[i].value>> : i \in 1..n} = {<<s[i].key, s[i].value>> : i \in 1..n}
  BY <1>1
<1>4. Pairs(t) = {<<t[i].key, t[i].value>> : i \in 1..n} \cup {<<t[n+1].key, t[n+1].value>>}
  BY <1>1, <1>2 DEF Pairs
<1>. QED BY <1>1, <1>3, <1>4 DEF Pairs

\* The pair of the only key that equals k keeps its key and gets the value v.
LEMMA PairsPut ==
    ASSUME NEW s \in Seq(Slot), NEW i, NEW k, OnlyAt(s, i, k), NEW v \in Object,
           NEW equal, equal = {p \in Pairs(s) : CFEqual(p[1], k)}
    PROVE  /\ equal = {<<s[i].key, s[i].value>>}
           /\ Pairs([s EXCEPT ![i].value = v])
                = (Pairs(s) \ equal) \cup {<<p[1], v>> : p \in equal}
<1>. PICK t : t = [s EXCEPT ![i].value = v]
  OBVIOUS
<1>1. /\ DOMAIN t = DOMAIN s /\ i \in DOMAIN s
      /\ \A j \in DOMAIN s : /\ s[j] \in Slot
                             /\ t[j].key = s[j].key
                             /\ t[j].value = IF j = i THEN v ELSE s[j].value
  <2>1. DOMAIN s = 1..Len(s) /\ \A j \in DOMAIN s : s[j] \in Slot
    BY LenProperties
  <2>2. DOMAIN t = DOMAIN s /\ \A j \in DOMAIN s : t[j] = IF j = i THEN [s[i] EXCEPT !.value = v] ELSE s[j]
    BY <2>1
  <2>3. \A z \in Slot : [z EXCEPT !.value = v].key = z.key /\ [z EXCEPT !.value = v].value = v
    BY DEF Slot
  <2>. QED BY <2>1, <2>2, <2>3 DEF OnlyAt
<1>2. equal = {<<s[i].key, s[i].value>>}
  BY <1>1 DEF OnlyAt, Pairs
<1>3. ASSUME NEW p \in Pairs(t) PROVE p \in (Pairs(s) \ equal) \cup {<<q[1], v>> : q \in equal}
  <2>. PICK j \in DOMAIN t : p = <<t[j].key, t[j].value>>
    BY DEF Pairs
  <2>1. CASE j = i
    <3>1. p = <<s[i].key, v>>
      BY <1>1, <2>1
    <3>. QED BY <1>2, <3>1
  <2>2. CASE j # i
    <3>1. p = <<s[j].key, s[j].value>> /\ ~CFEqual(p[1], k)
      BY <1>1, <2>2 DEF OnlyAt
    <3>. QED BY <1>1, <3>1 DEF Pairs
  <2>. QED BY <2>1, <2>2
<1>4. ASSUME NEW p \in (Pairs(s) \ equal) \cup {<<q[1], v>> : q \in equal} PROVE p \in Pairs(t)
  <2>1. CASE p \in Pairs(s) \ equal
    <3>. PICK j \in DOMAIN s : p = <<s[j].key, s[j].value>>
      BY <2>1 DEF Pairs
    <3>1. j # i
      BY <1>2, <2>1
    <3>2. p = <<t[j].key, t[j].value>>
      BY <1>1, <3>1
    <3>. QED BY <1>1, <3>2 DEF Pairs
  <2>2. CASE p \notin Pairs(s) \ equal
    <3>1. p = <<s[i].key, v>>
      BY <1>2, <2>2
    <3>2. p = <<t[i].key, t[i].value>>
      BY <1>1, <3>1
    <3>. QED BY <1>1, <3>2 DEF Pairs
  <2>. QED BY <2>1, <2>2
<1>. QED BY <1>2, <1>3, <1>4

\* Without slot i the only key that equals k is gone.
LEMMA PairsRemoveAt ==
    ASSUME NEW s \in Seq(Slot), NEW i, NEW k, OnlyAt(s, i, k)
    PROVE  Pairs(RemoveAt(s, i)) = {p \in Pairs(s) : ~CFEqual(p[1], k)}
<1>. PICK n \in Nat : n = Len(s)
  BY LenProperties
<1>1. DOMAIN s = 1..n /\ i \in 1..n
  BY LenProperties DEF OnlyAt
<1>. PICK t \in Seq(Slot) : t = RemoveAt(s, i)
  BY <1>1, RemoveAtProperties
<1>2. DOMAIN t = 1..(n - 1) /\ \A j \in 1..(n - 1) : t[j] = IF j < i THEN s[j] ELSE s[j+1]
  BY <1>1, RemoveAtProperties
<1>3. ASSUME NEW p \in Pairs(t) PROVE p \in Pairs(s) /\ ~CFEqual(p[1], k)
  <2>. PICK j \in 1..(n - 1) : p = <<t[j].key, t[j].value>>
    BY <1>2 DEF Pairs
  <2>. PICK m \in 1..n : m # i /\ t[j] = s[m]
    <3>1. CASE j < i
      BY <1>2, <3>1
    <3>2. CASE ~(j < i)
      <4>1. j + 1 \in 1..n /\ j + 1 # i /\ t[j] = s[j+1]
        BY <1>1, <1>2, <3>2
      <4>. QED BY <4>1
    <3>. QED BY <3>1, <3>2
  <2>1. p = <<s[m].key, s[m].value>> /\ m \in DOMAIN s
    BY <1>1
  <2>. QED BY <2>1 DEF Pairs, OnlyAt
<1>4. ASSUME NEW p \in Pairs(s), ~CFEqual(p[1], k) PROVE p \in Pairs(t)
  <2>. PICK m \in 1..n : p = <<s[m].key, s[m].value>>
    BY <1>1 DEF Pairs
  <2>1. m # i
    BY <1>1, <1>4 DEF OnlyAt
  <2>. PICK j \in 1..(n - 1) : t[j] = s[m]
    <3>1. CASE m < i
      <4>1. m \in 1..(n - 1)
        BY <1>1, <3>1
      <4>. QED BY <1>2, <3>1, <4>1
    <3>2. CASE ~(m < i)
      <4>1. m - 1 \in 1..(n - 1) /\ ~(m - 1 < i) /\ (m - 1) + 1 = m
        BY <1>1, <2>1, <3>2
      <4>. QED BY <1>2, <4>1
    <3>. QED BY <3>1, <3>2
  <2>2. p = <<t[j].key, t[j].value>> /\ j \in DOMAIN t
    BY <1>2
  <2>. QED BY <2>2 DEF Pairs
<1>. QED BY <1>3, <1>4

\* The contents of one collection that may change do.
LEMMA ChangeRefines ==
    ASSUME IInv, NEW c \in Collection, life[c] = "live", c \in mutable \cup Building,
           NEW s, Owned' = [Owned EXCEPT ![c] = s],
           life' = life, held' = held, mutable' = mutable, Building' = Building
    PROVE  Abstract!Change(c, Shown(c, s))
<1>1. AllContents' = [AllContents EXCEPT ![c] = Shown(c, s)]
  BY OneChanges
<1>2. Exists' = Exists /\ c \in Exists /\ (mutable \cap Exists)' = mutable \cap Exists
  BY DEF Exists, Object
<1>. QED BY <1>1, <1>2 DEF Abstract!Change, AllContents

\* What is seen in a live collection are the slots it owns.
LEMMA ContentsSeen ==
    ASSUME NEW c \in Collection, life[c] = "live"
    PROVE  AllContents[c] = Shown(c, Owned[c])
BY ContentsAre DEF AllContents

\* A slot that is written is an element appended or a value put.
LEMMA InsertedRefines ==
    ASSUME IInv, NEW c \in Collection, NEW s \in Slot, Inserted(c, s)
    PROVE  AStep
<1>1. /\ life[c] = "live" /\ c \in mutable \cup Building /\ Owned[c] = slots[c]
      /\ life' = life /\ held' = held /\ mutable' = mutable /\ Building' = Building
      /\ s.key = NULL <=> c \in Array
  BY DEF Inserted
<1>. PICK z \in Seq(Slot) : z = slots[c]
  BY TypeFacts DEF IInv
<1>. PICK v \in Object : v = s.value
  BY DEF Slot
<1>2. v \in Exists
  BY DEF Inserted, Exists
<1>3. CASE c \in Array
  <2>1. Owned' = [Owned EXCEPT ![c] = Append(z, s)]
    BY <1>3 DEF Inserted
  <2>2. Abstract!Change(c, Shown(c, Append(z, s)))
    BY <1>1, <2>1, ChangeRefines
  <2>3. Shown(c, Append(z, s)) = Append(AllContents[c], v)
    BY <1>1, <1>3, ContentsSeen, ValuesAppend DEF Shown
  <2>4. Abstract!Append1(c, v)
    BY <1>2, <1>3, <2>2, <2>3 DEF Abstract!Append1, AllContents
  <2>. QED BY <2>4 DEF AStep, Abstract!ANext, Abstract!Collection, Collection
<1>4. CASE c \notin Array
  <2>. PICK k \in Object : k = s.key
    BY <1>1, <1>4 DEF Slot
  <2>1. k \in Exists /\ c \in Dictionary
    BY <1>4 DEF Inserted, Exists, Collection
  <2>. PICK P : P = Pairs(z)
    OBVIOUS
  <2>. PICK equal : equal = {p \in P : CFEqual(p[1], k)}
    OBVIOUS
  <2>2. AllContents[c] = P
    BY <1>1, <1>4, ContentsSeen DEF Shown
  <2>3. ASSUME Abstract!Change(c, IF equal = {} THEN P \cup {<<k, v>>}
                                  ELSE (P \ equal) \cup {<<p[1], v>> : p \in equal})
        PROVE  AStep
    <3>1. Abstract!Put(c, k, v)
      BY <1>2, <2>1, <2>2, <2>3 DEF Abstract!Put, AllContents
    <3>. QED BY <2>1, <3>1 DEF AStep, Abstract!ANext, Abstract!Collection, Collection
  <2>4. CASE FindIndex(c, k) = {}
    <3>1. equal = {}
      BY <2>4 DEF FindIndex, Pairs
    <3>2. Owned' = [Owned EXCEPT ![c] = Append(z, s)]
      BY <2>4 DEF Inserted
    <3>3. Abstract!Change(c, Shown(c, Append(z, s)))
      BY <1>1, <3>2, ChangeRefines
    <3>4. Shown(c, Append(z, s)) = P \cup {<<k, v>>}
      BY <1>4, PairsAppend DEF Shown
    <3>. QED BY <2>3, <3>1, <3>3, <3>4
  <2>5. CASE FindIndex(c, k) # {}
    <3>. PICK i : i = FirstIndex(c, k)
      OBVIOUS
    <3>1. OnlyAt(z, i, k)
      BY <2>1, <2>5, FirstIndexFound
    <3>. PICK t : t = [z EXCEPT ![i].value = v]
      OBVIOUS
    <3>2. equal # {} /\ Pairs(t) = (P \ equal) \cup {<<p[1], v>> : p \in equal}
      <4>0. equal = {p \in Pairs(z) : CFEqual(p[1], k)}
        OBVIOUS
      <4>1. equal = {<<z[i].key, z[i].value>>}
        BY <3>1, <4>0 DEF OnlyAt, Pairs
      <4>2. Pairs([z EXCEPT ![i].value = v]) = (P \ equal) \cup {<<p[1], v>> : p \in equal}
        BY <3>1, <4>0, PairsPut
      <4>. QED BY <4>1, <4>2
    <3>3. Owned' = [Owned EXCEPT ![c] = t]
      BY <1>4, <2>5 DEF Inserted
    <3>4. Abstract!Change(c, Shown(c, t))
      BY <1>1, <3>3, ChangeRefines
    <3>5. Shown(c, t) = Pairs(t)
      BY <1>4 DEF Shown
    <3>. QED BY <2>3, <3>2, <3>4, <3>5
  <2>. QED BY <2>4, <2>5
<1>. QED BY <1>3, <1>4

LEMMA InsertRefines == IInv /\ (AppendValue \/ SetValue \/ FillSlot) => AStep
BY AppendValueKeeps, SetValueKeeps, FillSlotKeeps, InsertedRefines

LEMMA CallRemoveValueAtIndexRefines ==
    IInv /\ todo = <<>> /\ CallRemoveValueAtIndex => AStep
<1>. SUFFICES ASSUME IInv, todo = <<>>, CallRemoveValueAtIndex PROVE AStep
  OBVIOUS
<1>1. PICK c \in Array \cap Usable : \E i \in DOMAIN slots[c] :
        Mutate(c, ReleasesOf(c, slots[c][i]) \o <<ShiftAt(c, i)>>)
  BY DEF CallRemoveValueAtIndex
<1>2. PICK i \in DOMAIN slots[c] : Mutate(c, ReleasesOf(c, slots[c][i]) \o <<ShiftAt(c, i)>>)
  BY <1>1
<1>3. CASE Abort("not mutable")
  BY <1>3, AbortRefines DEF Abort
<1>4. CASE ~Abort("not mutable")
  <2>1. MayMutate(c) /\ Call(ReleasesOf(c, slots[c][i]) \o <<ShiftAt(c, i)>>)
        /\ UNCHANGED <<life, rc, held>>
    BY <1>2, <1>4 DEF Mutate
  <2>. PICK z \in Seq(Slot) : z = slots[c]
    BY TypeFacts DEF IInv, Collection
  <2>2. /\ c \in Collection /\ life[c] = "live" /\ Owned[c] = z
        /\ Owned' = [Owned EXCEPT ![c] = RemoveAt(z, i)]
        /\ Building' = Building /\ mutable' = mutable
    BY <2>1, RemovalBegins DEF Collection
  <2>3. Abstract!Change(c, Shown(c, RemoveAt(z, i)))
    BY <2>1, <2>2, ChangeRefines DEF MayMutate
  <2>4. i \in 1..Len(z) /\ DOMAIN Values(z) = 1..Len(z)
    BY ValuesTyped
  <2>5. AllContents[c] = Values(z) /\ Shown(c, RemoveAt(z, i)) = RemoveAt(Values(z), i)
    BY <2>2, <2>4, ContentsSeen, ValuesRemoveAt DEF Shown
  <2>6. Abstract!RemoveIndex(c, i) /\ i \in DOMAIN AllContents[c]
    BY <2>3, <2>4, <2>5 DEF Abstract!RemoveIndex, Abstract!RemoveAt, RemoveAt, AllContents
  <2>. QED BY <2>2, <2>6 DEF AStep, Abstract!ANext, Abstract!Collection, Collection, AllContents
<1>. QED BY <1>3, <1>4

\* A call that has only begun, with no slot taken out and nothing under construction.
LEMMA CallBegins ==
    ASSUME IInv, todo = <<>>, life' = life, slots' = slots,
           \A f \in Range(todo') : f.op \notin BusyOps \cup CreatorOps
    PROVE  Owned' = Owned /\ Building' = Building /\ Building = {}
<1>1. Range(todo) = {}
  BY IdleFacts
<1>2. Owned' = Owned
  BY <1>1, OwnedSame
<1>. QED BY <1>1, <1>2, BuildingAre

LEMMA CallRemoveValueRefines == IInv /\ todo = <<>> /\ CallRemoveValue => AStep
<1>. SUFFICES ASSUME IInv, todo = <<>>, CallRemoveValue PROVE AStep
  OBVIOUS
<1>1. PICK c \in Dictionary \cap Usable, k \in Leaf \cap Usable :
        Mutate(c, IF FindIndex(c, k) = {} THEN <<>>
                  ELSE LET i == FirstIndex(c, k) IN
                       ReleasesOf(c, slots[c][i]) \o <<ShiftAt(c, i)>>)
  BY DEF CallRemoveValue
<1>2. CASE Abort("not mutable")
  BY <1>2, AbortRefines DEF Abort
<1>3. CASE FindIndex(c, k) = {} /\ ~Abort("not mutable")
  <2>1. Mutate(c, <<>>)
    BY <1>1, <1>3
  <2>2. Call(<<>>) /\ UNCHANGED <<life, rc, held>>
    BY <1>3, <2>1 DEF Mutate
  <2>3. Range(todo') = {} /\ slots' = slots /\ mutable' = mutable
    BY <2>2, NothingLeft DEF Call, storage
  <2>. QED BY <2>2, <2>3, CallBegins, NotSeenAtAll
<1>4. CASE FindIndex(c, k) # {} /\ ~Abort("not mutable")
  <2>. PICK i : i = FirstIndex(c, k)
    OBVIOUS
  <2>. PICK z \in Seq(Slot) : z = slots[c]
    BY TypeFacts DEF IInv, Collection
  <2>1. OnlyAt(z, i, k) /\ i \in DOMAIN slots[c]
    BY <1>4, FirstIndexFound
  <2>2. Mutate(c, ReleasesOf(c, slots[c][i]) \o <<ShiftAt(c, i)>>)
    BY <1>1, <1>4
  <2>3. MayMutate(c) /\ Call(ReleasesOf(c, slots[c][i]) \o <<ShiftAt(c, i)>>)
        /\ UNCHANGED <<life, rc, held>>
    BY <1>4, <2>2 DEF Mutate
  <2>4. /\ c \in Collection /\ life[c] = "live" /\ Owned[c] = z
        /\ Owned' = [Owned EXCEPT ![c] = RemoveAt(z, i)]
        /\ Building' = Building /\ mutable' = mutable
    BY <2>1, <2>3, RemovalBegins DEF Collection
  <2>5. Abstract!Change(c, Shown(c, RemoveAt(z, i)))
    BY <2>3, <2>4, ChangeRefines DEF MayMutate
  <2>6. AllContents[c] = Pairs(z)
        /\ Shown(c, RemoveAt(z, i)) = {p \in Pairs(z) : ~CFEqual(p[1], k)}
    BY <2>1, <2>4, ObjectsDistinct, ContentsSeen, PairsRemoveAt DEF Shown
  <2>7. Abstract!RemoveKey(c, k)
    BY <2>5, <2>6 DEF Abstract!RemoveKey, AllContents
  <2>. QED BY <2>4, <2>7 DEF AStep, Abstract!ANext, Abstract!Collection, Collection, Object
<1>. QED BY <1>2, <1>3, <1>4

LEMMA GiveUpRefines == IInv /\ (ReserveFails \/ FillFails) => AStep
<1>. SUFFICES ASSUME IInv, ReserveFails \/ FillFails PROVE AStep
  OBVIOUS
<1>1. /\ todo # <<>> /\ Now.op \in CreatorOps /\ Push(<<Release(Now.obj)>>)
      /\ life' = life /\ slots' = slots /\ held' = held /\ mutable' = mutable
  BY DEF ReserveFails, FillFails, Running, CreatorOps, storage
<1>2. Range(todo) = {Now} /\ Tail(todo) = <<>> /\ Now.obj \in Collection
  BY <1>1, BuildingFacts
<1>. PICK c \in Collection : c = Now.obj
  BY <1>2
<1>. PICK f \in Frame : f = Release(c)
  BY PiecesTyped DEF Object
<1>3. f.op = "release"
  BY DEF Release
<1>4. Range(todo') = {f}
  BY <1>1, <1>2, <1>3, OnePiece DEF Push, WritingOps
<1>5. Owned' = Owned
  BY <1>1, <1>2, <1>3, <1>4, OwnedSame DEF BusyOps, CreatorOps
<1>6. Building = {c} /\ Building' = {}
  BY <1>1, <1>2, <1>3, <1>4, BuildingAre DEF CreatorOps
<1>7. AllContents' = AllContents /\ Exists' = Exists
  <2>1. ASSUME NEW d \in Collection PROVE ContentsOf(d)' = ContentsOf(d)
    BY <1>1, <1>5, ContentsAre
  <2>. QED BY <1>1, <2>1 DEF AllContents, Exists
<1>8. Abstract!GiveUp(c)
  BY <1>1, <1>6, <1>7 DEF Abstract!GiveUp, AllContents
<1>. QED BY <1>8 DEF AStep, Abstract!ANext, Abstract!Collection, Collection

LEMMA ReturnNewRefines == IInv /\ ReturnNew => AStep
<1>. SUFFICES ASSUME IInv, ReturnNew PROVE AStep
  OBVIOUS
<1>1. /\ todo # <<>> /\ Now.op = "fill" /\ Push(<<>>)
      /\ life' = life /\ slots' = slots /\ mutable' = mutable
      /\ held' = [held EXCEPT ![Now.obj] = @ + 1]
  BY DEF ReturnNew, Running, storage
<1>2. Range(todo) = {Now} /\ Tail(todo) = <<>> /\ Now.obj \in Collection
  BY <1>1, BuildingFacts DEF CreatorOps
<1>. PICK c \in Collection : c = Now.obj
  BY <1>2
<1>3. Range(todo') = {}
  BY <1>1, <1>2, NothingLeft DEF Push
<1>4. Owned' = Owned
  BY <1>1, <1>2, <1>3, OwnedSame DEF BusyOps
<1>5. Building = {c} /\ Building' = {}
  BY <1>1, <1>2, <1>3, BuildingAre DEF CreatorOps
<1>6. AllContents' = AllContents /\ Exists' = Exists
  <2>1. ASSUME NEW d \in Collection PROVE ContentsOf(d)' = ContentsOf(d)
    BY <1>1, <1>4, ContentsAre
  <2>. QED BY <1>1, <2>1 DEF AllContents, Exists
<1>7. Abstract!Return(c)
  BY <1>1, <1>5, <1>6 DEF Abstract!Return, AllContents
<1>. QED BY <1>7 DEF AStep, Abstract!ANext, Abstract!Collection, Collection

-----------------------------------------------------------------------------
\* Only what was born has the mutable flag.
MutableBorn == \A c \in mutable : life[c] # "unborn"

LEMMA MutableBornKeeps == IInv /\ MutableBorn /\ [Next]_vars => MutableBorn'
<1>. SUFFICES ASSUME IInv, MutableBorn, [Next]_vars PROVE MutableBorn'
  OBVIOUS
<1>1. /\ life \in [Object -> {"unborn", "live", "dying", "freed"}]
      /\ mutable \subseteq Object
  BY TypeFacts DEF IInv, Object
<1>2. CASE mutable' \subseteq mutable
           /\ \A o \in Object : life'[o] = life[o] \/ life'[o] \in {"live", "dying", "freed"}
  BY <1>1, <1>2 DEF MutableBorn
<1>3. CASE life' = life /\ mutable' = mutable
  BY <1>2, <1>3
<1>4. CASE ReleaseLast
  <2>1. CASE life[Now.obj] = "live"
    <3>1. life' = [life EXCEPT ![Now.obj] = "dying"] /\ mutable' = mutable
      BY <1>4, <2>1 DEF ReleaseLast, storage
    <3>. QED BY <1>1, <1>2, <3>1
  <2>2. CASE life[Now.obj] # "live"
    BY <1>3, <1>4, <2>2 DEF ReleaseLast, Abort, storage
  <2>. QED BY <2>1, <2>2
<1>5. CASE Free
  <2>1. life' = [life EXCEPT ![Now.obj] = "freed"] /\ mutable' \subseteq mutable
    BY <1>5 DEF Free
  <2>. QED BY <1>1, <1>2, <2>1
<1>6. CASE Step /\ ~ReleaseLast /\ ~Free
  <2>1. life' = life /\ mutable' = mutable
    BY <1>6 DEF Step, ReleaseShared, FinalizeElement, FinalizeBuffer, SetValue,
       AppendValue, GrowAborts, StoreValue, ShiftDown, ReserveRoom, ReserveFails, FillSlot,
       FillFails, ReturnNew, InsertOrReplace, Replace, AddSlot, Abort, storage
  <2>. QED BY <1>3, <2>1
<1>7. CASE Client
  <2>1. CASE ArrayCreate \/ DictionaryCreate \/ ArrayCreateCopy \/ DictionaryCreateCopy
             \/ CreateMutable
    <3>1. PICK c \in Collection, m \in BOOLEAN : Begun(c, m)
      BY <1>7, <2>1, CreationsKeep DEF Client
    <3>2. life' = [life EXCEPT ![c] = "live"] /\ mutable' \subseteq mutable \cup {c} /\ c \in Object
      BY <3>1 DEF Begun, Object
    <3>3. life'[c] = "live" /\ \A o \in Object \ {c} : life'[o] = life[o]
      BY <1>1, <3>2
    <3>. QED BY <1>1, <3>2, <3>3 DEF MutableBorn
  <2>2. CASE CallRetain \/ CallRelease \/ CallAppendValue \/ CallRemoveValueAtIndex
             \/ CallSetValue \/ CallRemoveValue
    <3>1. life' = life /\ mutable' = mutable
      BY <2>2 DEF CallRetain, CallRelease, CallAppendValue, CallRemoveValueAtIndex,
         CallSetValue, CallRemoveValue, Mutate, Call, Abort, storage
    <3>. QED BY <1>3, <3>1
  <2>. QED BY <1>7, <2>1, <2>2 DEF Client
<1>8. CASE UNCHANGED vars
  BY <1>3, <1>8 DEF vars, storage
<1>. QED BY <1>4, <1>5, <1>6, <1>7, <1>8 DEF Next

\* A collection that begins to be built is there, empty, and not returned yet.
LEMMA BegunRefines ==
    ASSUME IInv, MutableBorn, NEW c \in Collection, NEW m \in BOOLEAN, Begun(c, m)
    PROVE  AStep
<1>1. /\ life[c] = "unborn" /\ life' = [life EXCEPT ![c] = "live"]
      /\ mutable' = IF m THEN mutable \cup {c} ELSE mutable
      /\ held' = held /\ Owned' = Owned /\ Owned[c] = <<>> /\ Building = {} /\ Building' = {c}
  BY DEF Begun
<1>2. c \in Object /\ life'[c] = "live" /\ \A x \in Object \ {c} : life'[x] = life[x]
  BY <1>1, TypeFacts DEF IInv, Object
<1>3. Exists' = Exists \cup {c} /\ c \notin Exists
  BY <1>1, <1>2 DEF Exists
<1>4. c \notin mutable
  BY <1>1 DEF MutableBorn
<1>5. (mutable \cap Exists)' = IF m THEN (mutable \cap Exists) \cup {c} ELSE mutable \cap Exists
  BY <1>1, <1>3, <1>4
<1>6. AllContents' = AllContents
  <2>1. ASSUME NEW d \in Collection PROVE ContentsOf(d)' = ContentsOf(d)
    <3>1. CASE d = c
      <4>. QED BY <1>1, <1>2, <3>1, ContentsAre
    <3>2. CASE d # c
      BY <1>1, <1>2, <3>2, ContentsAre DEF Object
    <3>. QED BY <3>1, <3>2
  <2>. QED BY <2>1 DEF AllContents
<1>7. Abstract!Begin(c, m)
  BY <1>1, <1>3, <1>5, <1>6 DEF Abstract!Begin, AllContents
<1>. QED BY <1>7 DEF AStep, Abstract!ANext, Abstract!Collection, Collection

LEMMA RangeOfOne == \A f : Range(<<f>>) = {f}
<1>1. \A f : DOMAIN <<f>> = {1} /\ <<f>>[1] = f
  OBVIOUS
<1>. QED BY <1>1 DEF Range

\* A call that changes an array or a dictionary has only begun.
LEMMA CallChangeRefines == IInv /\ todo = <<>> /\ (CallAppendValue \/ CallSetValue) => AStep
<1>. SUFFICES ASSUME IInv, todo = <<>>, CallAppendValue \/ CallSetValue PROVE AStep
  OBVIOUS
<1>1. PICK c, f : f.op \in MutatorOps /\ Mutate(c, <<f>>)
  <2>1. CASE CallAppendValue
    <3>1. PICK c \in Array \cap Usable, v \in Usable :
            Mutate(c, <<[op |-> "append", obj |-> c, slot |-> [key |-> NULL, value |-> v]]>>)
      BY <2>1 DEF CallAppendValue
    <3>. PICK f : f = [op |-> "append", obj |-> c, slot |-> [key |-> NULL, value |-> v]]
      OBVIOUS
    <3>2. f.op \in MutatorOps /\ Mutate(c, <<f>>)
      BY <3>1 DEF MutatorOps
    <3>. QED BY <3>2
  <2>2. CASE CallSetValue
    <3>1. PICK c \in Dictionary \cap Usable, s \in DictionarySlots :
            Mutate(c, <<[op |-> "set", obj |-> c, slot |-> s]>>)
      BY <2>2 DEF CallSetValue
    <3>. PICK f : f = [op |-> "set", obj |-> c, slot |-> s]
      OBVIOUS
    <3>2. f.op \in MutatorOps /\ Mutate(c, <<f>>)
      BY <3>1 DEF MutatorOps
    <3>. QED BY <3>2
  <2>. QED BY <2>1, <2>2
<1>2. CASE Abort("not mutable")
  BY <1>2, AbortRefines DEF Abort
<1>3. CASE ~Abort("not mutable")
  <2>1. /\ todo' = <<f>> /\ slots' = slots /\ mutable' = mutable /\ life' = life /\ held' = held
    BY <1>1, <1>3 DEF Mutate, Call, storage
  <2>2. \A g \in Range(todo') : g.op \notin BusyOps \cup CreatorOps
    BY <1>1, <2>1, RangeOfOne DEF MutatorOps, BusyOps, CreatorOps
  <2>. QED BY <2>1, <2>2, CallBegins, NotSeenAtAll
<1>. QED BY <1>2, <1>3

LEMMA CallReleaseRefines == IInv /\ todo = <<>> /\ CallRelease => AStep
<1>. SUFFICES ASSUME IInv, todo = <<>>, CallRelease PROVE AStep
  OBVIOUS
<1>1. PICK o \in Object :
        /\ held[o] > 0 /\ held' = [held EXCEPT ![o] = @ - 1]
        /\ Call(<<Release(o)>>) /\ UNCHANGED <<life, rc>>
  BY DEF CallRelease
<1>. PICK f : f = Release(o)
  OBVIOUS
<1>2. f.op = "release" /\ todo' = <<f>> /\ slots' = slots /\ mutable' = mutable /\ life' = life
  BY <1>1 DEF Release, Call, storage
<1>3. Owned' = Owned /\ Building' = Building
  BY <1>2, RangeOfOne, CallBegins DEF BusyOps, CreatorOps
<1>4. AllContents' = AllContents /\ Exists' = Exists
  <2>1. ASSUME NEW d \in Collection PROVE ContentsOf(d)' = ContentsOf(d)
    BY <1>2, <1>3, ContentsAre
  <2>. QED BY <1>2, <2>1 DEF AllContents, Exists
<1>5. Abstract!DropHeld(o)
  BY <1>1, <1>2, <1>3, <1>4 DEF Abstract!DropHeld, AllContents
<1>. QED BY <1>5 DEF AStep, Abstract!ANext

\* Between calls what is in the slots of a live collection is seen in it.
LEMMA SlotsSeen ==
    ASSUME IInv, todo = <<>>, NEW c \in Collection, life[c] = "live"
    PROVE  Members(c) \subseteq Abstract!Members(c) /\ Members(c) \subseteq Object
<1>. PICK z \in Seq(Slot) : z = slots[c]
  BY TypeFacts DEF IInv
<1>1. /\ AllContents[c] = Shown(c, z) /\ \A i \in DOMAIN z : z[i].key = NULL <=> c \in Array
      /\ \A i \in DOMAIN z : z[i] \in Slot
  <2>1. Owned[c] = z
    BY IdleFacts
  <2>2. StoreOK(c)
    BY DEF IInv, StorageOK
  <2>. QED BY <2>1, <2>2, ContentsSeen, LenProperties DEF StoreOK, CollectionOK
<1>2. ASSUME NEW o \in Members(c) PROVE o \in Abstract!Members(c) /\ o \in Object
  <2>1. PICK i \in DOMAIN z : o \in {z[i].key, z[i].value} /\ o # NULL
    BY DEF Members
  <2>2. CASE c \in Array
    <3>1. o = Values(z)[i] /\ i \in DOMAIN Values(z) /\ AllContents[c] = Values(z)
      BY <1>1, <2>1, <2>2 DEF Values, Shown
    <3>. QED BY <1>1, <2>1, <2>2, <3>1 DEF Abstract!Members, AllContents, Slot
  <2>3. CASE c \notin Array
    <3>. PICK p : p = <<z[i].key, z[i].value>>
      OBVIOUS
    <3>1. p \in AllContents[c] /\ o \in {p[1], p[2]}
      BY <1>1, <2>1, <2>3 DEF Pairs, Shown
    <3>. QED BY <1>1, <2>1, <2>3, <3>1 DEF Abstract!Members, AllContents, Slot
  <2>. QED BY <2>2, <2>3
<1>. QED BY <1>2

\* What the client may use is referred to.
LEMMA UsableReferenced ==
    ASSUME IInv, todo = <<>>, NEW o \in Usable
    PROVE  o \in Object /\ life[o] = "live" /\ Abstract!Referenced(o)
<1>. DEFINE S == {x \in Object : life[x] = "live" /\ Abstract!Referenced(x)}
            inside == [c \in Collection |-> Members(c)]
            from == {x \in Object : held[x] > 0}
<1>1. from \subseteq S
  <2>1. \A x \in Object : held[x] > 0 => life[x] = "live"
    BY KeptFacts
  <2>. QED BY <2>1 DEF Abstract!Referenced
<1>2. ASSUME NEW c \in S \cap Collection PROVE inside[c] \subseteq S
  <2>1. Members(c) \subseteq Abstract!Members(c) /\ Members(c) \subseteq Object
    BY <1>2, SlotsSeen
  <2>2. ASSUME NEW x \in Members(c) PROVE x \in S
    <3>1. Abstract!Contained(x)
      BY <1>2, <2>1, <2>2 DEF Abstract!Contained, Abstract!Collection, Collection, Exists
    <3>2. x # NULL /\ x \in Object
      BY <2>1, <2>2 DEF Members
    <3>3. x \in InSlots(Owned[c])
      BY <1>2, <2>1, <2>2, <3>2, SeenIsOwned
    <3>4. SlotRefs(Owned, x) > 0
      BY <3>3, OwnedTyped, SlotRefsMember DEF IInv
    <3>5. life[x] = "live"
      <4>. PICK k \in Nat : k = SlotRefs(Owned, x)
        BY <3>2, CountFacts
      <4>. PICK h \in Nat : h = held[x]
        BY <3>2, CountFacts
      <4>. PICK q \in Nat : q = Occ(todo, Owning(x))
        BY <3>2, CountFacts
      <4>1. References(x) = h + k + q
        BY <3>2, CountFacts
      <4>2. References(x) > 0
        BY <3>4, <4>1
      <4>. QED BY <3>2, <4>2, CountFacts
    <3>. QED BY <3>1, <3>2, <3>5 DEF Abstract!Referenced
  <2>. QED BY <2>2
<1>3. S \in SUBSET Object
  OBVIOUS
<1>. HIDE DEF S
<1>4. Closed(S, from, inside)
  BY <1>1, <1>2 DEF Closed
<1>5. Usable \subseteq S
  BY <1>3, <1>4, ReachableLeast DEF Usable
<1>. QED BY <1>5 DEF S

LEMMA CallRetainRefines == IInv /\ todo = <<>> /\ CallRetain => AStep
<1>. SUFFICES ASSUME IInv, todo = <<>>, CallRetain PROVE AStep
  OBVIOUS
<1>1. PICK o \in Usable :
        /\ held' = [held EXCEPT ![o] = @ + 1] /\ Call(<<>>) /\ UNCHANGED life
  BY DEF CallRetain
<1>2. slots' = slots /\ mutable' = mutable /\ life' = life /\ Range(todo') = {}
  BY <1>1, NothingLeft DEF Call, storage
<1>3. Owned' = Owned /\ Building' = Building
  BY <1>2, CallBegins
<1>4. AllContents' = AllContents /\ Exists' = Exists
  <2>1. ASSUME NEW d \in Collection PROVE ContentsOf(d)' = ContentsOf(d)
    BY <1>2, <1>3, ContentsAre
  <2>. QED BY <1>2, <2>1 DEF AllContents, Exists
<1>5. o \in Object /\ o \in Exists /\ Abstract!Referenced(o)
  BY UsableReferenced DEF Exists
<1>6. Abstract!RetainHeld(o)
  BY <1>1, <1>2, <1>3, <1>4, <1>5 DEF Abstract!RetainHeld, AllContents
<1>. QED BY <1>5, <1>6 DEF AStep, Abstract!ANext

-----------------------------------------------------------------------------
LEMMA NextRefines == IInv /\ MutableBorn /\ [Next]_vars => AStep
<1>. SUFFICES ASSUME IInv, MutableBorn, [Next]_vars PROVE AStep
  OBVIOUS
<1>1. CASE Step
  <2>1. CASE GrowAborts
    BY <2>1, AbortRefines DEF GrowAborts, Abort
  <2>. QED BY <1>1, <2>1, ReleaseSharedRefines, ReleaseLastRefines, FinalizeElementRefines,
              FinalizeBufferRefines, FreeRefines, InsertRefines, WriteRefines,
              ReserveRoomRefines, GiveUpRefines, ReturnNewRefines DEF Step
<1>2. CASE Client
  <2>1. CASE ArrayCreate \/ DictionaryCreate \/ ArrayCreateCopy \/ DictionaryCreateCopy
             \/ CreateMutable
    BY <1>2, <2>1, CreationsKeep, BegunRefines DEF Client
  <2>. QED BY <1>2, <2>1, CallRetainRefines, CallReleaseRefines, CallChangeRefines,
              CallRemoveValueAtIndexRefines, CallRemoveValueRefines DEF Client
<1>3. CASE UNCHANGED vars
  BY <1>3, AbortRefines DEF vars, storage
<1>. QED BY <1>1, <1>2, <1>3 DEF Next

LEMMA InitRefines == Init => Abstract!AInit /\ MutableBorn
<1>. SUFFICES ASSUME Init PROVE Abstract!AInit /\ MutableBorn
  OBVIOUS
<1>1. /\ life = [o \in Object |-> IF o \in Leaf THEN "live" ELSE "unborn"]
      /\ mutable = {} /\ held = [o \in Object |-> IF o \in Leaf THEN 1 ELSE 0]
      /\ todo = <<>>
  BY DEF Init
<1>2. Exists = Leaf
  BY <1>1 DEF Exists, Object
<1>3. Building = {}
  BY <1>1, NothingLeft, BuildingAre
<1>4. AllContents = [c \in Collection |-> Abstract!Empty(c)]
  <2>1. ASSUME NEW c \in Collection PROVE ContentsOf(c) = Abstract!Empty(c)
    <3>1. life[c] # "live"
      BY <1>1, ObjectsDistinct DEF Object
    <3>. QED BY <3>1, ContentsAre, EmptyIsShown
  <2>. QED BY <2>1 DEF AllContents
<1>5. Leaf \subseteq Object \ Collection
  BY ObjectsDistinct DEF Object
<1>6. held \in [Object -> Nat] /\ \A o \in Object : held[o] > 0 <=> o \in Leaf
  BY <1>1
<1>. QED BY <1>1, <1>2, <1>3, <1>4, <1>5, <1>6
         DEF Abstract!AInit, AllContents, Abstract!Collection, Collection, MutableBorn

\* The calls on arrays and dictionaries, with the cascade of releases behind them,
\* implement atomic operations on sequences and maps: whatever the pieces of a call do
\* in between, each changes what a collection is seen to contain in one step or not
\* at all, and an object goes away only when nothing refers to it.
THEOREM CollectionsImplemented == Spec => ImplementsCollections
<1>1. IInv /\ MutableBorn /\ [Next]_vars => [Abstract!ANext]_(Abstract!avars)
  BY NextRefines DEF AStep
<1>2. Spec => [](IInv /\ MutableBorn)
  BY Invariant, InitRefines, MutableBornKeeps, PTL DEF Spec
<1>. QED BY <1>1, <1>2, InitRefines, PTL DEF Spec, ImplementsCollections, Abstract!ASpec
=============================================================================
