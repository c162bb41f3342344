---------------------------- MODULE LinkedLists -----------------------------
(***************************************************************************)
(* What the linked lists of litetask have in common, for proofs about      *)
(* them: a head and two links per entry, or one in timer.c, stand for a    *)
(* sequence of entries, and appending, pushing and unlinking an entry      *)
(* (semaphor.c, task.c, timer.c and xwindow.c write them out) stand for    *)
(* what one does to sequences.  So do its rings: serial.c, bioscon.c and   *)
(* xevents.c store at a head and take at a tail that go round.             *)
(***************************************************************************)
EXTENDS Integers, Sequences, FiniteSets, FiniteSetTheorems, SequenceTheorems,
        NaturalsInduction, WellFoundedInduction, TLAPS

\* The entries of a sequence, and its last one
Elements(s) == {s[i] : i \in 1..Len(s)}
LastOf(s, nil) == IF Len(s) = 0 THEN nil ELSE s[Len(s)]

\* s without its k-th entry
Without(s, k) == [i \in 1..(Len(s) - 1) |-> IF i < k THEN s[i] ELSE s[i + 1]]

\* s from its entry k + 1 on
RestOf(s, k) == [i \in 1..(Len(s) - k) |-> s[k + i]]

\* The entries of s, each once, are linked forwards from the head
Forward(s, head, nxt, nil) ==
    /\ \A i, j \in 1..Len(s) : s[i] = s[j] => i = j
    /\ head = IF Len(s) = 0 THEN nil ELSE s[1]
    /\ \A i \in 1..Len(s) : nxt[s[i]] = IF i = Len(s) THEN nil ELSE s[i + 1]

\* ... and backwards
Backward(s, prv, nil) ==
    \A i \in 1..Len(s) : prv[s[i]] = IF i = 1 THEN nil ELSE s[i - 1]

IsList(s, head, nxt, prv, nil) == Forward(s, head, nxt, nil) /\ Backward(s, prv, nil)

-----------------------------------------------------------------------------
(* Sequences *)

\* A set of natural numbers has a least one.
LEMMA LeastOf ==
    ASSUME NEW D, D \subseteq Nat, D # {}
    PROVE  \E x \in D : \A y \in D : x <= y
  <1> DEFINE Less == OpToRel(<, Nat)
  <1>1. PICK x \in D : \A y \in D : <<y, x>> \notin Less
    BY NatLessThanWellFounded, WFMin
  <1>2. \A y \in D : ~(y < x)
    BY <1>1 DEF OpToRel
  <1>3. \A y \in D : x <= y
    BY <1>2
  <1> QED
    BY <1>3

\* The entries of a sequence of members of S are members of S.
LEMMA ElementsIn ==
    ASSUME NEW S, NEW s \in Seq(S)
    PROVE  Elements(s) \subseteq S /\ Len(s) \in Nat
  <1>1. Len(s) \in Nat /\ \A i \in 1..Len(s) : s[i] \in S
    BY LenProperties
  <1> QED
    BY <1>1 DEF Elements

\* A sequence with an entry appended.
LEMMA AppendElements ==
    ASSUME NEW S, NEW s \in Seq(S), NEW t \in S
    PROVE  /\ Append(s, t) \in Seq(S)
           /\ Len(Append(s, t)) = Len(s) + 1
           /\ \A i \in 1..Len(s) : Append(s, t)[i] = s[i]
           /\ Append(s, t)[Len(s) + 1] = t
           /\ Elements(Append(s, t)) = Elements(s) \cup {t}
  <1>1. /\ Append(s, t) \in Seq(S) /\ Len(Append(s, t)) = Len(s) + 1 /\ Len(s) \in Nat
        /\ \A i \in 1..Len(s) : Append(s, t)[i] = s[i]
        /\ Append(s, t)[Len(s) + 1] = t
    BY AppendProperties
  <1>2. PICK a : a = Append(s, t)
    OBVIOUS
  <1>3. {a[i] : i \in 1..(Len(s) + 1)} = {s[i] : i \in 1..Len(s)} \cup {t}
    <2>1. \A i \in 1..(Len(s) + 1) : a[i] = IF i = Len(s) + 1 THEN t ELSE s[i]
      BY <1>1, <1>2
    <2>2. Len(s) + 1 \in 1..(Len(s) + 1)
      BY <1>1
    <2>3. \A i \in 1..Len(s) : i \in 1..(Len(s) + 1) /\ a[i] = s[i]
      BY <1>1, <1>2
    <2>4. \A i \in 1..(Len(s) + 1) : i = Len(s) + 1 \/ i \in 1..Len(s)
      BY <1>1
    <2> QED
      BY <2>1, <2>2, <2>3, <2>4
  <1> QED
    BY <1>1, <1>2, <1>3 DEF Elements

\* A sequence without one of its entries.
LEMMA WithoutElements ==
    ASSUME NEW S, NEW s \in Seq(S), NEW k \in 1..Len(s),
           \A i, j \in 1..Len(s) : s[i] = s[j] => i = j
    PROVE  /\ Without(s, k) \in Seq(S)
           /\ Len(Without(s, k)) = Len(s) - 1
           /\ \A i \in 1..(Len(s) - 1) : Without(s, k)[i] = IF i < k THEN s[i] ELSE s[i + 1]
           /\ Elements(Without(s, k)) = Elements(s) \ {s[k]}
  <1>1. Len(s) \in Nat /\ s \in [1..Len(s) -> S] /\ k \in Nat
    BY LenProperties
  <1> DEFINE n == Len(s)
             w == Without(s, k)
  <1>2. w \in [1..(n - 1) -> S] /\ \A i \in 1..(n - 1) : w[i] = IF i < k THEN s[i] ELSE s[i + 1]
    BY <1>1 DEF Without
  <1>3. n - 1 \in Nat
    BY <1>1
  <1> HIDE DEF w
  <1>4. w \in Seq(S) /\ Len(w) = n - 1
    <2>1. DOMAIN w = 1..(n - 1)
      BY <1>2
    <2>2. w \in Seq(S)
      BY <1>2, <1>3, SeqDef
    <2> QED
      BY <1>3, <2>1, <2>2, LenProperties
  <1>5. Elements(w) = Elements(s) \ {s[k]}
    <2>1. ASSUME NEW i \in 1..(n - 1) PROVE w[i] \in Elements(s) \ {s[k]}
      <3>1. CASE i < k
        BY <1>1, <1>2, <3>1 DEF Elements
      <3>2. CASE ~(i < k)
        <4>1. i + 1 \in 1..n /\ i + 1 # k /\ w[i] = s[i + 1]
          BY <1>1, <1>2, <3>2
        <4> QED
          BY <4>1 DEF Elements
      <3> QED
        BY <3>1, <3>2
    <2>2. ASSUME NEW j \in 1..n, s[j] # s[k] PROVE s[j] \in Elements(w)
      <3>1. CASE j < k
        <4>1. j \in 1..(n - 1) /\ w[j] = s[j]
          BY <1>1, <1>2, <3>1
        <4> QED
          BY <1>4, <4>1 DEF Elements
      <3>2. CASE ~(j < k)
        <4>1. j # k /\ j - 1 \in 1..(n - 1) /\ ~(j - 1 < k) /\ j - 1 + 1 = j
          BY <1>1, <2>2, <3>2
        <4>2. w[j - 1] = s[j]
          BY <1>2, <4>1
        <4> QED
          BY <1>4, <4>1, <4>2 DEF Elements
      <3> QED
        BY <3>1, <3>2
    <2>3. Elements(w) = {w[i] : i \in 1..(n - 1)}
      BY <1>4 DEF Elements
    <2>4. Elements(s) = {s[j] : j \in 1..n}
      BY DEF Elements
    <2>5. Elements(w) \subseteq Elements(s) \ {s[k]}
      BY <2>1, <2>3
    <2>6. Elements(s) \ {s[k]} \subseteq Elements(w)
      BY <2>2, <2>4
    <2> QED
      BY <2>5, <2>6
  <1> QED
    BY <1>2, <1>4, <1>5 DEF w

\* It is what precedes the entry, and then what follows it.
LEMMA WithoutSubSeqs ==
    ASSUME NEW S, NEW s \in Seq(S), NEW k \in 1..Len(s)
    PROVE  Without(s, k) = SubSeq(s, 1, k - 1) \o SubSeq(s, k + 1, Len(s))
  <1> DEFINE n == Len(s)
             a == SubSeq(s, 1, k - 1)
             b == SubSeq(s, k + 1, n)
  <1>1. n \in Nat /\ k \in 1..n /\ \A i \in 1..n : s[i] \in S
    BY LenProperties
  <1>2. a \in Seq(S) /\ Len(a) = k - 1 /\ \A i \in 1..(k - 1) : a[i] = s[i]
    <2>1. /\ a \in Seq(S) /\ Len(a) = IF 1 <= k - 1 THEN k - 1 - 1 + 1 ELSE 0
          /\ \A i \in 1..(k - 1 - 1 + 1) : a[i] = s[1 + i - 1]
      <3>1. 1 \in Int /\ k - 1 \in Int /\ \A i \in 1..(k - 1) : s[i] \in S
        BY <1>1
      <3> QED
        BY <3>1, SubSeqProperties
    <2> HIDE DEF a
    <2>2. Len(a) = k - 1
      BY <1>1, <2>1
    <2>3. \A i \in 1..(k - 1) : a[i] = s[i]
      <3>1. \A i \in 1..(k - 1) : i \in 1..(k - 1 - 1 + 1) /\ 1 + i - 1 = i
        BY <1>1
      <3> QED
        BY <2>1, <3>1
    <2> QED
      BY <2>1, <2>2, <2>3
  <1>3. b \in Seq(S) /\ Len(b) = n - k /\ \A i \in 1..(n - k) : b[i] = s[k + i]
    <2>1. /\ b \in Seq(S) /\ Len(b) = IF k + 1 <= n THEN n - (k + 1) + 1 ELSE 0
          /\ \A i \in 1..(n - (k + 1) + 1) : b[i] = s[k + 1 + i - 1]
      <3>1. k + 1 \in Int /\ n \in Int /\ \A i \in (k + 1)..n : s[i] \in S
        BY <1>1
      <3> HIDE DEF n
      <3> QED
        BY <3>1, SubSeqProperties
    <2> HIDE DEF b, n
    <2>2. Len(b) = n - k
      BY <1>1, <2>1
    <2>3. \A i \in 1..(n - k) : b[i] = s[k + i]
      <3>1. \A i \in 1..(n - k) : i \in 1..(n - (k + 1) + 1) /\ k + 1 + i - 1 = k + i
        BY <1>1
      <3> QED
        BY <2>1, <3>1
    <2> QED
      BY <2>1, <2>2, <2>3
  <1> HIDE DEF a, b
  <1>4. /\ a \o b \in Seq(S) /\ Len(a \o b) = Len(a) + Len(b)
        /\ \A i \in 1..(Len(a) + Len(b)) : (a \o b)[i] = IF i <= Len(a) THEN a[i] ELSE b[i - Len(a)]
    BY <1>2, <1>3, ConcatProperties
  <1> HIDE DEF n
  <1>5. \A i \in 1..(n - 1) : (a \o b)[i] = IF i < k THEN s[i] ELSE s[i + 1]
    <2> SUFFICES ASSUME NEW i \in 1..(n - 1) PROVE (a \o b)[i] = IF i < k THEN s[i] ELSE s[i + 1]
      OBVIOUS
    <2>0. i \in 1..(Len(a) + Len(b))
      BY <1>1, <1>2, <1>3
    <2>1. CASE i < k
      <3>1. i <= Len(a) /\ i \in 1..(k - 1)
        BY <1>1, <1>2, <2>1
      <3> QED
        BY <1>2, <1>4, <2>0, <2>1, <3>1
    <2>2. CASE ~(i < k)
      <3>1. ~(i <= Len(a)) /\ i - Len(a) \in 1..(n - k) /\ k + (i - Len(a)) = i + 1
        BY <1>1, <1>2, <2>2
      <3> QED
        BY <1>3, <1>4, <2>0, <2>2, <3>1
    <2> QED
      BY <2>1, <2>2
  <1>6. a \o b = [i \in 1..(n - 1) |-> (a \o b)[i]]
    <2>1. Len(a \o b) = n - 1
      BY <1>1, <1>2, <1>3, <1>4
    <2> QED
      BY <1>4, <2>1, LenProperties
  <1> QED
    BY <1>5, <1>6 DEF Without, a, b, n

\* Removing the first entry is Tail.
LEMMA WithoutFirst ==
    ASSUME NEW S, NEW s \in Seq(S), Len(s) # 0
    PROVE  Without(s, 1) = Tail(s) /\ Head(s) = s[1]
  <1>1. s # <<>> /\ Len(s) \in Nat /\ s \in [1..Len(s) -> S]
    BY LenProperties
  <1>2. /\ Tail(s) \in Seq(S) /\ Len(Tail(s)) = Len(s) - 1
        /\ \A i \in 1..Len(Tail(s)) : Tail(s)[i] = s[i + 1]
    BY <1>1, HeadTailProperties
  <1>3. Tail(s) \in [1..(Len(s) - 1) -> S]
    BY <1>2, LenProperties
  <1>4. Without(s, 1) = [i \in 1..(Len(s) - 1) |-> s[i + 1]]
    BY <1>1 DEF Without
  <1>5. Tail(s) = [i \in 1..(Len(s) - 1) |-> s[i + 1]]
    BY <1>2, <1>3
  <1> QED
    BY <1>1, <1>4, <1>5

\* Entries that are all different are no more than there are.
LEMMA FewElements ==
    ASSUME NEW S, IsFiniteSet(S), NEW s \in Seq(S),
           \A i, j \in 1..Len(s) : s[i] = s[j] => i = j
    PROVE  Len(s) <= Cardinality(S) /\ Cardinality(S) \in Nat
  <1>1. Len(s) \in Nat /\ s \in [1..Len(s) -> S]
    BY LenProperties
  <1>2. s \in Injection(1..Len(s), S)
    BY <1>1 DEF Injection, IsInjective
  <1>3. Cardinality(1..Len(s)) <= Cardinality(S)
    BY <1>2, FS_Injection
  <1>4. Cardinality(1..Len(s)) = Len(s)
    BY <1>1, FS_Interval
  <1> QED
    BY <1>3, <1>4, FS_CardinalityType

\* The number of entries that are all different.
LEMMA CountElements ==
    ASSUME NEW S, NEW s \in Seq(S), \A i, j \in 1..Len(s) : s[i] = s[j] => i = j
    PROVE  Cardinality(Elements(s)) = Len(s)
  <1>1. Len(s) \in Nat /\ s \in [1..Len(s) -> S]
    BY LenProperties
  <1>2. s \in Bijection(1..Len(s), Elements(s))
    BY <1>1 DEF Bijection, Injection, Surjection, IsInjective, Elements
  <1> QED
    BY <1>1, <1>2, FS_CountingElements DEF ExistsBijection

-----------------------------------------------------------------------------
(* Lists *)

\* The entries of a list are followed by the next ones, and only by them.
LEMMA AppendedList ==
    ASSUME NEW S, NEW nil, nil \notin S, NEW s \in Seq(S), NEW t \in S, t \notin Elements(s),
           NEW head, NEW nxt, NEW prv, IsList(s, head, nxt, prv, nil),
           NEW nxt2, NEW prv2,
           nxt2[t] = nil, LastOf(s, nil) # nil => nxt2[LastOf(s, nil)] = t,
           \A u \in S \ {t, LastOf(s, nil)} : nxt2[u] = nxt[u],
           prv2[t] = LastOf(s, nil),
           \A u \in S \ {t} : prv2[u] = prv[u]
    PROVE  /\ IsList(Append(s, t), IF LastOf(s, nil) # nil THEN head ELSE t, nxt2, prv2, nil)
           /\ LastOf(Append(s, t), nil) = t
  <1> DEFINE n == Len(s)
             a == Append(s, t)
  <1>1. n \in Nat /\ \A i \in 1..n : s[i] \in S
    BY LenProperties
  <1>2. Len(a) = n + 1 /\ a[n + 1] = t /\ \A i \in 1..n : a[i] = s[i]
    BY AppendElements
  <1>3. \A i \in 1..n : s[i] # t
    BY DEF Elements
  <1>4. /\ \A i, j \in 1..n : s[i] = s[j] => i = j
        /\ head = IF n = 0 THEN nil ELSE s[1]
        /\ \A i \in 1..n : nxt[s[i]] = IF i = n THEN nil ELSE s[i + 1]
        /\ \A i \in 1..n : prv[s[i]] = IF i = 1 THEN nil ELSE s[i - 1]
    BY DEF IsList, Forward, Backward
  <1>5. LastOf(s, nil) = IF n = 0 THEN nil ELSE s[n]
    BY DEF LastOf
  <1> HIDE DEF a, n
  <1>6. \A i, j \in 1..(n + 1) : a[i] = a[j] => i = j
    <2>1. \A i \in 1..(n + 1) : i \in 1..n \/ i = n + 1
      BY <1>1
    <2> QED
      BY <1>2, <1>3, <1>4, <2>1
  <1>7. (IF LastOf(s, nil) # nil THEN head ELSE t) = a[1]
    BY <1>1, <1>2, <1>4, <1>5
  <1>8. ASSUME NEW i \in 1..(n + 1) PROVE nxt2[a[i]] = IF i = n + 1 THEN nil ELSE a[i + 1]
    <2>1. CASE i = n + 1
      BY <1>2, <2>1
    <2>2. CASE i = n /\ n # 0
      <3>1. LastOf(s, nil) = s[n] /\ s[n] \in S /\ n \in 1..n
        BY <1>1, <1>5, <2>2
      <3>2. a[i] = s[n] /\ nxt2[s[n]] = t
        BY <1>2, <2>2, <3>1
      <3> QED
        BY <1>1, <1>2, <2>2, <3>2
    <2>3. CASE i < n
      <3>1. i \in 1..n /\ i + 1 \in 1..n /\ i # n
        BY <1>1, <2>3
      <3>2. s[i] \in S /\ s[i] # t /\ s[i] # s[n]
        BY <1>1, <1>3, <1>4, <3>1
      <3>3. nxt2[s[i]] = s[i + 1]
        BY <1>4, <1>5, <3>1, <3>2
      <3> QED
        BY <1>1, <1>2, <2>3, <3>1, <3>3
    <2> QED
      BY <1>1, <2>1, <2>2, <2>3
  <1>9. ASSUME NEW i \in 1..(n + 1) PROVE prv2[a[i]] = IF i = 1 THEN nil ELSE a[i - 1]
    <2>1. CASE i = n + 1
      <3>1. n # 0 => n \in 1..n
        BY <1>1
      <3> QED
        BY <1>1, <1>2, <1>5, <2>1, <3>1
    <2>2. CASE i \in 1..n
      <3>1. prv2[s[i]] = prv[s[i]] /\ (i # 1 => i - 1 \in 1..n)
        BY <1>1, <1>3, <2>2
      <3> QED
        BY <1>2, <1>4, <2>2, <3>1
    <2> QED
      BY <1>1, <2>1, <2>2
  <1>10. LastOf(a, nil) = t
    BY <1>1, <1>2 DEF LastOf
  <1>11. IsList(a, a[1], nxt2, prv2, nil)
    BY <1>1, <1>2, <1>6, <1>8, <1>9 DEF IsList, Forward, Backward
  <1> QED
    BY <1>7, <1>10, <1>11 DEF a

\* Unlinking the k-th entry: what precedes it and what follows it are linked.
LEMMA UnlinkedList ==
    ASSUME NEW S, NEW nil, nil \notin S, NEW s \in Seq(S), NEW k \in 1..Len(s),
           NEW head, NEW nxt, NEW prv, IsList(s, head, nxt, prv, nil),
           NEW nxt2, NEW prv2,
           \A u \in S \ {s[k]} : nxt2[u] = IF u = prv[s[k]] THEN nxt[s[k]] ELSE nxt[u],
           \A u \in S \ {s[k]} : prv2[u] = IF u = nxt[s[k]] THEN prv[s[k]] ELSE prv[u]
    PROVE  /\ IsList(Without(s, k), IF prv[s[k]] # nil THEN head ELSE nxt[s[k]], nxt2, prv2, nil)
           /\ LastOf(Without(s, k), nil) = IF nxt[s[k]] # nil THEN LastOf(s, nil) ELSE prv[s[k]]
  <1> DEFINE n == Len(s)
             w == Without(s, k)
  <1>1. n \in Nat /\ k \in 1..n /\ \A i \in 1..n : s[i] \in S /\ s[i] # nil
    BY LenProperties
  <1>2. /\ \A i, j \in 1..n : s[i] = s[j] => i = j
        /\ head = IF n = 0 THEN nil ELSE s[1]
        /\ \A i \in 1..n : nxt[s[i]] = IF i = n THEN nil ELSE s[i + 1]
        /\ \A i \in 1..n : prv[s[i]] = IF i = 1 THEN nil ELSE s[i - 1]
    BY DEF IsList, Forward, Backward
  <1>3. Len(w) = n - 1 /\ \A i \in 1..(n - 1) : w[i] = IF i < k THEN s[i] ELSE s[i + 1]
    BY <1>2, WithoutElements
  <1>4. LastOf(s, nil) = IF n = 0 THEN nil ELSE s[n]
    BY DEF LastOf
  <1> HIDE DEF w, n
  <1>5. \A i, j \in 1..(n - 1) : w[i] = w[j] => i = j
    <2> SUFFICES ASSUME NEW i \in 1..(n - 1), NEW j \in 1..(n - 1), w[i] = w[j] PROVE i = j
      OBVIOUS
    <2>1. /\ i \in 1..n /\ i + 1 \in 1..n /\ j \in 1..n /\ j + 1 \in 1..n
      BY <1>1
    <2>2. PICK a \in 1..n : a = (IF i < k THEN i ELSE i + 1) /\ w[i] = s[a]
      BY <1>3, <2>1
    <2>3. PICK b \in 1..n : b = (IF j < k THEN j ELSE j + 1) /\ w[j] = s[b]
      BY <1>3, <2>1
    <2>4. a = b
      <3>1. s[a] = s[b]
        BY <2>2, <2>3
      <3>2. \A x, y \in 1..n : s[x] = s[y] => x = y
        BY <1>2
      <3> QED
        BY <3>1, <3>2
    <2> QED
      BY <1>1, <2>2, <2>3, <2>4
  <1>6. (IF prv[s[k]] # nil THEN head ELSE nxt[s[k]]) = IF n - 1 = 0 THEN nil ELSE w[1]
    <2>1. CASE k = 1
      <3>1. prv[s[k]] = nil /\ nxt[s[k]] = IF n = 1 THEN nil ELSE s[2]
        BY <1>1, <1>2, <2>1
      <3>2. n # 1 => 1 \in 1..(n - 1) /\ w[1] = s[2]
        BY <1>1, <1>3, <2>1
      <3> QED
        BY <1>1, <3>1, <3>2
    <2>2. CASE k # 1
      <3>1. prv[s[k]] # nil /\ head = s[1] /\ 1 \in 1..(n - 1) /\ 1 < k
        BY <1>1, <1>2, <2>2
      <3> QED
        BY <1>1, <1>3, <3>1
    <2> QED
      BY <2>1, <2>2
  <1>7. ASSUME NEW i \in 1..(n - 1) PROVE nxt2[w[i]] = IF i = n - 1 THEN nil ELSE w[i + 1]
    <2>1. CASE i = k - 1
      <3>1. w[i] = s[k - 1] /\ k - 1 \in 1..n /\ prv[s[k]] = s[k - 1] /\ s[k - 1] # s[k]
        BY <1>1, <1>2, <1>3, <2>1
      <3>2. nxt2[w[i]] = nxt[s[k]]
        BY <1>1, <3>1 DEF n
      <3>3. CASE k = n
        BY <1>1, <1>2, <2>1, <3>2, <3>3
      <3>4. CASE k # n
        <4>1. i + 1 \in 1..(n - 1) /\ ~(i + 1 < k) /\ i + 1 + 1 = k + 1 /\ i # n - 1
          BY <1>1, <2>1, <3>4
        <4>2. w[i + 1] = s[k + 1]
          BY <1>3, <4>1
        <4> QED
          BY <1>1, <1>2, <3>2, <3>4, <4>1, <4>2
      <3> QED
        BY <3>3, <3>4
    <2>2. CASE i < k - 1
      <3>1. /\ i \in 1..n /\ i < k /\ i + 1 < k /\ i # n - 1 /\ i + 1 \in 1..(n - 1)
            /\ i # k /\ k # 1 /\ k - 1 \in 1..n /\ i # k - 1 /\ i # n
        BY <1>1, <2>2
      <3>2. w[i] = s[i] /\ w[i + 1] = s[i + 1] /\ s[i] # s[k] /\ s[i] # s[k - 1] /\ prv[s[k]] = s[k - 1]
        BY <1>1, <1>2, <1>3, <3>1
      <3>3. nxt2[s[i]] = nxt[s[i]]
        BY <1>1, <3>1, <3>2
      <3> QED
        BY <1>2, <3>1, <3>2, <3>3
    <2>3. CASE i >= k
      <3>1. /\ i + 1 \in 1..n /\ ~(i < k) /\ i + 1 # k /\ (k # 1 => k - 1 \in 1..n /\ i + 1 # k - 1)
        BY <1>1, <2>3
      <3>2. w[i] = s[i + 1] /\ s[i + 1] # s[k] /\ s[i + 1] # prv[s[k]] /\ s[i + 1] \in S
        BY <1>1, <1>2, <1>3, <3>1
      <3>3. nxt2[w[i]] = nxt[s[i + 1]]
        BY <3>2
      <3>4. CASE i = n - 1
        BY <1>1, <1>2, <3>1, <3>3, <3>4
      <3>5. CASE i # n - 1
        <4>1. i + 1 \in 1..(n - 1) /\ ~(i + 1 < k) /\ i + 1 # n
          BY <1>1, <2>3, <3>5
        <4> QED
          BY <1>2, <1>3, <3>1, <3>3, <3>5, <4>1
      <3> QED
        BY <3>4, <3>5
    <2> QED
      BY <1>1, <2>1, <2>2, <2>3
  <1>8. ASSUME NEW i \in 1..(n - 1) PROVE prv2[w[i]] = IF i = 1 THEN nil ELSE w[i - 1]
    <2>1. CASE i = k
      <3>1. /\ i + 1 \in 1..n /\ ~(i < k) /\ k + 1 # k /\ k # n
        BY <1>1, <2>1
      <3>2. w[i] = s[k + 1] /\ nxt[s[k]] = s[k + 1] /\ s[k + 1] # s[k] /\ s[k + 1] \in S
        BY <1>1, <1>2, <1>3, <2>1, <3>1
      <3>3. prv2[w[i]] = prv[s[k]]
        BY <3>2
      <3>4. i # 1 => i - 1 \in 1..(n - 1) /\ w[i - 1] = s[k - 1]
        BY <1>1, <1>3, <2>1
      <3> QED
        BY <1>1, <1>2, <2>1, <3>3, <3>4
    <2>2. CASE i < k
      <3>1. /\ i \in 1..n /\ i # k /\ (k # n => k + 1 \in 1..n /\ i # k + 1)
            /\ (i # 1 => i - 1 \in 1..(n - 1) /\ i - 1 < k)
        BY <1>1, <2>2
      <3>2. w[i] = s[i] /\ s[i] # s[k] /\ s[i] # nxt[s[k]] /\ s[i] \in S
        BY <1>1, <1>2, <1>3, <2>2, <3>1
      <3>3. prv2[w[i]] = prv[s[i]]
        BY <3>2
      <3> QED
        BY <1>2, <1>3, <3>1, <3>3
    <2>3. CASE i > k
      <3>1. /\ i + 1 \in 1..n /\ ~(i < k) /\ i + 1 # k /\ k + 1 \in 1..n /\ i + 1 # k + 1 /\ k # n
            /\ i # 1 /\ i - 1 \in 1..(n - 1) /\ ~(i - 1 < k) /\ i - 1 + 1 = i /\ i + 1 - 1 = i /\ i + 1 # 1
        BY <1>1, <2>3
      <3>2. w[i] = s[i + 1] /\ s[i + 1] # s[k] /\ nxt[s[k]] = s[k + 1] /\ s[i + 1] # s[k + 1]
            /\ s[i + 1] \in S /\ w[i - 1] = s[i]
        BY <1>1, <1>2, <1>3, <3>1
      <3>3. prv2[w[i]] = prv[s[i + 1]]
        BY <3>2
      <3>4. prv[s[i + 1]] = s[i]
        BY <1>2, <3>1
      <3> QED
        BY <3>1, <3>2, <3>3, <3>4
    <2> QED
      BY <1>1, <2>1, <2>2, <2>3
  <1>9. LastOf(w, nil) = IF nxt[s[k]] # nil THEN LastOf(s, nil) ELSE prv[s[k]]
    <2>1. LastOf(w, nil) = IF n - 1 = 0 THEN nil ELSE w[n - 1]
      BY <1>3 DEF LastOf
    <2>2. CASE k = n
      <3>1. nxt[s[k]] = nil /\ (n # 1 => n - 1 \in 1..(n - 1) /\ n - 1 < k)
        BY <1>1, <1>2, <2>2
      <3> QED
        BY <1>1, <1>2, <1>3, <2>1, <2>2, <3>1
    <2>3. CASE k # n
      <3>1. nxt[s[k]] # nil /\ n - 1 \in 1..(n - 1) /\ ~(n - 1 < k) /\ n - 1 + 1 = n
        BY <1>1, <1>2, <2>3
      <3> QED
        BY <1>1, <1>3, <1>4, <2>1, <3>1
    <2> QED
      BY <2>2, <2>3
  <1>10. IsList(w, IF n - 1 = 0 THEN nil ELSE w[1], nxt2, prv2, nil)
    BY <1>3, <1>5, <1>7, <1>8 DEF IsList, Forward, Backward
  <1> QED
    BY <1>6, <1>9, <1>10 DEF w

\* Pushing an entry in front of the first.
LEMMA PushedList ==
    ASSUME NEW S, NEW nil, nil \notin S, NEW s \in Seq(S), NEW t \in S, t \notin Elements(s),
           NEW head, NEW nxt, NEW prv, IsList(s, head, nxt, prv, nil),
           NEW nxt2, NEW prv2,
           nxt2[t] = head, \A u \in S \ {t} : nxt2[u] = nxt[u],
           prv2[t] = nil, head # nil => prv2[head] = t,
           \A u \in S \ {t, head} : prv2[u] = prv[u]
    PROVE  /\ <<t>> \o s \in Seq(S) /\ Elements(<<t>> \o s) = Elements(s) \cup {t}
           /\ IsList(<<t>> \o s, t, nxt2, prv2, nil)
  <1> DEFINE n == Len(s)
             a == <<t>> \o s
  <1>1. n \in Nat /\ \A i \in 1..n : s[i] \in S /\ s[i] # t
    BY LenProperties DEF Elements
  <1>2. a \in Seq(S) /\ Len(a) = n + 1 /\ \A i \in 1..(n + 1) : a[i] = IF i = 1 THEN t ELSE s[i - 1]
    <2>1. <<t>> \in Seq(S) /\ Len(<<t>>) = 1 /\ <<t>>[1] = t
      OBVIOUS
    <2>2. /\ a \in Seq(S) /\ Len(a) = 1 + n
          /\ \A i \in 1..(1 + n) : a[i] = IF i <= 1 THEN <<t>>[i] ELSE s[i - 1]
      BY <2>1, ConcatProperties
    <2> HIDE DEF a
    <2> QED
      BY <1>1, <2>1, <2>2
  <1>3. /\ \A i, j \in 1..n : s[i] = s[j] => i = j
        /\ head = IF n = 0 THEN nil ELSE s[1]
        /\ \A i \in 1..n : nxt[s[i]] = IF i = n THEN nil ELSE s[i + 1]
        /\ \A i \in 1..n : prv[s[i]] = IF i = 1 THEN nil ELSE s[i - 1]
    BY DEF IsList, Forward, Backward
  <1>4. Elements(s) = {s[i] : i \in 1..n} /\ Elements(a) = {a[i] : i \in 1..Len(a)}
    BY DEF Elements
  <1> HIDE DEF a, n
  <1>5. Elements(a) = Elements(s) \cup {t}
    <2>1. 1 \in 1..(n + 1) /\ a[1] = t
      BY <1>1, <1>2
    <2>2. ASSUME NEW i \in 1..(n + 1) PROVE a[i] = t \/ (i - 1 \in 1..n /\ a[i] = s[i - 1])
      <3>1. i # 1 => i - 1 \in 1..n
        BY <1>1
      <3> QED
        BY <1>2, <3>1
    <2>3. \A i \in 1..n : i + 1 \in 1..(n + 1) /\ a[i + 1] = s[i]
      BY <1>1, <1>2
    <2>4. Elements(s) \cup {t} \subseteq Elements(a)
      BY <1>2, <1>4, <2>1, <2>3
    <2>5. Elements(a) \subseteq Elements(s) \cup {t}
      BY <1>2, <1>4, <2>2
    <2> QED
      BY <2>4, <2>5
  <1>6. \A i, j \in 1..(n + 1) : a[i] = a[j] => i = j
    <2> SUFFICES ASSUME NEW i \in 1..(n + 1), NEW j \in 1..(n + 1), a[i] = a[j] PROVE i = j
      OBVIOUS
    <2>1. CASE i = 1 \/ j = 1
      <3>1. ASSUME NEW k \in 1..(n + 1), k # 1 PROVE a[k] # t
        <4>1. k - 1 \in 1..n /\ a[k] = s[k - 1]
          BY <1>1, <1>2, <3>1
        <4> QED
          BY <1>1, <4>1
      <3>2. a[1] = t
        BY <1>1, <1>2
      <3> QED
        BY <2>1, <3>1, <3>2
    <2>2. CASE i # 1 /\ j # 1
      <3>1. i - 1 \in 1..n /\ j - 1 \in 1..n /\ s[i - 1] = s[j - 1]
        BY <1>1, <1>2, <2>2
      <3>2. i - 1 = j - 1
        BY <1>3, <3>1
      <3> QED
        BY <1>1, <3>2
    <2> QED
      BY <2>1, <2>2
  <1>7. ASSUME NEW i \in 1..(n + 1)
        PROVE  /\ nxt2[a[i]] = IF i = n + 1 THEN nil ELSE a[i + 1]
               /\ prv2[a[i]] = IF i = 1 THEN nil ELSE a[i - 1]
    <2>1. CASE i = 1
      <3>1. a[i] = t /\ (n # 0 => i + 1 \in 1..(n + 1) /\ i + 1 # 1 /\ i + 1 - 1 = 1)
        BY <1>1, <1>2, <2>1
      <3>2. n # 0 => a[i + 1] = s[1]
        BY <1>2, <3>1
      <3> QED
        BY <1>1, <1>3, <2>1, <3>1, <3>2
    <2>2. CASE i # 1
      <3>1. /\ i - 1 \in 1..n /\ i - 1 + 1 = i /\ (i - 1 # 1 => i - 2 \in 1..n /\ i - 1 - 1 = i - 2)
            /\ i - 1 \in 1..(n + 1)
        BY <1>1, <2>2
      <3>2. a[i] = s[i - 1] /\ s[i - 1] \in S /\ s[i - 1] # t
        BY <1>1, <1>2, <2>2, <3>1
      <3>3. nxt2[a[i]] = IF i - 1 = n THEN nil ELSE s[i]
        BY <1>3, <3>1, <3>2
      <3>4. i # n + 1 => i + 1 \in 1..(n + 1) /\ i + 1 # 1 /\ i + 1 - 1 = i /\ i - 1 # n
        BY <1>1, <2>2
      <3>5. nxt2[a[i]] = IF i = n + 1 THEN nil ELSE a[i + 1]
        BY <1>1, <1>2, <3>1, <3>3, <3>4
      <3>6. CASE i - 1 = 1
        <4>1. s[i - 1] = head /\ head # nil
          BY <1>1, <1>3, <3>1, <3>6
        <4>2. prv2[a[i]] = t /\ a[i - 1] = t
          BY <1>1, <1>2, <3>1, <3>2, <3>6, <4>1
        <4> QED
          BY <2>2, <3>5, <4>2
      <3>7. CASE i - 1 # 1
        <4>1. s[i - 1] # head /\ a[i - 1] = s[i - 1 - 1]
          BY <1>1, <1>2, <1>3, <3>1, <3>7
        <4>2. prv2[a[i]] = s[i - 1 - 1]
          BY <1>3, <3>1, <3>2, <3>7, <4>1
        <4> QED
          BY <2>2, <3>5, <4>1, <4>2
      <3> QED
        BY <3>6, <3>7
    <2> QED
      BY <2>1, <2>2
  <1>8. a[1] = t /\ n + 1 # 0
    BY <1>1, <1>2
  <1> QED
    BY <1>2, <1>5, <1>6, <1>7, <1>8 DEF a, IsList, Forward, Backward

\* A list is untouched by what happens to the links of others.
LEMMA SameList ==
    ASSUME NEW S, NEW s \in Seq(S), NEW nil,
           NEW head, NEW nxt, NEW prv, IsList(s, head, nxt, prv, nil),
           NEW nxt2, NEW prv2,
           \A u \in Elements(s) : nxt2[u] = nxt[u] /\ prv2[u] = prv[u]
    PROVE  IsList(s, head, nxt2, prv2, nil)
  BY DEF IsList, Forward, Backward, Elements

\* The neighbours of an entry are nil or entries.
LEMMA Neighbours ==
    ASSUME NEW S, NEW s \in Seq(S), NEW nil,
           NEW head, NEW nxt, NEW prv, IsList(s, head, nxt, prv, nil)
    PROVE  /\ head \in Elements(s) \cup {nil} /\ LastOf(s, nil) \in Elements(s) \cup {nil}
           /\ \A u \in Elements(s) : /\ nxt[u] \in (Elements(s) \ {u}) \cup {nil}
                                     /\ prv[u] \in Elements(s) \cup {nil}
  <1>1. Len(s) \in Nat
    BY LenProperties
  <1>2. \A i \in 1..Len(s) : i # Len(s) => i + 1 \in 1..Len(s)
    BY <1>1
  <1>3. \A i \in 1..Len(s) : i # 1 => i - 1 \in 1..Len(s)
    BY <1>1
  <1>4. Len(s) # 0 => 1 \in 1..Len(s) /\ Len(s) \in 1..Len(s)
    BY <1>1
  <1>5. ASSUME NEW i \in 1..Len(s)
        PROVE  nxt[s[i]] \in (Elements(s) \ {s[i]}) \cup {nil} /\ prv[s[i]] \in Elements(s) \cup {nil}
    <2>1. i # Len(s) => nxt[s[i]] = s[i + 1] /\ i + 1 # i /\ s[i + 1] # s[i]
      BY <1>2 DEF IsList, Forward
    <2> QED
      BY <1>2, <1>3, <2>1 DEF IsList, Forward, Backward, Elements
  <1> QED
    BY <1>4, <1>5 DEF IsList, Forward, LastOf, Elements

\* No other sequence of different entries is linked from the same head.
LEMMA OneWalk ==
    ASSUME NEW S, NEW nil, nil \notin S, NEW s \in Seq(S), NEW head, NEW nxt,
           Forward(s, head, nxt, nil), NEW N \in Nat, Len(s) <= N
    PROVE  (CHOOSE w : w = [i \in 0..N |-> IF i = 0 THEN head
                                           ELSE IF w[i-1] = nil THEN nil ELSE nxt[w[i-1]]])
           = [i \in 0..N |-> IF i < Len(s) THEN s[i + 1] ELSE nil]
  <1> DEFINE n == Len(s)
             f == [i \in 0..N |-> IF i < n THEN s[i + 1] ELSE nil]
             Step(w) == [i \in 0..N |-> IF i = 0 THEN head
                                        ELSE IF w[i-1] = nil THEN nil ELSE nxt[w[i-1]]]
  <1>1. n \in Nat /\ \A i \in 1..n : s[i] \in S /\ s[i] # nil
    BY LenProperties
  <1>2. /\ head = IF n = 0 THEN nil ELSE s[1]
        /\ \A i \in 1..n : nxt[s[i]] = IF i = n THEN nil ELSE s[i + 1]
    BY DEF Forward
  <1> HIDE DEF n
  <1>3. f = Step(f)
    <2>1. ASSUME NEW i \in 0..N
          PROVE  f[i] = IF i = 0 THEN head ELSE IF f[i-1] = nil THEN nil ELSE nxt[f[i-1]]
      <3>1. CASE i = 0
        BY <1>1, <1>2, <3>1
      <3>2. CASE i # 0 /\ i - 1 < n
        <4>1. i - 1 \in 0..N /\ i \in 1..n /\ i - 1 + 1 = i
          BY <1>1, <3>2
        <4>2. f[i - 1] = s[i]
          BY <3>2, <4>1
        <4> QED
          BY <1>1, <1>2, <3>2, <4>1, <4>2
      <3>3. CASE i # 0 /\ ~(i - 1 < n)
        <4>1. i - 1 \in 0..N /\ ~(i < n)
          BY <1>1, <3>3
        <4>2. f[i - 1] = nil
          BY <3>3, <4>1
        <4> QED
          BY <3>3, <4>1, <4>2
      <3> QED
        BY <3>1, <3>2, <3>3
    <2> QED
      BY <2>1
  <1>4. ASSUME NEW w, w = Step(w) PROVE w = f
    <2> DEFINE D == {i \in 0..N : w[i] # f[i]}
    <2>1. D = {}
      <3> SUFFICES ASSUME D # {} PROVE FALSE
        OBVIOUS
      <3>1. D \subseteq Nat
        OBVIOUS
      <3> HIDE DEF f, Step
      <3>2. PICK x \in D : \A y \in D : x <= y
        <4> HIDE DEF D
        <4> QED
          BY <3>1, LeastOf
      <3>3. x \in 0..N /\ w[x] # f[x] /\ \A y \in D : x <= y
        BY <3>2
      <3>4. /\ w[x] = IF x = 0 THEN head ELSE IF w[x-1] = nil THEN nil ELSE nxt[w[x-1]]
            /\ f[x] = IF x = 0 THEN head ELSE IF f[x-1] = nil THEN nil ELSE nxt[f[x-1]]
        BY <1>3, <1>4, <3>3 DEF Step
      <3>5. x # 0 => x - 1 \in 0..N /\ x - 1 < x
        BY <3>3
      <3>6. x # 0 => w[x - 1] = f[x - 1]
        BY <3>3, <3>5
      <3> QED
        BY <3>3, <3>4, <3>6
    <2>2. \A i \in 0..N : w[i] = f[i]
      BY <2>1
    <2>3. w = [i \in 0..N |-> w[i]]
      BY <1>4
    <2> HIDE DEF Step
    <2> QED
      BY <2>2, <2>3
  <1>5. (CHOOSE w : w = Step(w)) = f
    <2> HIDE DEF Step, f
    <2> QED
      BY <1>3, <1>4
  <1> QED
    BY <1>5 DEF n

\* ... and up to its first nil the walk is the sequence.
LEMMA WalkedList ==
    ASSUME NEW S, NEW nil, nil \notin S, NEW s \in Seq(S), NEW N \in Nat, Len(s) <= N,
           NEW w, w = [i \in 0..N |-> IF i < Len(s) THEN s[i + 1] ELSE nil]
    PROVE  /\ Cardinality({i \in DOMAIN w : w[i] # nil}) = Len(s)
           /\ [i \in 1..Len(s) |-> w[i-1]] = s
  <1> DEFINE n == Len(s)
             M == {i \in 0..N : w[i] # nil}
  <1>1. n \in Nat /\ (\A i \in 1..n : s[i] \in S /\ s[i] # nil) /\ s \in [1..n -> S] /\ n <= N
    BY LenProperties
  <1>2. DOMAIN w = 0..N /\ \A i \in 0..N : w[i] = IF i < n THEN s[i + 1] ELSE nil
    OBVIOUS
  <1> HIDE DEF n
  <1>3. Cardinality(M) = n
    <2>1. M = 0..(n - 1)
      BY <1>1, <1>2
    <2>2. Cardinality(0..(n - 1)) = n
      BY <1>1, FS_Interval
    <2> HIDE DEF M
    <2> QED
      BY <2>1, <2>2
  <1>4. \A i \in 1..n : w[i - 1] = s[i]
    BY <1>1, <1>2
  <1>5. s = [i \in 1..n |-> s[i]]
    BY <1>1
  <1> QED
    BY <1>2, <1>3, <1>4, <1>5 DEF n, M

\* Neighbours are each other's, the first has none before it and the last none behind it.
LEMMA BothWays ==
    ASSUME NEW S, NEW nil, nil \notin S, NEW s \in Seq(S),
           NEW head, NEW nxt, NEW prv, IsList(s, head, nxt, prv, nil), NEW u \in Elements(s)
    PROVE  /\ nxt[u] = nil <=> u = LastOf(s, nil)
           /\ prv[u] = nil <=> u = head
           /\ nxt[u] # nil => prv[nxt[u]] = u /\ nxt[u] # prv[u]
           /\ prv[u] # nil => nxt[prv[u]] = u
  <1> DEFINE n == Len(s)
  <1>1. n \in Nat /\ \A i \in 1..n : s[i] # nil
    BY LenProperties
  <1>2. /\ \A i, j \in 1..n : s[i] = s[j] => i = j
        /\ head = IF n = 0 THEN nil ELSE s[1]
        /\ \A i \in 1..n : nxt[s[i]] = IF i = n THEN nil ELSE s[i + 1]
        /\ \A i \in 1..n : prv[s[i]] = IF i = 1 THEN nil ELSE s[i - 1]
        /\ LastOf(s, nil) = IF n = 0 THEN nil ELSE s[n]
    BY DEF IsList, Forward, Backward, LastOf
  <1>3. PICK k \in 1..n : u = s[k]
    BY DEF Elements
  <1> HIDE DEF n
  <1>4. /\ n # 0 /\ n \in 1..n /\ 1 \in 1..n
        /\ (k # n => k + 1 \in 1..n /\ k + 1 # 1 /\ k + 1 - 1 = k)
        /\ (k # 1 => k - 1 \in 1..n /\ k - 1 # n /\ k - 1 + 1 = k)
    BY <1>1
  <1>5. nxt[u] = (IF k = n THEN nil ELSE s[k + 1]) /\ prv[u] = IF k = 1 THEN nil ELSE s[k - 1]
    BY <1>2, <1>3
  <1>6. (u = s[n] <=> k = n) /\ (u = s[1] <=> k = 1)
    BY <1>2, <1>3, <1>4
  <1>7. (k # n => s[k + 1] # nil /\ prv[s[k + 1]] = u) /\ (k # 1 => s[k - 1] # nil /\ nxt[s[k - 1]] = u)
    BY <1>1, <1>2, <1>3, <1>4
  <1>8. (k # n /\ k # 1) => s[k + 1] # s[k - 1]
    <2> SUFFICES ASSUME k # n, k # 1 PROVE s[k + 1] # s[k - 1]
      OBVIOUS
    <2>1. PICK i \in 1..n, j \in 1..n : i = k + 1 /\ j = k - 1
      BY <1>4
    <2>2. i # j
      BY <1>1, <2>1
    <2>3. s[i] # s[j]
      BY <1>2, <2>2
    <2> QED
      BY <2>1, <2>3
  <1> QED
    BY <1>2, <1>4, <1>5, <1>6, <1>7, <1>8

\* In front of a list that has a last entry, an entry leaves it the last.
LEMMA PushedLast ==
    ASSUME NEW S, NEW s \in Seq(S), NEW t \in S, NEW nil, Len(s) # 0
    PROVE  LastOf(<<t>> \o s, nil) = LastOf(s, nil)
  <1> DEFINE a == <<t>> \o s
             n == Len(s)
  <1>1. n \in Nat /\ <<t>> \in Seq(S) /\ Len(<<t>>) = 1
    BY LenProperties
  <1>2. Len(a) = 1 + n /\ \A i \in 1..(1 + n) : a[i] = IF i <= 1 THEN <<t>>[i] ELSE s[i - 1]
    BY <1>1, ConcatProperties
  <1> HIDE DEF a, n
  <1>3. 1 + n \in 1..(1 + n) /\ ~(1 + n <= 1) /\ 1 + n - 1 = n /\ 1 + n # 0
    BY <1>1 DEF n
  <1>4. a[1 + n] = s[n]
    <2>1. PICK j \in 1..(1 + n) : j = 1 + n
      BY <1>3
    <2>2. ~(j <= 1) /\ j - 1 = n
      BY <1>1, <1>3, <2>1 DEF n
    <2>3. a[j] = s[j - 1]
      BY <1>2, <2>2
    <2> QED
      BY <2>1, <2>2, <2>3
  <1> QED
    BY <1>2, <1>3, <1>4 DEF LastOf, a, n

-----------------------------------------------------------------------------
(* Lists linked forwards only *)

\* Links backwards for a list that has none.
LEMMA Backlinks ==
    ASSUME NEW S, NEW s \in Seq(S), NEW nil, NEW head, NEW nxt, Forward(s, head, nxt, nil)
    PROVE  \E prv : IsList(s, head, nxt, prv, nil)
  <1> DEFINE At(u) == CHOOSE i \in 1..Len(s) : s[i] = u
             prv == [u \in S |-> IF u = s[1] THEN nil ELSE s[At(u) - 1]]
  <1>1. Len(s) \in Nat /\ \A i \in 1..Len(s) : s[i] \in S
    BY LenProperties
  <1>2. \A i, j \in 1..Len(s) : s[i] = s[j] => i = j
    BY DEF Forward
  <1>3. \A i \in 1..Len(s) : At(s[i]) = i
    BY <1>2
  <1> HIDE DEF At
  <1>4. ASSUME NEW i \in 1..Len(s) PROVE prv[s[i]] = IF i = 1 THEN nil ELSE s[i - 1]
    <2>1. 1 \in 1..Len(s) /\ (s[i] = s[1] <=> i = 1)
      BY <1>1, <1>2
    <2> QED
      BY <1>1, <1>3, <2>1
  <1> HIDE DEF prv
  <1>5. IsList(s, head, nxt, prv, nil)
    BY <1>4 DEF IsList, Backward
  <1> QED
    BY <1>5

\* Unlinking the k-th entry: what precedes it is linked to what follows it.
LEMMA UnlinkedForward ==
    ASSUME NEW S, NEW nil, nil \notin S, NEW s \in Seq(S), NEW k \in 1..Len(s),
           NEW head, NEW nxt, Forward(s, head, nxt, nil), NEW nxt2,
           \A u \in S \ {s[k]} : nxt2[u] = IF k # 1 /\ u = s[k - 1] THEN nxt[s[k]] ELSE nxt[u]
    PROVE  Forward(Without(s, k), IF k # 1 THEN head ELSE nxt[s[k]], nxt2, nil)
  <1>1. PICK prv : IsList(s, head, nxt, prv, nil)
    BY Backlinks
  <1>2. /\ Len(s) \in Nat /\ \A i \in 1..Len(s) : s[i] \in S /\ s[i] # nil
        /\ prv[s[k]] = IF k = 1 THEN nil ELSE s[k - 1]
    BY <1>1, LenProperties DEF IsList, Backward
  <1>3. (prv[s[k]] # nil <=> k # 1) /\ \A u \in S : u = prv[s[k]] <=> k # 1 /\ u = s[k - 1]
    <2>1. k # 1 => k - 1 \in 1..Len(s)
      BY <1>2
    <2> QED
      BY <1>2, <2>1
  <1> DEFINE prv2 == [u \in S |-> IF u = nxt[s[k]] THEN prv[s[k]] ELSE prv[u]]
  <1>4. \A u \in S \ {s[k]} : nxt2[u] = IF u = prv[s[k]] THEN nxt[s[k]] ELSE nxt[u]
    BY <1>3
  <1>5. \A u \in S \ {s[k]} : prv2[u] = IF u = nxt[s[k]] THEN prv[s[k]] ELSE prv[u]
    OBVIOUS
  <1> HIDE DEF prv2
  <1>6. IsList(Without(s, k), IF prv[s[k]] # nil THEN head ELSE nxt[s[k]], nxt2, prv2, nil)
    BY <1>1, <1>4, <1>5, UnlinkedList
  <1> QED
    BY <1>3, <1>6 DEF IsList

\* Pushing an entry in front of the first.
LEMMA PushedForward ==
    ASSUME NEW S, NEW nil, nil \notin S, NEW s \in Seq(S), NEW t \in S, t \notin Elements(s),
           NEW head, NEW nxt, Forward(s, head, nxt, nil), NEW nxt2,
           nxt2[t] = head, \A u \in S \ {t} : nxt2[u] = nxt[u]
    PROVE  /\ <<t>> \o s \in Seq(S) /\ Elements(<<t>> \o s) = Elements(s) \cup {t}
           /\ Forward(<<t>> \o s, t, nxt2, nil)
  <1>1. PICK prv : IsList(s, head, nxt, prv, nil)
    BY Backlinks
  <1>2. head # t /\ (head # nil => head \in S)
    <2>1. head \in Elements(s) \cup {nil}
      BY <1>1, Neighbours
    <2>2. Elements(s) \subseteq S
      BY ElementsIn
    <2> QED
      BY <2>1, <2>2
  <1> DEFINE prv2 == [u \in S |-> IF u = t THEN nil ELSE IF u = head THEN t ELSE prv[u]]
  <1>3. prv2[t] = nil /\ (head # nil => prv2[head] = t) /\ \A u \in S \ {t, head} : prv2[u] = prv[u]
    BY <1>2
  <1> HIDE DEF prv2
  <1>4. /\ <<t>> \o s \in Seq(S) /\ Elements(<<t>> \o s) = Elements(s) \cup {t}
        /\ IsList(<<t>> \o s, t, nxt2, prv2, nil)
    BY <1>1, <1>3, PushedList, Z3
  <1> QED
    BY <1>4 DEF IsList

\* What follows the k-th entry ...
LEMMA RestEntries ==
    ASSUME NEW S, NEW s \in Seq(S), NEW k \in 1..Len(s)
    PROVE  /\ RestOf(s, k) \in Seq(S) /\ Len(RestOf(s, k)) = Len(s) - k
           /\ \A i \in 1..(Len(s) - k) : k + i \in 1..Len(s) /\ RestOf(s, k)[i] = s[k + i]
  <1> DEFINE n == Len(s)
             r == RestOf(s, k)
  <1>1. n \in Nat /\ k \in Nat /\ k <= n /\ \A i \in 1..n : s[i] \in S
    BY LenProperties
  <1>2. n - k \in Nat /\ \A i \in 1..(n - k) : k + i \in 1..n /\ r[i] = s[k + i]
    BY <1>1 DEF RestOf
  <1>3. r \in [1..(n - k) -> S] /\ DOMAIN r = 1..(n - k)
    BY <1>1, <1>2 DEF RestOf
  <1> HIDE DEF r, n
  <1>4. r \in Seq(S)
    BY <1>2, <1>3, SeqDef
  <1>5. Len(r) = n - k
    BY <1>2, <1>3, <1>4, LenProperties
  <1> QED
    BY <1>2, <1>4, <1>5 DEF r, n

\* ... is a list too.
LEMMA RestForward ==
    ASSUME NEW S, NEW nil, NEW s \in Seq(S), NEW k \in 1..Len(s),
           NEW head, NEW nxt, Forward(s, head, nxt, nil)
    PROVE  Forward(RestOf(s, k), nxt[s[k]], nxt, nil)
  <1> DEFINE n == Len(s)
             r == RestOf(s, k)
  <1>1. n \in Nat /\ k \in Nat /\ k <= n
    BY LenProperties
  <1>2. /\ \A i, j \in 1..n : s[i] = s[j] => i = j
        /\ \A i \in 1..n : nxt[s[i]] = IF i = n THEN nil ELSE s[i + 1]
    BY DEF Forward
  <1>3. Len(r) = n - k /\ \A i \in 1..(n - k) : k + i \in 1..n /\ r[i] = s[k + i]
    BY RestEntries
  <1> HIDE DEF r, n
  <1>4. \A i, j \in 1..(n - k) : r[i] = r[j] => i = j
    <2> SUFFICES ASSUME NEW i \in 1..(n - k), NEW j \in 1..(n - k), r[i] = r[j] PROVE i = j
      OBVIOUS
    <2>1. k + i = k + j
      BY <1>2, <1>3
    <2> QED
      BY <1>1, <2>1
  <1>5. nxt[s[k]] = IF n - k = 0 THEN nil ELSE r[1]
    BY <1>1, <1>2, <1>3
  <1>6. ASSUME NEW i \in 1..(n - k) PROVE nxt[r[i]] = IF i = n - k THEN nil ELSE r[i + 1]
    <2>1. k + i \in 1..n /\ r[i] = s[k + i] /\ (k + i = n <=> i = n - k)
      BY <1>1, <1>3
    <2>2. nxt[r[i]] = IF k + i = n THEN nil ELSE s[k + i + 1]
      BY <1>2, <2>1
    <2>3. i # n - k => i + 1 \in 1..(n - k) /\ k + (i + 1) = k + i + 1
      BY <1>1
    <2> QED
      BY <1>3, <2>1, <2>2, <2>3
  <1>7. Forward(r, nxt[s[k]], nxt, nil)
    BY <1>3, <1>4, <1>5, <1>6 DEF Forward
  <1> QED
    BY <1>7 DEF r

\* A list is untouched by what happens to the links of others.
LEMMA SameForward ==
    ASSUME NEW S, NEW s \in Seq(S), NEW nil, NEW head, NEW nxt, Forward(s, head, nxt, nil),
           NEW nxt2, \A u \in Elements(s) : nxt2[u] = nxt[u]
    PROVE  Forward(s, head, nxt2, nil)
  BY DEF Forward, Elements

\* A list whose last entry is linked to the first of another goes on with that one.
LEMMA JoinedForward ==
    ASSUME NEW S, NEW nil, nil \notin S, NEW s \in Seq(S), NEW r \in Seq(S), Elements(s) \cap Elements(r) = {},
           NEW h, NEW k, NEW nxt, Forward(s, h, nxt, nil), Forward(r, k, nxt, nil),
           NEW nxt2,
           \A u \in Elements(s) : nxt2[u] = IF nxt[u] = nil THEN k ELSE nxt[u],
           \A u \in Elements(r) : nxt2[u] = nxt[u]
    PROVE  /\ s \o r \in Seq(S) /\ Elements(s \o r) = Elements(s) \cup Elements(r)
           /\ Forward(s \o r, IF Len(s) # 0 THEN h ELSE k, nxt2, nil)
  <1> DEFINE a == s \o r
             m == Len(s)
             n == Len(r)
  <1>1. m \in Nat /\ n \in Nat /\ (\A i \in 1..m : s[i] \in S) /\ (\A i \in 1..n : r[i] \in S)
    BY LenProperties
  <1>2. a \in Seq(S) /\ Len(a) = m + n /\ \A i \in 1..(m + n) : a[i] = IF i <= m THEN s[i] ELSE r[i - m]
    BY ConcatProperties
  <1>3. /\ \A i, j \in 1..m : s[i] = s[j] => i = j
        /\ h = IF m = 0 THEN nil ELSE s[1]
        /\ \A i \in 1..m : nxt[s[i]] = IF i = m THEN nil ELSE s[i + 1]
    BY DEF Forward
  <1>4. /\ \A i, j \in 1..n : r[i] = r[j] => i = j
        /\ k = IF n = 0 THEN nil ELSE r[1]
        /\ \A i \in 1..n : nxt[r[i]] = IF i = n THEN nil ELSE r[i + 1]
    BY DEF Forward
  <1>5. \A i \in 1..m, j \in 1..n : s[i] # r[j]
    BY DEF Elements
  <1>6. /\ \A i \in 1..m : nxt2[s[i]] = IF nxt[s[i]] = nil THEN k ELSE nxt[s[i]]
        /\ \A i \in 1..n : nxt2[r[i]] = nxt[r[i]]
    BY DEF Elements
  <1>7. Elements(s) = {s[i] : i \in 1..m} /\ Elements(r) = {r[i] : i \in 1..n} /\ Elements(a) = {a[i] : i \in 1..Len(a)}
    BY DEF Elements
  <1> HIDE DEF a, m, n
  <1>8. /\ \A i \in 1..m : i \in 1..(m + n) /\ a[i] = s[i]
        /\ \A i \in 1..n : m + i \in 1..(m + n) /\ a[m + i] = r[i]
        /\ \A i \in 1..(m + n) : i \in 1..m \/ (i - m \in 1..n /\ m + (i - m) = i)
        /\ \A i \in 1..(m + n) : i - m \in 1..n => a[i] = r[i - m]
    <2>1. ASSUME NEW i \in 1..m PROVE i \in 1..(m + n) /\ a[i] = s[i]
      BY <1>1, <1>2
    <2>2. ASSUME NEW i \in 1..n PROVE m + i \in 1..(m + n) /\ a[m + i] = r[i]
      <3>1. m + i \in 1..(m + n) /\ ~(m + i <= m) /\ m + i - m = i
        BY <1>1
      <3>2. PICK j \in 1..(m + n) : j = m + i
        BY <3>1
      <3>3. ~(j <= m) /\ j - m = i
        BY <1>1, <3>1, <3>2
      <3>4. a[j] = r[i]
        BY <1>2, <3>3
      <3> QED
        BY <3>1, <3>2, <3>4
    <2>3. \A i \in 1..(m + n) : i \in 1..m \/ (i - m \in 1..n /\ m + (i - m) = i)
      BY <1>1
    <2>4. ASSUME NEW i \in 1..(m + n), i - m \in 1..n PROVE a[i] = r[i - m]
      <3>1. ~(i <= m)
        BY <1>1, <2>4
      <3> QED
        BY <1>2, <3>1
    <2> QED
      BY <2>1, <2>2, <2>3, <2>4
  <1>9. Elements(a) = Elements(s) \cup Elements(r)
    <2>1. \A i \in 1..(m + n) : (i \in 1..m /\ a[i] = s[i]) \/ (i - m \in 1..n /\ a[i] = r[i - m])
      BY <1>8
    <2>2. Elements(a) \subseteq Elements(s) \cup Elements(r)
      BY <1>2, <1>7, <2>1
    <2>3. Elements(s) \subseteq Elements(a) /\ Elements(r) \subseteq Elements(a)
      BY <1>2, <1>7, <1>8
    <2> QED
      BY <2>2, <2>3
  <1>10. ASSUME NEW i \in 1..(m + n), NEW j \in 1..(m + n), a[i] = a[j] PROVE i = j
    <2>1. CASE i \in 1..m /\ j \in 1..m
      BY <1>3, <1>8, <1>10, <2>1
    <2>2. CASE i \in 1..m /\ j - m \in 1..n
      <3>1. a[i] = s[i] /\ a[j] = r[j - m]
        BY <1>8, <2>2
      <3> QED
        BY <1>5, <1>10, <2>2, <3>1
    <2>3. CASE i - m \in 1..n /\ j \in 1..m
      <3>1. a[j] = s[j] /\ a[i] = r[i - m]
        BY <1>8, <2>3
      <3> QED
        BY <1>5, <1>10, <2>3, <3>1
    <2>4. CASE i - m \in 1..n /\ j - m \in 1..n
      <3>1. a[j] = r[j - m] /\ a[i] = r[i - m]
        BY <1>8, <2>4
      <3>2. i - m = j - m
        BY <1>4, <1>10, <2>4, <3>1
      <3> QED
        BY <1>1, <3>2
    <2> QED
      BY <1>8, <2>1, <2>2, <2>3, <2>4
  <1>11. ASSUME NEW i \in 1..(m + n) PROVE nxt2[a[i]] = IF i = m + n THEN nil ELSE a[i + 1]
    <2>1. CASE i \in 1..m /\ i # m
      <3>1. i + 1 \in 1..m /\ i # m + n
        BY <1>1, <2>1
      <3>2. nxt[s[i]] = s[i + 1] /\ s[i + 1] # nil
        BY <1>1, <1>3, <2>1, <3>1
      <3> QED
        BY <1>6, <1>8, <2>1, <3>1, <3>2
    <2>2. CASE i \in 1..m /\ i = m
      <3>1. nxt2[a[i]] = k
        BY <1>3, <1>6, <1>8, <2>2
      <3>2. n # 0 => 1 \in 1..n /\ i # m + n
        BY <1>1, <2>2
      <3>3. n = 0 => i = m + n
        BY <1>1, <2>2
      <3>4. n # 0 => a[i + 1] = r[1]
        BY <1>8, <2>2, <3>2
      <3> QED
        BY <1>4, <3>1, <3>2, <3>3, <3>4
    <2>3. CASE i - m \in 1..n
      <3>1. a[i] = r[i - m] /\ nxt2[r[i - m]] = nxt[r[i - m]]
        BY <1>6, <1>8, <2>3
      <3>2. (i - m = n <=> i = m + n) /\ (i - m # n => i - m + 1 \in 1..n /\ m + (i - m + 1) = i + 1)
        BY <1>1, <2>3
      <3>3. i - m # n => a[i + 1] = r[i - m + 1]
        BY <1>8, <3>2
      <3> QED
        BY <1>4, <2>3, <3>1, <3>2, <3>3
    <2> QED
      BY <1>8, <2>1, <2>2, <2>3
  <1>12. (IF m # 0 THEN h ELSE k) = IF m + n = 0 THEN nil ELSE a[1]
    <2>1. (m # 0 => 1 \in 1..m) /\ (n # 0 => 1 \in 1..n) /\ (m + n = 0 <=> m = 0 /\ n = 0) /\ 0 + 1 = 1
      BY <1>1
    <2>2. m = 0 /\ n # 0 => a[1] = r[1]
      BY <1>8, <2>1
    <2> QED
      BY <1>3, <1>4, <1>8, <2>1, <2>2
  <1>13. Forward(a, IF m # 0 THEN h ELSE k, nxt2, nil)
    BY <1>2, <1>10, <1>11, <1>12 DEF Forward
  <1> QED
    BY <1>2, <1>9, <1>13 DEF a, m

\* w walks from the head for as long as it meets members of L
Walks(w, head, nxt, L, N, nil) ==
    w = [i \in 0..N |-> IF i = 0 THEN head ELSE IF w[i-1] \in L THEN nxt[w[i-1]] ELSE nil]

\* Where links lead nowhere but from the entries of a set, a walk that stops outside of it
\* passes the entries of the list it begins with.
LEMMA WalkWithin ==
    ASSUME NEW S, NEW nil, nil \notin S, NEW s \in Seq(S), NEW head, NEW nxt, Forward(s, head, nxt, nil),
           NEW L, nil \notin L, Elements(s) \subseteq L, NEW N \in Nat, Len(s) <= N,
           NEW w, Walks(w, head, nxt, L, N, nil)
    PROVE  {w[i] : i \in 0..N} \ {nil} = Elements(s)
  <1> DEFINE n == Len(s)
             Right(i) == w[i] = IF i < n THEN s[i + 1] ELSE nil
             D == {i \in 0..N : ~Right(i)}
  <1>1. n \in Nat /\ n <= N /\ \A i \in 1..n : s[i] \in L /\ s[i] # nil
    BY LenProperties DEF Elements
  <1>2. /\ head = IF n = 0 THEN nil ELSE s[1]
        /\ \A i \in 1..n : nxt[s[i]] = IF i = n THEN nil ELSE s[i + 1]
    BY DEF Forward
  <1>3. \A i \in 0..N : w[i] = IF i = 0 THEN head ELSE IF w[i-1] \in L THEN nxt[w[i-1]] ELSE nil
    BY DEF Walks
  <1>4. Elements(s) = {s[i] : i \in 1..n}
    BY DEF Elements
  <1> HIDE DEF n
  <1>5. D = {}
    <2> SUFFICES ASSUME D # {} PROVE FALSE
      OBVIOUS
    <2>1. PICK x \in D : \A y \in D : x <= y
      <3>1. D \subseteq Nat
        OBVIOUS
      <3> HIDE DEF D
      <3> QED
        BY <3>1, LeastOf
    <2>2. x \in 0..N /\ ~Right(x)
      BY <2>1
    <2>3. CASE x = 0
      BY <1>1, <1>2, <1>3, <2>2, <2>3
    <2>4. CASE x # 0
      <3>1. x - 1 \in 0..N /\ ~(x <= x - 1) /\ x - 1 + 1 = x
        BY <2>2, <2>4
      <3>2. Right(x - 1)
        BY <2>1, <3>1
      <3>3. w[x] = IF w[x - 1] \in L THEN nxt[w[x - 1]] ELSE nil
        BY <1>3, <2>2, <2>4
      <3>4. CASE x - 1 < n
        <4>1. x \in 1..n /\ w[x - 1] = s[x] /\ (x = n <=> ~(x < n))
          BY <1>1, <2>2, <2>4, <3>1, <3>2, <3>4
        <4>2. w[x] = IF x = n THEN nil ELSE s[x + 1]
          BY <1>1, <1>2, <3>3, <4>1
        <4> QED
          BY <2>2, <4>1, <4>2
      <3>5. CASE ~(x - 1 < n)
        <4>1. ~(x < n) /\ w[x - 1] = nil
          BY <1>1, <2>2, <3>2, <3>5
        <4> QED
          BY <2>2, <3>3, <4>1
      <3> QED
        BY <3>4, <3>5
    <2> QED
      BY <2>3, <2>4
  <1>6. \A i \in 0..N : w[i] = IF i < n THEN s[i + 1] ELSE nil
    BY <1>5
  <1> HIDE DEF D, Right
  <1>7. ASSUME NEW i \in 0..N, w[i] # nil PROVE w[i] \in Elements(s)
    <2>1. i + 1 \in 1..n /\ w[i] = s[i + 1]
      BY <1>1, <1>6, <1>7
    <2> QED
      BY <1>4, <2>1
  <1>8. ASSUME NEW j \in 1..n PROVE s[j] \in {w[i] : i \in 0..N} \ {nil}
    <2>1. j - 1 \in 0..N /\ j - 1 < n /\ j - 1 + 1 = j
      BY <1>1
    <2>2. w[j - 1] = s[j] /\ s[j] # nil
      BY <1>1, <1>6, <2>1
    <2> QED
      BY ONLY <2>1, <2>2
  <1> QED
    BY ONLY <1>4, <1>7, <1>8

\* There is such a walk, over the entries of the list.
LEMMA WalkFound ==
    ASSUME NEW S, NEW nil, nil \notin S, NEW s \in Seq(S), NEW head, NEW nxt, Forward(s, head, nxt, nil),
           NEW L, nil \notin L, Elements(s) \subseteq L, NEW N \in Nat, Len(s) <= N
    PROVE  \E w : Walks(w, head, nxt, L, N, nil)
  <1> DEFINE n == Len(s)
  <1>1. n \in Nat /\ n <= N /\ \A i \in 1..n : s[i] \in L
    BY LenProperties DEF Elements
  <1>2. /\ head = IF n = 0 THEN nil ELSE s[1]
        /\ \A i \in 1..n : nxt[s[i]] = IF i = n THEN nil ELSE s[i + 1]
    BY DEF Forward
  <1> HIDE DEF n
  <1>3. PICK w : w = [i \in 0..N |-> IF i < n THEN s[i + 1] ELSE nil]
    OBVIOUS
  <1>4. ASSUME NEW i \in 0..N
        PROVE  w[i] = IF i = 0 THEN head ELSE IF w[i-1] \in L THEN nxt[w[i-1]] ELSE nil
    <2>1. CASE i = 0
      BY <1>1, <1>2, <1>3, <2>1
    <2>2. CASE i # 0 /\ i - 1 < n
      <3>1. i \in 1..n /\ i - 1 \in 0..N /\ i - 1 + 1 = i /\ (i = n <=> ~(i < n))
        BY <1>1, <2>2
      <3>2. w[i - 1] = s[i] /\ s[i] \in L
        BY <1>1, <1>3, <2>2, <3>1
      <3> QED
        BY <1>2, <1>3, <2>2, <3>1, <3>2
    <2>3. CASE i # 0 /\ ~(i - 1 < n)
      <3>1. i - 1 \in 0..N /\ ~(i < n)
        BY <1>1, <2>3
      <3>2. w[i - 1] = nil /\ w[i] = nil
        BY <1>3, <2>3, <3>1
      <3> QED
        BY <2>3, <3>2
    <2> QED
      BY <2>1, <2>2, <2>3
  <1>5. Walks(w, head, nxt, L, N, nil)
    BY <1>3, <1>4 DEF Walks
  <1> QED
    BY <1>5

-----------------------------------------------------------------------------
(* Rings                                                                   *)

\* A number's remainder is the one below the divisor.
LEMMA ModUnique ==
    ASSUME NEW n \in Nat \ {0}, NEW a \in Int, NEW q \in Int, NEW r \in 0 .. n - 1, a = n * q + r
    PROVE  a % n = r /\ a \div n = q
  BY Z3

\* How far slot i of a ring of n slots is ahead of its tail
Ahead(n, tl, i) == IF i >= tl THEN i - tl ELSE i - tl + n

\* How many slots are filled from the tail on, of which the ends say nothing when they meet
Fill(n, h, tl, met) == IF h = tl THEN met ELSE Ahead(n, tl, h)

\* The first c entries from the tail on came after `last`, one after the other
InTurn(n, buf, tl, c, last) ==
    \A i \in 0 .. n - 1 : Ahead(n, tl, i) < c =>
        /\ buf[i] > last
        /\ \A j \in 0 .. n - 1 : (Ahead(n, tl, i) < Ahead(n, tl, j) /\ Ahead(n, tl, j) < c) => buf[i] < buf[j]

\* The slot after another.
LEMMA NextSlot ==
    ASSUME NEW n \in Nat, n > 0, NEW i \in 0 .. n - 1
    PROVE  (i + 1) % n = (IF i = n - 1 THEN 0 ELSE i + 1) /\ (i + 1) % n \in 0 .. n - 1
  <1>1. CASE i = n - 1
    <2>1. i + 1 = n * 1 + 0 /\ 0 \in 0 .. n - 1 /\ i + 1 \in Int
      BY <1>1
    <2>2. (i + 1) % n = 0
      BY <2>1, ModUnique
    <2> QED
      BY <1>1, <2>2
  <1>2. CASE i # n - 1
    <2>1. i + 1 = n * 0 + (i + 1) /\ i + 1 \in 0 .. n - 1 /\ i + 1 \in Int
      BY <1>2
    <2>2. (i + 1) % n = i + 1
      BY <2>1, ModUnique
    <2> QED
      BY <1>2, <2>1, <2>2
  <1> QED
    BY <1>1, <1>2

\* When the ends differ, it does not matter what they would mean if they met.
LEMMA FillsApart == ASSUME NEW n, NEW h, NEW tl, h # tl, NEW a, NEW b PROVE Fill(n, h, tl, a) = Fill(n, h, tl, b)
  BY DEF Fill

\* How far slots are, in numbers.
LEMMA AheadIs ==
    ASSUME NEW n \in Nat, n > 0, NEW tl \in 0 .. n - 1, NEW i \in 0 .. n - 1
    PROVE  /\ Ahead(n, tl, i) \in 0 .. n - 1
           /\ i >= tl => Ahead(n, tl, i) = i - tl
           /\ i < tl => Ahead(n, tl, i) = i - tl + n
  BY DEF Ahead

\* A fill is none, all or what the ends say.
LEMMA FillIs ==
    ASSUME NEW n \in Nat, n > 0, NEW tl \in 0 .. n - 1, NEW h \in 0 .. n - 1, NEW met \in {0, n}
    PROVE  /\ Fill(n, h, tl, met) \in 0 .. n
           /\ h # tl => Fill(n, h, tl, met) = Ahead(n, tl, h)
           /\ h = tl => Fill(n, h, tl, met) = met
  <1>1. Ahead(n, tl, h) \in 0 .. n - 1
    BY AheadIs
  <1> QED
    BY <1>1 DEF Fill

\* One more slot is filled: those that are, but the new one, were.
LEMMA FillsOneMore ==
    ASSUME NEW n \in Nat, n > 0, NEW tl \in 0 .. n - 1, NEW h \in 0 .. n - 1, NEW met \in {0, n}, NEW any \in {0, n},
           NEW i \in 0 .. n - 1, i # h, Ahead(n, tl, i) < Fill(n, (h + 1) % n, tl, any)
    PROVE  Ahead(n, tl, i) < Ahead(n, tl, h) /\ h # tl /\ Ahead(n, tl, i) < Fill(n, h, tl, met)
  <1>1. PICK k \in 0 .. n - 1 : k = (h + 1) % n /\ k = IF h = n - 1 THEN 0 ELSE h + 1
    BY NextSlot
  <1>2. PICK pi \in 0 .. n - 1 : pi = Ahead(n, tl, i) /\ (i >= tl => pi = i - tl) /\ (i < tl => pi = i - tl + n)
    BY AheadIs
  <1>3. PICK ph \in 0 .. n - 1 : ph = Ahead(n, tl, h) /\ (h >= tl => ph = h - tl) /\ (h < tl => ph = h - tl + n)
    BY AheadIs
  <1>4. PICK pk \in 0 .. n - 1 : pk = Ahead(n, tl, k) /\ (k >= tl => pk = k - tl) /\ (k < tl => pk = k - tl + n)
    BY AheadIs
  <1>5. PICK c \in 0 .. n : c = Fill(n, k, tl, any) /\ (k # tl => c = pk)
    BY <1>4, FillIs
  <1>6. pi < c
    BY <1>1, <1>2, <1>5
  <1>7. pi < ph /\ h # tl
    <2>1. CASE k = tl
      BY <1>1, <1>2, <1>3, <2>1
    <2>2. CASE k # tl
      <3>1. pi < pk
        BY <1>5, <1>6, <2>2
      <3> QED
        BY <1>1, <1>2, <1>3, <1>4, <2>2, <3>1
    <2> QED
      BY <2>1, <2>2
  <1>8. Fill(n, h, tl, met) = ph
    BY <1>3, <1>7, FillIs
  <1> QED
    BY <1>2, <1>3, <1>7, <1>8

\* One slot less is: those that are were, behind the one that is not.
LEMMA FillsOneLess ==
    ASSUME NEW n \in Nat, n > 0, NEW tl \in 0 .. n - 1, NEW h \in 0 .. n - 1,
           NEW i \in 0 .. n - 1, Ahead(n, (tl + 1) % n, i) < Fill(n, h, (tl + 1) % n, 0)
    PROVE  Ahead(n, tl, i) = Ahead(n, (tl + 1) % n, i) + 1 /\ Ahead(n, tl, i) < Fill(n, h, tl, n)
  <1>1. PICK k \in 0 .. n - 1 : k = (tl + 1) % n /\ k = IF tl = n - 1 THEN 0 ELSE tl + 1
    BY NextSlot
  <1>2. PICK pi \in 0 .. n - 1 : pi = Ahead(n, tl, i) /\ (i >= tl => pi = i - tl) /\ (i < tl => pi = i - tl + n)
    BY AheadIs
  <1>3. PICK qi \in 0 .. n - 1 : qi = Ahead(n, k, i) /\ (i >= k => qi = i - k) /\ (i < k => qi = i - k + n)
    BY AheadIs
  <1>4. PICK ph \in 0 .. n - 1 : ph = Ahead(n, tl, h) /\ (h >= tl => ph = h - tl) /\ (h < tl => ph = h - tl + n)
    BY AheadIs
  <1>5. PICK qh \in 0 .. n - 1 : qh = Ahead(n, k, h) /\ (h >= k => qh = h - k) /\ (h < k => qh = h - k + n)
    BY AheadIs
  <1>6. PICK c \in 0 .. n : c = Fill(n, h, tl, n) /\ (h # tl => c = ph) /\ (h = tl => c = n)
    BY <1>4, FillIs
  <1>7. PICK d \in 0 .. n : d = Fill(n, h, k, 0) /\ (h # k => d = qh) /\ (h = k => d = 0)
    BY <1>5, FillIs
  <1>8. qi < d
    BY <1>1, <1>3, <1>7
  <1>9. qi < qh
    BY <1>5, <1>7, <1>8
  <1>10. pi = qi + 1
    BY <1>1, <1>2, <1>3, <1>5, <1>9
  <1>11. pi < c
    <2>1. CASE h = tl
      BY <1>6, <2>1
    <2>2. CASE h # tl
      <3>1. ph = qh + 1
        BY <1>1, <1>4, <1>5, <2>2
      <3> QED
        BY <1>6, <1>9, <1>10, <2>2, <3>1
    <2> QED
      BY <2>1, <2>2
  <1> QED
    BY <1>1, <1>2, <1>3, <1>6, <1>10, <1>11

\* What comes last is stored at the head.
LEMMA StoredInTurn ==
    ASSUME NEW n \in Nat, n > 0, NEW buf \in [0 .. n - 1 -> Nat], NEW h \in 0 .. n - 1, NEW tl \in 0 .. n - 1,
           NEW last \in Nat, NEW byte \in Nat, NEW met \in {0, n}, NEW any \in {0, n},
           InTurn(n, buf, tl, Fill(n, h, tl, met), last), byte > last, \A i \in 0 .. n - 1 : buf[i] < byte
    PROVE  InTurn(n, [buf EXCEPT ![h] = byte], tl, Fill(n, (h + 1) % n, tl, any), last)
  <1>1. PICK c \in 0 .. n : c = Fill(n, (h + 1) % n, tl, any)
    BY NextSlot, FillIs
  <1>2. PICK new \in [0 .. n - 1 -> Nat] : new = [buf EXCEPT ![h] = byte]
    OBVIOUS
  <1>3. new[h] = byte /\ \A i \in 0 .. n - 1 : i # h => new[i] = buf[i]
    BY <1>2
  <1>4. \A i \in 0 .. n - 1 : Ahead(n, tl, i) \in 0 .. n - 1
    BY AheadIs
  <1>5. ASSUME NEW i \in 0 .. n - 1, i # h, Ahead(n, tl, i) < c
        PROVE  Ahead(n, tl, i) < Ahead(n, tl, h) /\ h # tl /\ Ahead(n, tl, i) < Fill(n, h, tl, met)
    BY <1>1, <1>5, FillsOneMore
  <1>6. ASSUME NEW i \in 0 .. n - 1, Ahead(n, tl, i) < c PROVE new[i] > last
    <2>1. CASE i = h
      BY <1>3, <2>1
    <2>2. CASE i # h
      BY <1>3, <1>5, <1>6, <2>2 DEF InTurn
    <2> QED
      BY <2>1, <2>2
  <1>7. ASSUME NEW i \in 0 .. n - 1, NEW j \in 0 .. n - 1, Ahead(n, tl, i) < Ahead(n, tl, j), Ahead(n, tl, j) < c
        PROVE  new[i] < new[j]
    <2>1. CASE j = h
      <3>1. i # h
        BY <1>4, <1>7, <2>1
      <3> QED
        BY <1>3, <2>1, <3>1
    <2>2. CASE j # h
      <3>1. Ahead(n, tl, j) < Ahead(n, tl, h) /\ Ahead(n, tl, j) < Fill(n, h, tl, met)
        BY <1>5, <1>7, <2>2
      <3>2. /\ Ahead(n, tl, i) \in 0 .. n - 1 /\ Ahead(n, tl, j) \in 0 .. n - 1 /\ Ahead(n, tl, h) \in 0 .. n - 1
            /\ Fill(n, h, tl, met) \in 0 .. n
        BY <1>4, FillIs
      <3>3. Ahead(n, tl, i) < Fill(n, h, tl, met) /\ Ahead(n, tl, i) < Ahead(n, tl, h)
        <4>1. \A a, b, e \in 0 .. n : (a < b /\ b < e) => a < e
          OBVIOUS
        <4>2. \A a \in 0 .. n - 1 : a \in 0 .. n
          OBVIOUS
        <4> QED
          BY <1>7, <3>1, <3>2, <4>1, <4>2
      <3>4. i # h
        BY <3>2, <3>3
      <3>5. buf[i] < buf[j]
        BY <1>7, <3>1, <3>3 DEF InTurn
      <3> QED
        BY <1>3, <2>2, <3>4, <3>5
    <2> QED
      BY <2>1, <2>2
  <1> QED
    BY <1>1, <1>2, <1>6, <1>7 DEF InTurn

\* The first is taken.
LEMMA TakenInTurn ==
    ASSUME NEW n \in Nat, n > 0, NEW buf \in [0 .. n - 1 -> Nat], NEW h \in 0 .. n - 1, NEW tl \in 0 .. n - 1,
           NEW last \in Nat, InTurn(n, buf, tl, Fill(n, h, tl, n), last)
    PROVE  buf[tl] > last /\ InTurn(n, buf, (tl + 1) % n, Fill(n, h, (tl + 1) % n, 0), buf[tl])
  <1>1. PICK k \in 0 .. n - 1 : k = (tl + 1) % n
    BY NextSlot
  <1>2. Ahead(n, tl, tl) = 0 /\ 0 < Fill(n, h, tl, n)
    <2>1. Ahead(n, tl, tl) = 0
      BY AheadIs
    <2>2. h = tl => Fill(n, h, tl, n) = n
      BY FillIs
    <2>3. h # tl => Fill(n, h, tl, n) = Ahead(n, tl, h) /\ Ahead(n, tl, h) \in 0 .. n - 1
                        /\ (h >= tl => Ahead(n, tl, h) = h - tl) /\ (h < tl => Ahead(n, tl, h) = h - tl + n)
      BY FillIs, AheadIs
    <2> QED
      BY <2>1, <2>2, <2>3
  <1>3. \A i \in 0 .. n - 1 : Ahead(n, tl, i) \in 0 .. n - 1 /\ Ahead(n, k, i) \in 0 .. n - 1
    BY AheadIs
  <1>4. PICK d \in 0 .. n : d = Fill(n, h, k, 0)
    BY FillIs
  <1>5. ASSUME NEW i \in 0 .. n - 1, Ahead(n, k, i) < d
        PROVE  Ahead(n, tl, i) = Ahead(n, k, i) + 1 /\ Ahead(n, tl, i) < Fill(n, h, tl, n)
    BY <1>1, <1>4, <1>5, FillsOneLess
  <1>6. ASSUME NEW i \in 0 .. n - 1, Ahead(n, k, i) < d PROVE buf[i] > buf[tl]
    <2>1. Ahead(n, tl, i) = Ahead(n, k, i) + 1 /\ Ahead(n, k, i) \in 0 .. n - 1
      BY <1>3, <1>5, <1>6
    <2>2. Ahead(n, tl, tl) < Ahead(n, tl, i)
      BY <1>2, <2>1
    <2>3. buf[tl] < buf[i]
      BY <1>2, <1>5, <1>6, <2>2 DEF InTurn
    <2> QED
      BY <2>3
  <1>7. ASSUME NEW i \in 0 .. n - 1, NEW j \in 0 .. n - 1, Ahead(n, k, i) < Ahead(n, k, j), Ahead(n, k, j) < d
        PROVE  buf[i] < buf[j]
    <2>0. PICK qi \in 0 .. n - 1 : qi = Ahead(n, k, i)
      BY <1>3
    <2>1. PICK qj \in 0 .. n - 1 : qj = Ahead(n, k, j)
      BY <1>3
    <2>2. qi < d /\ qi < qj /\ qj < d
      BY <1>7, <2>0, <2>1
    <2>3. /\ Ahead(n, tl, i) = qi + 1 /\ Ahead(n, tl, i) < Fill(n, h, tl, n)
          /\ Ahead(n, tl, j) = qj + 1 /\ Ahead(n, tl, j) < Fill(n, h, tl, n)
      BY <1>5, <2>0, <2>1, <2>2
    <2>4. Ahead(n, tl, i) < Ahead(n, tl, j)
      BY <2>2, <2>3
    <2> QED
      BY <2>3, <2>4 DEF InTurn
  <1>8. buf[tl] > last
    BY <1>2 DEF InTurn
  <1> QED
    BY <1>1, <1>4, <1>6, <1>7, <1>8 DEF InTurn

\* The ring buf with ends h and tl holds numbers up to the newest, one after the other
Ringed(n, h, tl, buf, last, newest, met) ==
    /\ h \in 0 .. n - 1 /\ tl \in 0 .. n - 1 /\ buf \in [0 .. n - 1 -> Nat]
    /\ last \in Nat /\ last <= newest /\ \A i \in 0 .. n - 1 : buf[i] <= newest
    /\ InTurn(n, buf, tl, Fill(n, h, tl, met), last)

\* A ring whose ends differ holds whatever it would mean if they met.
LEMMA RingApart ==
    ASSUME NEW n, NEW h, NEW tl, NEW buf, NEW last, NEW newest, NEW a, NEW b, h # tl, Ringed(n, h, tl, buf, last, newest, a)
    PROVE  Ringed(n, h, tl, buf, last, newest, b)
  <1>1. Fill(n, h, tl, a) = Fill(n, h, tl, b)
    BY FillsApart
  <1> QED
    BY <1>1 DEF Ringed

\* Later numbers may come.
LEMMA RingLater ==
    ASSUME NEW n, NEW h, NEW tl, NEW buf, NEW last, NEW newest \in Nat, NEW later \in Nat, NEW met, newest <= later,
           Ringed(n, h, tl, buf, last, newest, met)
    PROVE  Ringed(n, h, tl, buf, last, later, met)
  <1>1. \A i \in 0 .. n - 1 : buf[i] \in Nat
    BY DEF Ringed
  <1> QED
    BY <1>1 DEF Ringed

\* An empty ring.
LEMMA RingEmpty ==
    ASSUME NEW n \in Nat, n > 0, NEW buf \in [0 .. n - 1 -> Nat], NEW last \in Nat, NEW newest \in Nat, last <= newest,
           \A i \in 0 .. n - 1 : buf[i] <= newest, NEW h \in 0 .. n - 1
    PROVE  Ringed(n, h, h, buf, last, newest, 0)
  <1>1. Fill(n, h, h, 0) = 0
    BY DEF Fill
  <1>2. \A i \in 0 .. n - 1 : Ahead(n, h, i) \in 0 .. n - 1
    BY AheadIs
  <1>3. InTurn(n, buf, h, 0, last)
    BY <1>2 DEF InTurn
  <1> QED
    BY <1>1, <1>3 DEF Ringed

\* The next one is stored, ...
LEMMA RingStored ==
    ASSUME NEW n \in Nat, n > 0, NEW h, NEW tl, NEW buf, NEW last, NEW newest \in Nat, NEW byte \in Nat, byte > newest,
           NEW met \in {0, n}, NEW any \in {0, n}, Ringed(n, h, tl, buf, last, newest, met)
    PROVE  Ringed(n, (h + 1) % n, tl, [buf EXCEPT ![h] = byte], last, byte, any)
  <1>1. h \in 0 .. n - 1 /\ tl \in 0 .. n - 1 /\ buf \in [0 .. n - 1 -> Nat] /\ last \in Nat /\ last <= newest
    BY DEF Ringed
  <1>2. \A i \in 0 .. n - 1 : buf[i] \in Nat /\ buf[i] <= newest
    BY DEF Ringed
  <1>3. byte > last /\ \A i \in 0 .. n - 1 : buf[i] < byte
    BY <1>1, <1>2
  <1>4. InTurn(n, buf, tl, Fill(n, h, tl, met), last)
    BY DEF Ringed
  <1>5. InTurn(n, [buf EXCEPT ![h] = byte], tl, Fill(n, (h + 1) % n, tl, any), last)
    BY <1>1, <1>3, <1>4, StoredInTurn
  <1>6. (h + 1) % n \in 0 .. n - 1
    BY <1>1, NextSlot
  <1>7. PICK new \in [0 .. n - 1 -> Nat] : new = [buf EXCEPT ![h] = byte] /\ \A i \in 0 .. n - 1 : new[i] \in {byte, buf[i]}
    BY <1>1
  <1>8. \A i \in 0 .. n - 1 : new[i] <= byte
    BY <1>2, <1>3, <1>7
  <1> QED
    BY <1>1, <1>3, <1>5, <1>6, <1>7, <1>8 DEF Ringed

\* ... and the first taken.
LEMMA RingTaken ==
    ASSUME NEW n \in Nat, n > 0, NEW h, NEW tl, NEW buf, NEW last, NEW newest \in Nat,
           Ringed(n, h, tl, buf, last, newest, n)
    PROVE  buf[tl] > last /\ Ringed(n, h, (tl + 1) % n, buf, buf[tl], newest, 0)
  <1>1. h \in 0 .. n - 1 /\ tl \in 0 .. n - 1 /\ buf \in [0 .. n - 1 -> Nat] /\ last \in Nat
    BY DEF Ringed
  <1>2. InTurn(n, buf, tl, Fill(n, h, tl, n), last)
    BY DEF Ringed
  <1>3. buf[tl] > last /\ InTurn(n, buf, (tl + 1) % n, Fill(n, h, (tl + 1) % n, 0), buf[tl])
    BY <1>1, <1>2, TakenInTurn
  <1>4. (tl + 1) % n \in 0 .. n - 1
    BY <1>1, NextSlot
  <1> QED
    BY <1>1, <1>3, <1>4 DEF Ringed

-----------------------------------------------------------------------------
(* What a step leaves of those who select, and of the devices.             *)

\* Slots S hold the first c entries from the tail on, ...
HoldUpTo(n, S, tl, c) == \A i \in 0 .. n - 1 : Ahead(n, tl, i) < c => i \in S

\* ...and no others
HoldNoMore(n, S, tl, c) == \A i \in 0 .. n - 1 : i \in S => Ahead(n, tl, i) < c

\* An event is stored: what was held is, and the new one; if the ring does not overrun, no
\* others are.
LEMMA EventStored ==
    ASSUME NEW n \in Nat, n > 0, NEW h \in 0 .. n - 1, NEW tl \in 0 .. n - 1, NEW S, NEW met \in {0, n}, NEW any \in {0, n},
           HoldUpTo(n, S, tl, Fill(n, h, tl, met))
    PROVE  /\ HoldUpTo(n, S \cup {h}, tl, Fill(n, (h + 1) % n, tl, any))
           /\ (HoldNoMore(n, S, tl, Fill(n, h, tl, met)) /\ (h = tl => met = 0) /\ (h + 1) % n # tl) =>
                HoldNoMore(n, S \cup {h}, tl, Fill(n, (h + 1) % n, tl, any))
  <1>1. HoldUpTo(n, S \cup {h}, tl, Fill(n, (h + 1) % n, tl, any))
    <2>1. ASSUME NEW i \in 0 .. n - 1, Ahead(n, tl, i) < Fill(n, (h + 1) % n, tl, any), i # h PROVE i \in S
      <3>1. Ahead(n, tl, i) < Fill(n, h, tl, met)
        BY <2>1, FillsOneMore
      <3> QED
        BY <3>1 DEF HoldUpTo
    <2> QED
      BY <2>1 DEF HoldUpTo
  <1>2. ASSUME HoldNoMore(n, S, tl, Fill(n, h, tl, met)), h = tl => met = 0, (h + 1) % n # tl,
               NEW i \in 0 .. n - 1, i \in S \cup {h}
        PROVE  Ahead(n, tl, i) < Fill(n, (h + 1) % n, tl, any)
    <2>1. PICK k \in 0 .. n - 1 : k = (h + 1) % n /\ k = IF h = n - 1 THEN 0 ELSE h + 1
      BY NextSlot
    <2>2. PICK pi \in 0 .. n - 1 : pi = Ahead(n, tl, i) /\ (i >= tl => pi = i - tl) /\ (i < tl => pi = i - tl + n)
      BY AheadIs
    <2>3. PICK ph \in 0 .. n - 1 : ph = Ahead(n, tl, h) /\ (h >= tl => ph = h - tl) /\ (h < tl => ph = h - tl + n)
      BY AheadIs
    <2>4. PICK pk \in 0 .. n - 1 : pk = Ahead(n, tl, k) /\ (k >= tl => pk = k - tl) /\ (k < tl => pk = k - tl + n)
      BY AheadIs
    <2>5. Fill(n, k, tl, any) = pk
      BY <1>2, <2>1, <2>4, FillIs
    <2>6. pk = ph + 1
      BY <1>2, <2>1, <2>3, <2>4
    <2>7. CASE i = h
      BY <2>1, <2>2, <2>3, <2>5, <2>6, <2>7
    <2>8. CASE i # h
      <3>1. PICK c \in 0 .. n : c = Fill(n, h, tl, met) /\ (h # tl => c = ph) /\ (h = tl => c = met)
        BY <2>3, FillIs
      <3>2. pi < c
        BY <1>2, <2>2, <2>8, <3>1 DEF HoldNoMore
      <3>3. pi < pk
        BY <1>2, <2>6, <3>1, <3>2
      <3> QED
        BY <2>1, <2>2, <2>5, <3>3
    <2> QED
      BY <2>7, <2>8
  <1> QED
    BY <1>1, <1>2 DEF HoldNoMore

\* The one at the tail is taken, which is there.
LEMMA EventTaken ==
    ASSUME NEW n \in Nat, n > 0, NEW h \in 0 .. n - 1, NEW tl \in 0 .. n - 1, NEW S,
           HoldUpTo(n, S, tl, Fill(n, h, tl, n))
    PROVE  /\ tl \in S
           /\ HoldUpTo(n, S \ {tl}, (tl + 1) % n, Fill(n, h, (tl + 1) % n, 0))
           /\ (HoldNoMore(n, S, tl, Fill(n, h, tl, n)) /\ h # tl) =>
                HoldNoMore(n, S \ {tl}, (tl + 1) % n, Fill(n, h, (tl + 1) % n, 0))
  <1>1. PICK k \in 0 .. n - 1 : k = (tl + 1) % n /\ k = IF tl = n - 1 THEN 0 ELSE tl + 1
    BY NextSlot
  <1>2. Ahead(n, tl, tl) = 0
    BY AheadIs
  <1>3. PICK ph \in 0 .. n - 1 : ph = Ahead(n, tl, h) /\ (h >= tl => ph = h - tl) /\ (h < tl => ph = h - tl + n)
    BY AheadIs
  <1>4. PICK c \in 0 .. n : c = Fill(n, h, tl, n) /\ (h # tl => c = ph) /\ (h = tl => c = n)
    BY <1>3, FillIs
  <1>5. tl \in S
    <2>1. 0 < c
      BY <1>3, <1>4
    <2> QED
      BY <1>2, <1>4, <2>1 DEF HoldUpTo
  <1>6. ASSUME NEW i \in 0 .. n - 1, Ahead(n, (tl + 1) % n, i) < Fill(n, h, (tl + 1) % n, 0) PROVE i \in S \ {tl}
    <2>1. Ahead(n, tl, i) = Ahead(n, k, i) + 1 /\ Ahead(n, tl, i) < Fill(n, h, tl, n)
      BY <1>1, <1>6, FillsOneLess
    <2>2. i \in S
      BY <2>1 DEF HoldUpTo
    <2>3. Ahead(n, k, i) \in 0 .. n - 1
      BY AheadIs
    <2>4. i # tl
      BY <1>2, <2>1, <2>3
    <2> QED
      BY <2>2, <2>4
  <1>7. ASSUME HoldNoMore(n, S, tl, Fill(n, h, tl, n)), h # tl, NEW i \in 0 .. n - 1, i \in S, i # tl
        PROVE  Ahead(n, (tl + 1) % n, i) < Fill(n, h, (tl + 1) % n, 0)
    <2>1. PICK pi \in 0 .. n - 1 : pi = Ahead(n, tl, i) /\ (i >= tl => pi = i - tl) /\ (i < tl => pi = i - tl + n)
      BY AheadIs
    <2>2. PICK qi \in 0 .. n - 1 : qi = Ahead(n, k, i) /\ (i >= k => qi = i - k) /\ (i < k => qi = i - k + n)
      BY AheadIs
    <2>3. PICK qh \in 0 .. n - 1 : qh = Ahead(n, k, h) /\ (h >= k => qh = h - k) /\ (h < k => qh = h - k + n)
      BY AheadIs
    <2>4. PICK d \in 0 .. n : d = Fill(n, h, k, 0) /\ (h # k => d = qh) /\ (h = k => d = 0)
      <3>1. 0 \in {0, n}
        OBVIOUS
      <3>2. /\ Fill(n, h, k, 0) \in 0 .. n /\ (h # k => Fill(n, h, k, 0) = Ahead(n, k, h))
            /\ (h = k => Fill(n, h, k, 0) = 0)
        BY ONLY <3>1, FillIs, n \in Nat, n > 0, k \in 0 .. n - 1, h \in 0 .. n - 1
      <3> QED
        BY <2>3, <3>2
    <2>5. pi < c
      BY <1>4, <1>7, <2>1 DEF HoldNoMore
    <2>6. pi < ph
      BY <1>4, <1>7, <2>5
    <2>7. qi < d
      BY <1>1, <1>3, <1>7, <2>1, <2>2, <2>3, <2>4, <2>6
    <2> QED
      BY <1>1, <2>2, <2>4, <2>7
  <1> QED
    BY <1>5, <1>6, <1>7 DEF HoldUpTo, HoldNoMore

=============================================================================
