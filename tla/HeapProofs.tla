----------------------------- MODULE HeapProofs -----------------------------
(***************************************************************************)
(* Proofs about the heap, for every size of the heap and every sequence of *)
(* calls.  The order of addresses makes the free list's shape a local      *)
(* fact: each free block is linked to the next higher and the next lower   *)
(* one.                                                                    *)
(***************************************************************************)
EXTENDS Heap, TLAPS

Bytes == 0..(16 * (Shorts - 1))

\* HeapTiles, read off the flag
Tiles ==
    /\ 0 \in magic
    /\ \A b \in magic :
         /\ IF b \in last THEN End(b) = HeapSize ELSE End(b) \in magic
         /\ \A c \in magic : c <= b \/ c >= End(b)

\* A list from f along nx and pv goes through the addresses of S in order
Ordered(S, f, nx, pv) ==
    First(S, f) /\ \A b \in S : Follows(S, b, nx[b]) /\ Precedes(S, pv[b], b)

\* FreeListSound, read off the links
Linked == Ordered(Freed, freeList, next, prev)

\* What a call knows of the part of the list it has walked
Walking ==
    /\ call = "malloc" => /\ arg \in Bytes
                          /\ cursor = NULL \/ cursor \in Freed
                          /\ \A b \in Freed : cursor = NULL \/ b < cursor => ~Fits(b)
    /\ call = "tidy" => cursor = NULL \/ cursor \in Freed
    /\ call = "free" => /\ arg \in magic \ used
                        /\ cursor = NULL \/ cursor \in Freed
                        /\ IF before = NULL THEN First(Freed, cursor)
                           ELSE before \in Freed /\ before < arg /\ Follows(Freed, before, cursor)

Enough == \A b \in used : 16 * size[b] >= asked[b]

IInv == TypeOK /\ Tiles /\ Linked /\ Walking /\ Enough

-----------------------------------------------------------------------------
\* The number of paragraphs is the number asked for, rounded up.
LEMMA ParagraphsEnough ==
    ASSUME NEW n \in Bytes
    PROVE  Paragraphs(n) \in Nat /\ 16 * Paragraphs(n) >= n
  <1> DEFINE m == (n + 15) \div 16
  <1>1. Shorts \in Nat \ {0}
    BY DEF Shorts
  <1>2. m \in 0..(Shorts - 1) /\ 16 * m >= n
    BY <1>1 DEF Bytes
  <1>3. m % Shorts = m
    <2> HIDE DEF m
    <2> QED
      BY <1>1, <1>2
  <1> QED
    BY <1>2, <1>3 DEF Paragraphs

\* Following blocks have no free block between them.
LEMMA FreedBlocks == TypeOK => Freed \subseteq magic \ used /\ Freed \subseteq Addr /\ Freed \subseteq Int
  BY DEF TypeOK, Freed, Addr

\* The heap begins as one free block.
LEMMA InitIInv == Init => IInv
  <1> SUFFICES ASSUME Init PROVE IInv
    OBVIOUS
  <1> USE HeapAssumption
  <1>1. TypeOK
    BY DEF Init, TypeOK, Addr, Ptr
  <1>2. Tiles
    BY DEF Init, Tiles, End, Addr
  <1>3. Freed = {0}
    BY DEF Init, Freed
  <1>4. Linked
    BY <1>3 DEF Init, Linked, Ordered, First, Follows, Precedes, Addr
  <1>5. Walking /\ Enough
    BY DEF Init, Walking, Enough
  <1> QED
    BY <1>1, <1>2, <1>4, <1>5 DEF IInv

-----------------------------------------------------------------------------
(* The steps of a walk and the start of a call change no header and no link *)

\* A step that leaves the headers alone leaves the heap tiled.
LEMMA HeadersKept ==
    ASSUME IInv, UNCHANGED <<magic, size, last>>
    PROVE  Tiles'
  BY DEF IInv, Tiles, End

\* A step that leaves the links and the free blocks alone leaves the list in order.
LEMMA ListKept ==
    ASSUME IInv, UNCHANGED list, Freed' = Freed
    PROVE  Linked'
  BY DEF IInv, Linked, Ordered, First, Follows, Precedes, list

\* malloc() and tidyHeap() begin their walks at the head of the list.
LEMMA WalkStart ==
    ASSUME IInv, (\E n \in Requests : malloc(n)) \/ tidyHeap PROVE IInv'
  <1> USE HeapAssumption
  <1>1. UNCHANGED <<headers, list, asked>> /\ call = "none" /\ call' \in {"malloc", "tidy"}
        /\ cursor' = freeList /\ before' = before /\ arg' \in Nat
        /\ (call' = "malloc" => arg' \in Bytes)
    <2>1. ASSUME NEW n \in Requests, malloc(n)
          PROVE  arg' \in Bytes /\ arg' \in Nat
      BY <2>1 DEF malloc, Bytes
    <2> QED
      BY <2>1 DEF malloc, tidyHeap, IInv, TypeOK
  <1>2. Freed' = Freed
    BY <1>1 DEF Freed, headers
  <1>3. TypeOK'
    BY <1>1 DEF TypeOK, IInv, headers, list
  <1>4. Tiles' /\ Linked'
    BY <1>1, <1>2, HeadersKept, ListKept DEF headers
  <1>5. Walking'
    <2>1. IF cursor' = NULL THEN Freed = {} ELSE cursor' \in Freed /\ \A d \in Freed : d >= cursor'
      BY <1>1 DEF IInv, Linked, Ordered, First
    <2>2. Freed \subseteq Int
      BY FreedBlocks DEF IInv
    <2>3. \A b \in Freed : ~(cursor' = NULL \/ b < cursor')
      <3> SUFFICES ASSUME NEW b \in Freed PROVE ~(cursor' = NULL \/ b < cursor')
        OBVIOUS
      <3>1. cursor' \in Freed /\ b >= cursor' /\ b \in Int /\ cursor' \in Int
        BY <2>1, <2>2
      <3> QED
        BY <3>1
    <2> QED
      BY <1>1, <1>2, <2>1, <2>3 DEF Walking
  <1>6. Enough'
    BY <1>1 DEF Enough, IInv, headers
  <1> QED
    BY <1>3, <1>4, <1>5, <1>6 DEF IInv

\* The walks go on to the next free block.
LEMMA WalkStep ==
    ASSUME IInv, MallocSearch \/ TidyStep \/ FreeSearch PROVE IInv'
  <1> USE HeapAssumption
  <1>1. /\ UNCHANGED <<headers, list, asked, call, arg>> /\ cursor # NULL /\ cursor \in Freed
        /\ cursor' = next[cursor] /\ call \in {"malloc", "tidy", "free"}
    <2>1. CASE MallocSearch
      BY <2>1 DEF MallocSearch, IInv, Walking
    <2>2. CASE TidyStep
      BY <2>2 DEF TidyStep, IInv, Walking, TypeOK, Addr
    <2>3. CASE FreeSearch
      BY <2>3 DEF FreeSearch, Lower, IInv, Walking
    <2> QED
      BY <2>1, <2>2, <2>3
  <1>2. Freed' = Freed
    BY <1>1 DEF Freed, headers
  <1>3. TypeOK'
    BY <1>1, FreedBlocks DEF TypeOK, IInv, headers, list, MallocSearch, TidyStep, FreeSearch, Ptr
  <1>4. Tiles' /\ Linked' /\ Enough'
    BY <1>1, <1>2, HeadersKept, ListKept DEF headers, Enough, IInv
  <1>5. Follows(Freed, cursor, cursor') /\ Freed \subseteq Int
    BY <1>1, FreedBlocks DEF IInv, Linked, Ordered
  <1>6. ASSUME MallocSearch PROVE Walking'
    <2>1. \A b \in Freed : cursor' = NULL \/ b < cursor' => ~Fits(b)
      <3> SUFFICES ASSUME NEW b \in Freed, cursor' = NULL \/ b < cursor' PROVE ~Fits(b)
        OBVIOUS
      <3>0. b \in Int /\ cursor \in Int /\ cursor' \in Int \cup {NULL}
        BY <1>1, <1>5 DEF Follows
      <3>1. b <= cursor
        <4>1. CASE cursor' = NULL
          BY <1>5, <4>1 DEF Follows
        <4>2. CASE cursor' # NULL
          BY <1>5, <3>0, <4>2 DEF Follows
        <4> QED
          BY <4>1, <4>2
      <3>2. ~Fits(cursor) /\ call = "malloc"
        BY <1>6 DEF MallocSearch
      <3>3. b < cursor => ~Fits(b)
        BY <3>2 DEF IInv, Walking
      <3> QED
        BY <3>0, <3>1, <3>2, <3>3
    <2> QED
      BY <1>1, <1>2, <1>5, <1>6, <2>1 DEF IInv, Walking, MallocSearch, Follows, Fits, headers
  <1>7. ASSUME TidyStep PROVE Walking'
    BY <1>1, <1>2, <1>5, <1>7 DEF IInv, Walking, TidyStep, Follows
  <1>8. ASSUME FreeSearch PROVE Walking'
    <2>0. cursor' = NULL \/ cursor' \in Freed
      BY <1>5 DEF Follows
    <2>1. before' = cursor /\ cursor < arg /\ call = "free"
      BY <1>8 DEF FreeSearch, Lower
    <2> QED
      BY <1>1, <1>2, <1>5, <2>1 DEF IInv, Walking, Follows, headers
  <1> QED
    BY <1>3, <1>4, <1>6, <1>7, <1>8 DEF IInv

-----------------------------------------------------------------------------
(* Ordered lists *)

\* The lists before (S, f, nx, pv) and after (T, g, mx, qv) a change: address a
\* goes between p and c ...
Inserted(S, f, nx, pv, T, g, mx, qv, a, p, c) ==
    /\ S \in SUBSET Int /\ a \in Int /\ a \notin S /\ T = S \cup {a}
    /\ c = NULL \/ (c \in S /\ c > a)
    /\ IF p = NULL THEN First(S, c) ELSE p \in S /\ p < a /\ Follows(S, p, c)
    /\ g = IF p # NULL THEN f ELSE a
    /\ \A x \in T : mx[x] = CASE x = a -> c [] x = p -> a [] OTHER -> nx[x]
    /\ \A x \in T : qv[x] = CASE x = a -> p [] x = c -> a [] OTHER -> pv[x]

\* ... address a leaves ...
Removed(S, f, nx, pv, T, g, mx, qv, a) ==
    /\ S \in SUBSET Int /\ a \in S /\ T = S \ {a}
    /\ g = IF pv[a] # NULL THEN f ELSE nx[a]
    /\ \A x \in T : mx[x] = IF x = pv[a] THEN nx[a] ELSE nx[x]
    /\ \A x \in T : qv[x] = IF x = nx[a] THEN pv[a] ELSE pv[x]

\* ... or n, above a with none between, takes its place.
Replaced(S, f, nx, pv, T, g, mx, qv, a, n) ==
    /\ S \in SUBSET Int /\ a \in S /\ n \in Int /\ n > a /\ T = (S \ {a}) \cup {n}
    /\ \A d \in S : d <= a \/ d > n
    /\ g = IF pv[a] # NULL THEN f ELSE n
    /\ \A x \in T : mx[x] = CASE x = n -> nx[a] [] x = pv[a] -> n [] OTHER -> nx[x]
    /\ \A x \in T : qv[x] = CASE x = n -> pv[a] [] x = nx[a] -> n [] OTHER -> pv[x]

\* Inserting a block where free() stands keeps the list in order.
LEMMA ListInsert ==
    ASSUME NEW S, NEW f, NEW nx, NEW pv, Ordered(S, f, nx, pv),
           NEW T, NEW g, NEW mx, NEW qv, NEW a, NEW p, NEW c,
           Inserted(S, f, nx, pv, T, g, mx, qv, a, p, c)
    PROVE  Ordered(T, g, mx, qv)
  <1> USE DEF Inserted
  <1> NULL \notin Int
    BY HeapAssumption
  <1>1. \A d \in S : d > a \/ d < a
    OBVIOUS
  <1>2. \A d \in S : d > a => c # NULL /\ d >= c
    BY DEF First, Follows
  <1>3. \A d \in S : d < a => p # NULL /\ d <= p
    BY <1>2 DEF First, Follows
  <1>4. First(T, g)
    BY <1>1, <1>2, <1>3 DEF First, Ordered
  <1>5. Follows(T, a, c) /\ Precedes(T, p, a) /\ mx[a] = c /\ qv[a] = p
    BY <1>1, <1>2, <1>3 DEF Follows, Precedes
  <1>6. ASSUME NEW b \in S PROVE Follows(T, b, mx[b])
    <2>1. CASE b = p
      BY <1>1, <1>2, <1>3, <2>1 DEF Follows
    <2>2. CASE b # p
      <3>1. mx[b] = nx[b] /\ Follows(S, b, nx[b])
        BY <2>2 DEF Ordered
      <3>2. b < a => nx[b] # NULL /\ nx[b] < a
        BY <1>3, <2>2, <3>1 DEF Follows
      <3> QED
        BY <1>1, <3>1, <3>2 DEF Follows
    <2> QED
      BY <2>1, <2>2
  <1>7. ASSUME NEW b \in S PROVE Precedes(T, qv[b], b)
    <2>1. CASE b = c
      BY <1>1, <1>2, <1>3, <2>1 DEF Precedes
    <2>2. CASE b # c
      <3>1. qv[b] = pv[b] /\ Precedes(S, pv[b], b)
        BY <2>2 DEF Ordered
      <3>2. b > a => pv[b] # NULL /\ pv[b] > a
        BY <1>2, <2>2, <3>1 DEF Precedes
      <3> QED
        BY <1>1, <3>1, <3>2 DEF Precedes
    <2> QED
      BY <2>1, <2>2
  <1> QED
    BY <1>4, <1>5, <1>6, <1>7 DEF Ordered

\* Neighbours point at each other.
LEMMA ListBack ==
    ASSUME NEW S \in SUBSET Int, NEW f, NEW nx, NEW pv, Ordered(S, f, nx, pv),
           NEW x \in S, NEW y \in S
    PROVE  nx[x] = y <=> pv[y] = x
  <1> NULL \notin Int
    BY HeapAssumption
  <1>1. Follows(S, x, nx[x]) /\ Precedes(S, pv[y], y)
    BY DEF Ordered
  <1>2. x \in Int /\ y \in Int /\ x # NULL /\ y # NULL
    OBVIOUS
  <1>3. ASSUME nx[x] = y PROVE pv[y] = x
    <2>1. y > x /\ \A d \in S : d <= x \/ d >= y
      BY <1>1, <1>2, <1>3 DEF Follows
    <2>2. pv[y] # NULL
      BY <1>1, <1>2, <2>1 DEF Precedes
    <2>3. pv[y] \in S /\ pv[y] < y /\ (x <= pv[y] \/ x >= y)
      BY <1>1, <2>2 DEF Precedes
    <2>4. pv[y] \in Int /\ (pv[y] <= x \/ pv[y] >= y)
      BY <2>1, <2>3
    <2> QED
      BY <1>2, <2>1, <2>3, <2>4
  <1>4. ASSUME pv[y] = x PROVE nx[x] = y
    <2>1. x < y /\ \A d \in S : d <= x \/ d >= y
      BY <1>1, <1>2, <1>4 DEF Precedes
    <2>2. nx[x] # NULL
      BY <1>1, <1>2, <2>1 DEF Follows
    <2>3. nx[x] \in S /\ nx[x] > x /\ (y <= x \/ y >= nx[x])
      BY <1>1, <2>2 DEF Follows
    <2>4. nx[x] \in Int /\ (nx[x] <= x \/ nx[x] >= y)
      BY <2>1, <2>3
    <2> QED
      BY <1>2, <2>1, <2>3, <2>4
  <1> QED
    BY <1>3, <1>4

\* Removing a block keeps the list in order.
LEMMA ListRemove ==
    ASSUME NEW S, NEW f, NEW nx, NEW pv, Ordered(S, f, nx, pv),
           NEW T, NEW g, NEW mx, NEW qv, NEW a, Removed(S, f, nx, pv, T, g, mx, qv, a)
    PROVE  Ordered(T, g, mx, qv)
  <1> USE DEF Removed
  <1> NULL \notin Int
    BY HeapAssumption
  <1>0. a \in Int /\ \A d \in T : d \in S /\ d \in Int /\ (d < a \/ d > a)
    OBVIOUS
  <1>1. Follows(S, a, nx[a]) /\ Precedes(S, pv[a], a)
    BY DEF Ordered
  <1>2. First(T, g)
    <2>1. CASE pv[a] # NULL
      <3>1. pv[a] \in S /\ pv[a] < a
        BY <1>1, <2>1 DEF Precedes
      <3>2. f \in S /\ f # NULL /\ \A d \in S : d >= f
        BY DEF First, Ordered
      <3>3. pv[a] >= f /\ pv[a] \in Int /\ f \in Int
        BY <3>1, <3>2
      <3>4. f # a
        BY <1>0, <3>1, <3>3
      <3> QED
        BY <2>1, <3>2, <3>4 DEF First
    <2>2. CASE pv[a] = NULL
      <3>1. \A d \in T : d > a
        BY <1>0, <1>1, <2>2 DEF Precedes
      <3>2. g = nx[a]
        BY <2>2
      <3>3. CASE nx[a] = NULL
        BY <1>0, <1>1, <3>1, <3>2, <3>3 DEF First, Follows
      <3>4. CASE nx[a] # NULL
        <4>1. nx[a] \in T /\ \A d \in T : d <= a \/ d >= nx[a]
          BY <1>0, <1>1, <3>4 DEF Follows
        <4>2. \A d \in T : d >= nx[a]
          BY <1>0, <3>1, <4>1
        <4> QED
          BY <3>2, <3>4, <4>1, <4>2 DEF First
      <3> QED
        BY <3>3, <3>4
    <2> QED
      BY <2>1, <2>2
  <1>3. ASSUME NEW b \in T PROVE Follows(T, b, mx[b])
    <2>1. Follows(S, b, nx[b]) /\ (nx[b] = a <=> b = pv[a])
      BY ListBack DEF Ordered
    <2>2. CASE b = pv[a]
      <3>1. mx[b] = nx[a] /\ nx[b] = a
        BY <2>1, <2>2
      <3>2. \A d \in T : d <= b \/ d > a
        BY <1>0, <2>1, <3>1 DEF Follows
      <3>3. b < a
        BY <2>1, <3>1 DEF Follows
      <3>4. CASE nx[a] = NULL
        BY <1>0, <1>1, <3>1, <3>2, <3>4 DEF Follows
      <3>5. CASE nx[a] # NULL
        <4>1. nx[a] \in T /\ nx[a] > a /\ \A d \in T : d <= a \/ d >= nx[a]
          BY <1>0, <1>1, <3>5 DEF Follows
        <4>2. nx[a] \in Int /\ b \in Int
          BY <1>0, <4>1
        <4>3. \A d \in T : d <= b \/ d >= nx[a]
          BY <1>0, <3>2, <4>1, <4>2
        <4> QED
          BY <1>0, <3>1, <3>3, <3>5, <4>1, <4>2, <4>3 DEF Follows
      <3> QED
        BY <3>4, <3>5
    <2>3. CASE b # pv[a]
      BY <2>1, <2>3 DEF Follows
    <2> QED
      BY <2>2, <2>3
  <1>4. ASSUME NEW b \in T PROVE Precedes(T, qv[b], b)
    <2>1. Precedes(S, pv[b], b) /\ (pv[b] = a <=> b = nx[a])
      BY ListBack DEF Ordered
    <2>2. CASE b = nx[a]
      <3>1. qv[b] = pv[a] /\ pv[b] = a
        BY <2>1, <2>2
      <3>2. \A d \in T : d < a \/ d >= b
        BY <1>0, <2>1, <3>1 DEF Precedes
      <3>3. b > a
        BY <2>1, <3>1 DEF Precedes
      <3>4. CASE pv[a] = NULL
        BY <1>0, <1>1, <3>1, <3>2, <3>4 DEF Precedes
      <3>5. CASE pv[a] # NULL
        <4>1. pv[a] \in T /\ pv[a] < a /\ \A d \in T : d <= pv[a] \/ d >= a
          BY <1>0, <1>1, <3>5 DEF Precedes
        <4>2. pv[a] \in Int /\ b \in Int
          BY <1>0, <4>1
        <4>3. \A d \in T : d <= pv[a] \/ d >= b
          BY <1>0, <3>2, <4>1, <4>2
        <4> QED
          BY <1>0, <3>1, <3>3, <3>5, <4>1, <4>2, <4>3 DEF Precedes
      <3> QED
        BY <3>4, <3>5
    <2>3. CASE b # nx[a]
      BY <2>1, <2>3 DEF Precedes
    <2> QED
      BY <2>2, <2>3
  <1> QED
    BY <1>2, <1>3, <1>4 DEF Ordered

\* Putting the rest of a block in its place keeps the list in order.
LEMMA ListReplace ==
    ASSUME NEW S, NEW f, NEW nx, NEW pv, Ordered(S, f, nx, pv),
           NEW T, NEW g, NEW mx, NEW qv, NEW a, NEW n, Replaced(S, f, nx, pv, T, g, mx, qv, a, n)
    PROVE  Ordered(T, g, mx, qv)
  <1> USE DEF Replaced
  <1> NULL \notin Int
    BY HeapAssumption
  <1>1. Follows(S, a, nx[a]) /\ Precedes(S, pv[a], a)
    BY DEF Ordered
  <1>2. First(T, g)
    BY <1>1 DEF First, Follows, Precedes, Ordered
  <1>3. Follows(T, n, mx[n]) /\ Precedes(T, qv[n], n)
    BY <1>1 DEF Follows, Precedes
  <1>4. ASSUME NEW b \in S \ {a} PROVE Follows(T, b, mx[b])
    <2>1. Follows(S, b, nx[b])
      BY DEF Ordered
    <2>2. nx[b] = a <=> b = pv[a]
      BY ListBack
    <2>3. b \in Int /\ b # n
      OBVIOUS
    <2>4. CASE b = pv[a]
      BY <1>1, <2>1, <2>2, <2>3, <2>4 DEF Follows
    <2>5. CASE b # pv[a]
      BY <2>1, <2>2, <2>3, <2>5 DEF Follows
    <2> QED
      BY <2>4, <2>5
  <1>5. ASSUME NEW b \in S \ {a} PROVE Precedes(T, qv[b], b)
    <2>1. Precedes(S, pv[b], b)
      BY DEF Ordered
    <2>2. nx[a] = b <=> pv[b] = a
      <3>1. S \in SUBSET Int /\ a \in S /\ b \in S
        OBVIOUS
      <3> HIDE DEF Replaced
      <3> QED
        BY <3>1, ListBack
    <2>3. b \in Int /\ b # n
      OBVIOUS
    <2>4. CASE b = nx[a]
      BY <1>1, <2>1, <2>2, <2>3, <2>4 DEF Precedes
    <2>5. CASE b # nx[a]
      BY <2>1, <2>2, <2>3, <2>5 DEF Precedes
    <2> QED
      BY <2>4, <2>5
  <1> QED
    BY <1>2, <1>3, <1>4, <1>5 DEF Ordered

-----------------------------------------------------------------------------
(* The steps that change the heap *)

\* malloc() that finds no block and tidyHeap() that is done change nothing.
LEMMA CallEnds ==
    ASSUME IInv, OutOfMemory \/ TidyDone PROVE IInv'
  <1> USE HeapAssumption
  <1>1. UNCHANGED <<headers, list, asked>> /\ call # "free" /\ Return
    BY DEF OutOfMemory, TidyDone
  <1>2. Freed' = Freed
    BY <1>1 DEF Freed, headers, Return
  <1>3. TypeOK'
    BY <1>1 DEF TypeOK, IInv, headers, list, Return, Ptr
  <1>4. Tiles' /\ Linked'
    BY <1>1, <1>2, HeadersKept, ListKept DEF headers
  <1>5. Walking' /\ Enough'
    BY <1>1 DEF Walking, Enough, IInv, headers, Return
  <1> QED
    BY <1>3, <1>4, <1>5 DEF IInv

\* free() begins with a block in use.
LEMMA FreeStarts ==
    ASSUME IInv, NEW b \in Addr, free(b) PROVE IInv'
  <1> USE HeapAssumption
  <1>1. b \in magic /\ b \in used /\ b \in Nat
    BY DEF free, IInv, TypeOK, Addr
  <1>2. Freed' = Freed
    BY <1>1 DEF Freed, free
  <1>3. TypeOK'
    BY <1>1 DEF TypeOK, IInv, list, free, Ptr
  <1>4. Tiles' /\ Linked'
    BY <1>2, HeadersKept, ListKept DEF free
  <1>5. First(Freed, freeList)
    BY DEF IInv, Linked, Ordered
  <1>6. Walking'
    BY <1>1, <1>2, <1>5 DEF Walking, free, First
  <1>7. Enough'
    BY DEF Enough, IInv, free, TypeOK
  <1> QED
    BY <1>3, <1>4, <1>6, <1>7 DEF IInv

\* free() ends with its block on the list.
LEMMA FreeEnds ==
    ASSUME IInv, FreeLink PROVE IInv'
  <1> USE HeapAssumption
  <1>1. /\ call = "free" /\ ~Lower /\ Return /\ UNCHANGED <<headers, asked>>
        /\ arg \in magic \ used /\ (cursor = NULL \/ cursor \in Freed)
        /\ IF before = NULL THEN First(Freed, cursor)
           ELSE before \in Freed /\ before < arg /\ Follows(Freed, before, cursor)
    BY DEF FreeLink, IInv, Walking
  <1>2. Freed' = Freed \cup {arg} /\ arg \notin Freed
    BY <1>1 DEF Freed, headers, Return
  <1>3. arg \in Addr /\ arg \in Int /\ Freed \subseteq Int /\ Freed \subseteq Addr
    BY <1>1, FreedBlocks DEF IInv, TypeOK, Addr
  <1>4. cursor = NULL \/ (cursor \in Freed /\ cursor > arg)
    <2>1. ASSUME cursor # NULL PROVE cursor \in Freed /\ cursor > arg
      <3>1. cursor \in Freed /\ cursor \in Int /\ cursor # arg /\ ~(cursor < arg)
        BY <1>1, <1>2, <1>3, <2>1 DEF Lower
      <3> QED
        BY <1>3, <3>1
    <2> QED
      BY <2>1
  <1>5. TypeOK'
    <2>1. cursor \in Ptr /\ before \in Ptr /\ next \in [Addr -> Ptr] /\ prev \in [Addr -> Ptr]
          /\ freeList \in Ptr /\ arg \in Ptr
      BY <1>3 DEF IInv, TypeOK, Ptr
    <2>2. next' \in [Addr -> Ptr] /\ prev' \in [Addr -> Ptr] /\ freeList' \in Ptr
      BY <2>1 DEF FreeLink
    <2> QED
      BY <1>1, <2>2 DEF TypeOK, IInv, headers, Return, Ptr
  <1>6. Linked'
    <2>1. Ordered(Freed, freeList, next, prev)
      BY DEF IInv, Linked
    <2>2. /\ \A x \in Freed' : next'[x] = CASE x = arg -> cursor [] x = before -> arg [] OTHER -> next[x]
          /\ \A x \in Freed' : prev'[x] = CASE x = arg -> before [] x = cursor -> arg [] OTHER -> prev[x]
          /\ freeList' = IF before # NULL THEN freeList ELSE arg
      BY <1>2, <1>3 DEF FreeLink
    <2>3. Inserted(Freed, freeList, next, prev, Freed', freeList', next', prev', arg, before, cursor)
      BY <1>1, <1>2, <1>3, <1>4, <2>2 DEF Inserted
    <2>4. Ordered(Freed', freeList', next', prev')
      BY <2>1, <2>3, ListInsert
    <2> QED
      BY <2>4 DEF Linked
  <1>7. Tiles'
    BY <1>1, HeadersKept DEF headers
  <1>8. Walking' /\ Enough'
    BY <1>1 DEF Walking, Enough, IInv, headers, Return
  <1> QED
    BY <1>5, <1>6, <1>7, <1>8 DEF IInv

\* tidyHeap() that joins two neighbours keeps the invariant.
LEMMA JoinStep ==
    ASSUME IInv, TidyJoin PROVE IInv'
  <1> USE HeapAssumption
  <1> DEFINE b == cursor
             gone == next[cursor]
  <1>1. /\ call = "tidy" /\ call' = "tidy" /\ b \in magic /\ gone = b + size[b] + 1
        /\ size' = [size EXCEPT ![b] = @ + size[gone] + 1, ![gone] = 0]
        /\ last' = IF gone \in last THEN (last \ {gone}) \cup {b} ELSE last
        /\ magic' = magic \ {gone} /\ used' = used /\ freeList' = freeList
        /\ next' = [next EXCEPT ![b] = next[gone], ![gone] = NULL]
        /\ prev' = [a \in Addr |-> CASE a = gone -> NULL [] a = next[gone] -> b [] OTHER -> prev[a]]
        /\ cursor' = next[gone] /\ UNCHANGED <<arg, before, asked>>
    BY DEF TidyJoin, Adjacent, End
  <1>2. b \in Freed /\ b \in Int /\ b \in Addr /\ Freed \subseteq Int /\ Freed \subseteq Addr
        /\ magic \subseteq Int /\ size[b] \in Nat /\ Freed = magic \ used
    <2>1. b # NULL /\ b \in Addr /\ b \in Int
      BY <1>1 DEF IInv, TypeOK, Addr
    <2>2. magic \subseteq Addr /\ Addr \subseteq Int /\ size[b] \in Nat
      BY <2>1 DEF IInv, TypeOK, Addr
    <2>3. Freed = magic \ used
      BY <1>1 DEF Freed
    <2>4. b \in Freed
      BY <1>1, <2>1 DEF IInv, Walking
    <2> QED
      BY <2>1, <2>2, <2>3, <2>4
  <1>3. Ordered(Freed, freeList, next, prev)
    BY DEF IInv, Linked
  <1>4. gone \in Freed /\ gone > b /\ gone \in Int /\ gone # NULL
    <2>1. gone # NULL
      BY <1>1, <1>2
    <2>2. Follows(Freed, b, gone)
      BY <1>2, <1>3 DEF Ordered
    <2> QED
      BY <1>2, <2>1, <2>2 DEF Follows
  <1>5. prev[gone] = b
    <2> HIDE DEF b, gone
    <2>1. next[b] = gone
      BY DEF b, gone
    <2> QED
      BY <1>2, <1>3, <1>4, <2>1, ListBack
  <1>6. Freed' = Freed \ {gone}
    BY <1>1, <1>2 DEF Freed
  <1>7. TypeOK'
    <2>1. gone \in Addr /\ next[gone] \in Ptr /\ size[gone] \in Nat /\ gone \notin used
      BY <1>2, <1>4 DEF IInv, TypeOK
    <2>2. magic' \subseteq Addr /\ used' \subseteq magic' /\ last' \subseteq magic'
      BY <1>1, <1>2, <1>4, <2>1 DEF IInv, TypeOK
    <2>3. size' \in [Addr -> Nat]
      BY <1>1, <1>2, <2>1 DEF IInv, TypeOK
    <2>4. next' \in [Addr -> Ptr] /\ prev' \in [Addr -> Ptr]
      BY <1>1, <1>2, <2>1 DEF IInv, TypeOK, Ptr
    <2> QED
      BY <1>1, <2>1, <2>2, <2>3, <2>4 DEF IInv, TypeOK
  <1>8. Linked'
    <2>1. gone \in Addr
      BY <1>2, <1>4
    <2>2. Removed(Freed, freeList, next, prev, Freed', freeList', next', prev', gone)
      <3>1. \A x \in Freed' : next'[x] = IF x = prev[gone] THEN next[gone] ELSE next[x]
        BY <1>1, <1>2, <1>4, <1>5, <1>6 DEF IInv, TypeOK
      <3>2. \A x \in Freed' : prev'[x] = IF x = next[gone] THEN prev[gone] ELSE prev[x]
        BY <1>1, <1>2, <1>4, <1>5, <1>6 DEF IInv, TypeOK
      <3>3. freeList' = IF prev[gone] # NULL THEN freeList ELSE next[gone]
        BY <1>1, <1>2, <1>5
      <3> HIDE DEF gone
      <3> QED
        BY <1>2, <1>4, <1>6, <3>1, <3>2, <3>3 DEF Removed
    <2> HIDE DEF gone
    <2>3. Ordered(Freed', freeList', next', prev')
      BY <1>3, <2>2, ListRemove
    <2> QED
      BY <2>3 DEF Linked
  <1>9. Tiles'
    <2>1. \A x \in magic : x \in Addr /\ x \in Int /\ size[x] \in Nat
      BY <1>2 DEF IInv, TypeOK
    <2>2. gone \in magic /\ size'[b] = size[b] + size[gone] + 1 /\ b + size'[b] + 1 = End(gone)
      BY <1>1, <1>2, <1>4, <2>1 DEF IInv, TypeOK, End
    <2>3. \A x \in magic' : x # b => size'[x] = size[x]
      BY <1>1, <2>1 DEF IInv, TypeOK
    <2>4. 0 \in magic'
      BY <1>1, <1>2, <1>4 DEF IInv, Tiles, Addr
    <2>5. \A x \in magic' : x # b => End(x) # gone
      BY <1>1, <1>2, <1>4, <2>1 DEF IInv, Tiles, End
    <2> HIDE DEF b, gone
    <2>6. ASSUME NEW x \in magic' PROVE IF x \in last' THEN x + size'[x] + 1 = HeapSize
                                                        ELSE x + size'[x] + 1 \in magic'
      <3>1. CASE x = b
        <4>1. IF gone \in last THEN End(gone) = HeapSize ELSE End(gone) \in magic
          BY <2>2 DEF IInv, Tiles
        <4>2. b \notin last
          BY <1>1, <1>2, <1>4, <2>1, <2>2 DEF IInv, Tiles, End, Addr, b
        <4>3. End(gone) # gone
          BY <2>1, <2>2 DEF End
        <4>4. b \in last' <=> gone \in last
          BY <1>1, <1>4, <4>2
        <4>5. magic' = magic \ {gone}
          BY <1>1
        <4> QED
          BY <2>2, <3>1, <4>1, <4>3, <4>4, <4>5
      <3>2. CASE x # b
        <4>1. x \in magic /\ x # gone /\ (x \in last' <=> x \in last) /\ size'[x] = size[x]
          BY <1>1, <2>3, <3>2
        <4>2. IF x \in last THEN End(x) = HeapSize ELSE End(x) \in magic
          BY <4>1 DEF IInv, Tiles
        <4>3. magic' = magic \ {gone} /\ End(x) # gone
          BY <1>1, <2>5, <3>2
        <4> QED
          BY <4>1, <4>2, <4>3 DEF End
      <3> QED
        BY <3>1, <3>2
    <2>7. ASSUME NEW x \in magic', NEW c \in magic' PROVE c <= x \/ c >= x + size'[x] + 1
      <3>1. CASE x = b
        <4>1. (c <= b \/ c >= gone) /\ (c <= gone \/ c >= End(gone)) /\ c # gone
          BY <1>1, <2>2 DEF IInv, Tiles, End, b
        <4>2. c \in Int /\ gone \in Int /\ b \in Int
          BY <1>1, <1>2, <1>4
        <4> QED
          BY <2>2, <3>1, <4>1, <4>2
      <3>2. CASE x # b
        BY <1>1, <2>3, <3>2 DEF IInv, Tiles, End
      <3> QED
        BY <3>1, <3>2
    <2> QED
      BY <2>4, <2>6, <2>7 DEF Tiles, End
  <1>10. Walking'
    <2>1. Follows(Freed, gone, next[gone])
      BY <1>3, <1>4 DEF Ordered
    <2> QED
      BY <1>1, <1>2, <1>4, <1>6, <2>1 DEF Walking, Follows
  <1>11. Enough'
    <2>1. b \notin used /\ gone \notin used
      BY <1>2, <1>4
    <2> QED
      BY <1>1, <2>1 DEF Enough, IInv, TypeOK
  <1> QED
    BY <1>7, <1>8, <1>9, <1>10, <1>11 DEF IInv

\* What malloc() knows of the block it takes
LEMMA TakenBlock ==
    ASSUME IInv, NEW b \in Addr, Taken(b)
    PROVE  /\ call = "malloc" /\ b \in Freed /\ Freed = magic \ used /\ b \in magic /\ b \notin used
           /\ arg \in Bytes /\ arg \in Nat /\ Paragraphs(arg) \in Nat /\ 16 * Paragraphs(arg) >= arg
           /\ size[b] >= Paragraphs(arg)
  <1> USE HeapAssumption
  <1>1. call = "malloc" /\ b = cursor /\ b # NULL /\ Fits(b)
    BY DEF Taken, Addr
  <1>2. b \in Freed /\ Freed = magic \ used
    BY <1>1 DEF IInv, Walking, Freed
  <1>3. arg \in Bytes /\ arg \in Nat
    BY <1>1 DEF IInv, Walking, TypeOK
  <1> QED
    BY <1>1, <1>2, <1>3, ParagraphsEnough DEF Fits

\* malloc() that takes a whole block keeps the invariant.
LEMMA WholeStep ==
    ASSUME IInv, NEW b \in Addr, Whole(b) PROVE IInv'
  <1> USE HeapAssumption
  <1>1. /\ Return /\ used' = used \cup {b} /\ asked' = [asked EXCEPT ![b] = arg]
        /\ UNCHANGED <<magic, size, last>> /\ Unlink(b) /\ Taken(b)
    BY DEF Whole, Taken
  <1>2. /\ call = "malloc" /\ b \in Freed /\ Freed = magic \ used /\ b \in magic /\ b \notin used
        /\ arg \in Nat /\ Paragraphs(arg) \in Nat /\ 16 * Paragraphs(arg) >= arg
        /\ size[b] >= Paragraphs(arg)
    BY <1>1, TakenBlock
  <1>3. Freed' = Freed \ {b} /\ Freed \subseteq Int /\ Freed \subseteq Addr
    BY <1>1, <1>2, FreedBlocks DEF Freed, Return, IInv
  <1>4. TypeOK'
    <2>1. next' \in [Addr -> Ptr] /\ prev' \in [Addr -> Ptr] /\ freeList' \in Ptr
      BY <1>1 DEF Unlink, IInv, TypeOK, Ptr
    <2> QED
      BY <1>1, <1>2, <2>1 DEF IInv, TypeOK, Return, Ptr
  <1>5. Tiles'
    BY <1>1, HeadersKept
  <1>6. Linked'
    <2>1. Removed(Freed, freeList, next, prev, Freed', freeList', next', prev', b)
      BY <1>1, <1>2, <1>3 DEF Removed, Unlink
    <2> QED
      BY <2>1, ListRemove DEF IInv, Linked
  <1>7. Walking'
    BY <1>1 DEF Walking, Return
  <1>8. Enough'
    BY <1>1, <1>2 DEF Enough, IInv, TypeOK
  <1> QED
    BY <1>4, <1>5, <1>6, <1>7, <1>8 DEF IInv

\* malloc() that splits a block keeps the invariant.
LEMMA SplitStep ==
    ASSUME IInv, NEW b \in Addr, Split(b) PROVE IInv'
  <1> USE HeapAssumption
  <1> DEFINE bl  == Paragraphs(arg)
             new == b + bl + 1
  <1>1. /\ Return /\ used' = used \cup {b} /\ asked' = [asked EXCEPT ![b] = arg]
        /\ magic' = magic \cup {new} /\ last' = LastMoved(b, new)
        /\ size' = [size EXCEPT ![b] = bl, ![new] = size[b] - bl - 1]
        /\ Replace(b, new) /\ Taken(b) /\ bl + MinBlock < size[b]
    BY DEF Split, Taken, Fragments
  <1>2. /\ call = "malloc" /\ b \in Freed /\ Freed = magic \ used /\ b \in magic /\ b \notin used
        /\ arg \in Nat /\ bl \in Nat /\ 16 * bl >= arg
    BY <1>1, TakenBlock
  <1> HIDE DEF bl
  <1>3. \A x \in magic : x \in Addr /\ x \in Int /\ size[x] \in Nat
    BY DEF IInv, TypeOK, Addr
  <1>4. /\ new \in Int /\ b < new /\ new < End(b) /\ End(b) <= HeapSize
        /\ \A x \in magic : x <= b \/ x > new
    <2>1. new \in Int /\ b < new /\ new < End(b) /\ End(b) \in Int
      BY <1>1, <1>2, <1>3 DEF End
    <2>2. End(b) <= HeapSize
      <3>1. End(b) = HeapSize \/ End(b) \in Addr
        BY <1>2, <1>3 DEF IInv, Tiles
      <3> QED
        BY <3>1 DEF Addr
    <2>3. ASSUME NEW x \in magic PROVE x <= b \/ x > new
      <3>1. x <= b \/ x >= End(b)
        BY <1>2 DEF IInv, Tiles
      <3> HIDE DEF new
      <3> QED
        BY <1>3, <2>1, <3>1
    <2> QED
      BY <2>1, <2>2, <2>3
  <1>5. new \in Addr /\ new \notin magic /\ new # b
    <2>1. new \in 0..(HeapSize - 1)
      BY <1>2, <1>3, <1>4 DEF End, Addr
    <2> QED
      BY <1>2, <1>3, <1>4, <2>1 DEF Addr
  <1>6. new \notin used /\ new \notin last
    BY <1>5 DEF IInv, TypeOK
  <1> HIDE DEF new
  <1>7. Freed' = (Freed \ {b}) \cup {new} /\ Freed \subseteq Int /\ Freed \subseteq Addr
    BY <1>1, <1>2, <1>5, <1>6, FreedBlocks DEF Freed, Return, IInv
  <1>8. size' \in [Addr -> Nat] /\ size'[b] = bl /\ size'[new] = size[b] - bl - 1
        /\ \A x \in magic : x # b => size'[x] = size[x]
    <2>1. size[b] - bl - 1 \in Nat
      BY <1>1, <1>2, <1>3
    <2> QED
      BY <1>1, <1>2, <1>3, <1>5, <2>1 DEF IInv, TypeOK
  <1>9. TypeOK'
    <2>1. next' \in [Addr -> Ptr] /\ prev' \in [Addr -> Ptr] /\ freeList' \in Ptr
      BY <1>1, <1>5 DEF Replace, IInv, TypeOK, Ptr
    <2>2. magic' \subseteq Addr /\ used' \subseteq magic' /\ last' \subseteq magic'
      BY <1>1, <1>2, <1>5 DEF LastMoved, IInv, TypeOK
    <2> QED
      BY <1>1, <1>2, <1>8, <2>1, <2>2 DEF IInv, TypeOK, Return, Ptr
  <1>10. Linked'
    <2>1. \A x \in Freed' : next'[x] = CASE x = new -> next[b] [] x = prev[b] -> new [] OTHER -> next[x]
      BY <1>1, <1>2, <1>5, <1>7 DEF Replace
    <2>2. \A x \in Freed' : prev'[x] = CASE x = new -> prev[b] [] x = next[b] -> new [] OTHER -> prev[x]
      BY <1>1, <1>2, <1>5, <1>7 DEF Replace
    <2>3. Replaced(Freed, freeList, next, prev, Freed', freeList', next', prev', b, new)
      BY <1>1, <1>2, <1>4, <1>7, <2>1, <2>2 DEF Replaced, Replace
    <2> QED
      BY <2>3, ListReplace DEF IInv, Linked
  <1>11. Tiles'
    <2>1. End(b) = new + size'[new] + 1 /\ new = b + size'[b] + 1
      BY <1>2, <1>3, <1>4, <1>8 DEF End, new
    <2>2. ASSUME NEW x \in magic' PROVE IF x \in last' THEN x + size'[x] + 1 = HeapSize
                                                        ELSE x + size'[x] + 1 \in magic'
      <3>1. CASE x = b
        <4>1. b \notin last' /\ new \in magic'
          BY <1>1, <1>5 DEF LastMoved
        <4> QED
          BY <2>1, <3>1, <4>1
      <3>2. CASE x = new
        <4>1. new \in last' <=> b \in last
          BY <1>1, <1>5, <1>6 DEF LastMoved
        <4>2. IF b \in last THEN End(b) = HeapSize ELSE End(b) \in magic
          BY <1>2 DEF IInv, Tiles
        <4> QED
          BY <1>1, <2>1, <3>2, <4>1, <4>2
      <3>3. CASE x \in magic /\ x # b
        <4>1. x \in last' <=> x \in last
          BY <1>1, <1>5, <3>3 DEF LastMoved
        <4>2. IF x \in last THEN End(x) = HeapSize ELSE End(x) \in magic
          BY <3>3 DEF IInv, Tiles
        <4>3. End(x) = x + size'[x] + 1 /\ magic \subseteq magic'
          BY <1>1, <1>8, <3>3 DEF End
        <4> QED
          BY <4>1, <4>2, <4>3
      <3> QED
        BY <1>1, <3>1, <3>2, <3>3
    <2>3. ASSUME NEW x \in magic', NEW c \in magic' PROVE c <= x \/ c >= x + size'[x] + 1
      <3>1. \A y \in magic, d \in magic : d <= y \/ d >= End(y)
        BY DEF IInv, Tiles
      <3>2. End(b) \in Int /\ b \in Int
        BY <1>2, <1>3 DEF End
      <3>3. CASE x = b
        <4>1. c \in magic \/ c = new
          BY <1>1
        <4>2. c <= b \/ c >= new
          BY <1>3, <1>4, <4>1
        <4> QED
          BY <2>1, <3>3, <4>2
      <3>4. CASE x = new
        <4>1. CASE c = new
          BY <1>4, <3>4, <4>1
        <4>2. CASE c \in magic
          <5>1. c <= b \/ c >= End(b)
            BY <1>2, <3>1, <4>2
          <5> QED
            BY <1>3, <1>4, <2>1, <3>2, <3>4, <4>2, <5>1
        <4> QED
          BY <1>1, <4>1, <4>2
      <3>5. CASE x \in magic /\ x # b
        <4>1. x + size'[x] + 1 = End(x) /\ End(x) \in Int /\ x \in Int
          BY <1>3, <1>8, <3>5 DEF End
        <4>2. CASE c \in magic
          BY <3>1, <3>5, <4>1, <4>2
        <4>3. CASE c = new
          <5>1. b <= x \/ b >= End(x)
            BY <1>2, <3>1, <3>5
          <5>2. x <= b \/ x > new
            BY <1>4, <3>5
          <5> QED
            BY <1>4, <3>2, <3>5, <4>1, <4>3, <5>1, <5>2
        <4> QED
          BY <1>1, <4>2, <4>3
      <3> QED
        BY <1>1, <3>3, <3>4, <3>5
    <2>4. 0 \in magic'
      BY <1>1 DEF IInv, Tiles
    <2> QED
      BY <2>2, <2>3, <2>4 DEF Tiles, End
  <1>12. Walking'
    BY <1>1 DEF Walking, Return
  <1>13. Enough'
    <2>1. \A x \in used : x \in magic /\ x # b
      BY <1>2 DEF IInv, TypeOK
    <2> QED
      BY <1>1, <1>2, <1>8, <2>1 DEF Enough, IInv, TypeOK
  <1> QED
    BY <1>9, <1>10, <1>11, <1>12, <1>13 DEF IInv

-----------------------------------------------------------------------------
\* Every step keeps the invariant.
LEMMA NextIInv == IInv /\ [Next]_vars => IInv'
  <1> SUFFICES ASSUME IInv, [Next]_vars PROVE IInv'
    OBVIOUS
  <1>1. CASE UNCHANGED vars
    <2>1. UNCHANGED <<headers, list, asked, call, arg, cursor, before>>
      BY <1>1 DEF vars
    <2>2. Freed' = Freed
      BY <2>1 DEF Freed, headers
    <2>3. Tiles' /\ Linked'
      BY <2>1, <2>2, HeadersKept, ListKept DEF headers
    <2>4. TypeOK' /\ Enough'
      BY <2>1 DEF IInv, TypeOK, Enough, headers, list
    <2>5. Walking'
      BY <2>1, <2>2 DEF IInv, Walking, First, Follows, Fits, headers
    <2> QED
      BY <2>3, <2>4, <2>5 DEF IInv
  <1>2. CASE (\E n \in Requests : malloc(n)) \/ tidyHeap
    BY <1>2, WalkStart
  <1>3. CASE MallocSearch \/ TidyStep \/ FreeSearch
    BY <1>3, WalkStep
  <1>4. CASE OutOfMemory \/ TidyDone
    BY <1>4, CallEnds
  <1>5. CASE \E b \in Addr : free(b)
    BY <1>5, FreeStarts
  <1>6. CASE FreeLink
    BY <1>6, FreeEnds
  <1>7. CASE TidyJoin
    BY <1>7, JoinStep
  <1>8. CASE \E b \in Addr : Split(b) \/ Whole(b)
    BY <1>8, SplitStep, WholeStep
  <1> QED
    BY <1>1, <1>2, <1>3, <1>4, <1>5, <1>6, <1>7, <1>8 DEF Next, Malloc, Free, Tidy

\* The invariant holds throughout.
LEMMA Inductive == Spec => []IInv
  BY InitIInv, NextIInv, PTL DEF Spec

\* Headers, links and walks keep their types, whatever is asked of the heap.
THEOREM TypeCorrect == Spec => []TypeOK
  <1>1. IInv => TypeOK
    BY DEF IInv
  <1> QED
    BY <1>1, Inductive, PTL

\* The blocks cover the heap from end to end and walkHeap() meets every one.
THEOREM Tiling == Spec => []HeapTiles
  <1>1. IInv => HeapTiles
    <2> SUFFICES ASSUME IInv PROVE HeapTiles
      OBVIOUS
    <2>1. \A b \in magic : End(b) \in Int
      BY DEF IInv, TypeOK, Addr, End
    <2>2. \A b \in magic : walkHeap(b) = NULL <=> b \in last
      BY <2>1, HeapAssumption DEF walkHeap
    <2> QED
      BY <2>2 DEF IInv, Tiles, HeapTiles
  <1> QED
    BY <1>1, Inductive, PTL

\* The free list holds every free block, in order, both ways.
THEOREM FreeListOrdered == Spec => []FreeListSound
  <1>1. IInv => FreeListSound
    BY DEF IInv, Linked, Ordered, FreeListSound, walkFree, Freed
  <1> QED
    BY <1>1, Inductive, PTL

\* No two holders share memory, and each has the bytes asked for.
THEOREM Apart == Spec => []HeldApart
  <1>1. IInv => HeldApart
    <2> SUFFICES ASSUME IInv, NEW b \in used
                 PROVE  /\ 16 * size[b] >= asked[b]
                        /\ \A c \in used : c = b \/ End(b) <= c \/ End(c) <= b
      BY DEF HeldApart
    <2>1. 16 * size[b] >= asked[b]
      BY DEF IInv, Enough
    <2>2. ASSUME NEW c \in used PROVE c = b \/ End(b) <= c \/ End(c) <= b
      <3>1. b \in Int /\ c \in Int /\ b \in magic /\ c \in magic /\ End(b) \in Int /\ End(c) \in Int
        BY DEF IInv, TypeOK, Addr, End
      <3>2. (c <= b \/ c >= End(b)) /\ (b <= c \/ b >= End(c))
        BY <3>1 DEF IInv, Tiles
      <3> QED
        BY <3>1, <3>2
    <2> QED
      BY <2>1, <2>2
  <1> QED
    BY <1>1, Inductive, PTL

\* The heap is tiled by blocks, and those in use are apart and as large as asked.
THEOREM Blocks == Spec => []BlocksSound
  BY Tiling, Apart, PTL DEF BlocksSound

\* malloc() ends with the lowest block that fits, or because none does.
LEMMA FirstFitStep ==
    ASSUME IInv, [Next]_vars, call = "malloc", call' = "none"
    PROVE  LET fitting == {b \in Freed : Fits(b)}
           IN  IF used' = used THEN fitting = {}
               ELSE \E b \in fitting : used' = used \cup {b} /\ \A c \in fitting : b <= c
  <1>1. OutOfMemory \/ \E b \in Addr : Taken(b)
    BY DEF Next, Malloc, Free, Tidy, vars, malloc, free, tidyHeap, MallocSearch, Split, Whole,
       FreeSearch, FreeLink, TidyJoin, TidyStep, TidyDone
  <1>2. CASE OutOfMemory
    BY <1>2 DEF OutOfMemory, headers, IInv, Walking
  <1>3. ASSUME NEW b \in Addr, Taken(b)
        PROVE  /\ used' # used /\ used' = used \cup {b}
               /\ b \in Freed /\ Fits(b) /\ \A c \in Freed : Fits(c) => b <= c
    <2>1. b \in Freed /\ b \notin used /\ b = cursor /\ Fits(b) /\ used' = used \cup {b}
      BY <1>3, TakenBlock DEF Taken
    <2>2. b # NULL /\ b \in Int /\ Freed \subseteq Int
      BY <2>1, HeapAssumption, FreedBlocks DEF IInv
    <2>3. \A c \in Freed : c < b => ~Fits(c)
      BY <2>1 DEF IInv, Walking
    <2> QED
      BY <2>1, <2>2, <2>3
  <1> QED
    BY <1>1, <1>2, <1>3

\* malloc() takes the lowest block that fits, and fails only if none does.
THEOREM MallocFirstFit == Spec => FirstFit
  <1>1. IInv /\ [Next]_vars =>
          [call = "malloc" /\ call' = "none" =>
             LET fitting == {b \in Freed : Fits(b)}
             IN  IF used' = used THEN fitting = {}
                 ELSE \E b \in fitting : used' = used \cup {b} /\ \A c \in fitting : b <= c]_vars
    BY FirstFitStep
  <1> QED
    BY <1>1, Inductive, PTL DEF Spec, FirstFit
=============================================================================
