---------------------------- MODULE SystemProofs ----------------------------
(***************************************************************************)
(* Proofs about System that need libraries and drivers at once: who sleeps *)
(* and what wakes them, and that what is in the buffers is taken once, by  *)
(* a task that does not sleep on.                                          *)
(***************************************************************************)
EXTENDS LibraryProofs

-----------------------------------------------------------------------------
(* The buffers of the pool.                                                *)

\* L is the list of the k buffers that are there, each of them once, in pool p of n
FreeList(p, n, k, L) ==
    /\ p \in Pools(n) /\ p.free = k
    /\ L \in [1 .. k -> 1 .. n] /\ \A i, j \in 1 .. k : L[i] = L[j] => i = j
    /\ k = 0 => p.tail = NULL
    /\ k > 0 => p.head = L[1] /\ p.tail = L[k]
    /\ \A i \in 1 .. k : i < k => p.next[L[i]] = L[i + 1]

\* Those that a task holds are none of them, and no other task's
HeldBeside(H, n, k, L) ==
    /\ H \in [Tasks -> SUBSET (1 .. n)]
    /\ \A t, u \in Tasks : t # u => H[t] \cap H[u] = {}
    /\ \A t \in Tasks, i \in 1 .. k : L[i] \notin H[t]

\* There is no pool, or its buffers are in its list or held, each of them once
PoolInv ==
    \/ pool = NULL /\ held = [t \in Tasks |-> {}]
    \/ \E n \in PoolSizes : \E k \in Nat : \E L : FreeList(pool, n, k, L) /\ HeldBeside(held, n, k, L)

\* What getBuffer() and putBuffer() do to the pool
Given(p) == [p EXCEPT !.free = @ - 1, !.tail = IF p.free = 1 THEN NULL ELSE @,
                      !.head = IF @ \in DOMAIN p.next THEN p.next[@] ELSE NULL]
Back(p, b) == IF p.tail = NULL THEN [p EXCEPT !.free = @ + 1, !.tail = b, !.head = b]
              ELSE [p EXCEPT !.free = @ + 1, !.tail = b, !.next[p.tail] = b]

\* Field by field.
LEMMA PoolIs ==
    ASSUME NEW n, NEW f \in Nat, NEW h \in Nat \cup {NULL}, NEW x \in Nat \cup {NULL}, NEW nx \in [1 .. n -> Nat], NEW q,
           q = [free |-> f, head |-> h, tail |-> x, next |-> nx]
    PROVE  q \in Pools(n) /\ q.free = f /\ q.head = h /\ q.tail = x /\ q.next = nx
  BY DEF Pools

\* A pool is its fields.
LEMMA PoolParts ==
    ASSUME NEW n, NEW p \in Pools(n)
    PROVE  /\ p.free \in Nat /\ p.head \in Nat \cup {NULL} /\ p.tail \in Nat \cup {NULL} /\ p.next \in [1 .. n -> Nat]
           /\ p = [free |-> p.free, head |-> p.head, tail |-> p.tail, next |-> p.next]
  BY DEF Pools

\* What getBuffer() leaves in the fields, ...
LEMMA GivenIs ==
    ASSUME NEW n \in Nat, NEW p \in Pools(n), p.free > 0, p.head \in 1 .. n
    PROVE  /\ Given(p) \in Pools(n) /\ Given(p).free = p.free - 1 /\ Given(p).head = p.next[p.head]
           /\ Given(p).tail = (IF p.free = 1 THEN NULL ELSE p.tail) /\ Given(p).next = p.next
  <1>1. p.free \in Nat /\ p.tail \in Nat \cup {NULL} /\ p.next \in [1 .. n -> Nat]
        /\ p = [free |-> p.free, head |-> p.head, tail |-> p.tail, next |-> p.next]
    BY PoolParts
  <1>2. PICK x \in Nat \cup {NULL} : x = IF p.free = 1 THEN NULL ELSE p.tail
    BY <1>1
  <1>3. PICK f \in Nat : f = p.free - 1
    BY <1>1
  <1>4. PICK h \in Nat : h = p.next[p.head]
    BY <1>1
  <1>5. PICK nx \in [1 .. n -> Nat] : nx = p.next
    BY <1>1
  <1>6. Given(p) = [p EXCEPT !.free = f, !.tail = x, !.head = h]
    BY <1>1, <1>2, <1>3, <1>4 DEF Given
  <1>7. Given(p) = [free |-> f, head |-> h, tail |-> x, next |-> nx]
    BY <1>1, <1>5, <1>6
  <1>8. PICK q : q = Given(p)
    OBVIOUS
  <1>9. q \in Pools(n) /\ q.free = f /\ q.head = h /\ q.tail = x /\ q.next = nx
    BY <1>7, <1>8, PoolIs
  <1> QED
    BY <1>2, <1>3, <1>4, <1>5, <1>8, <1>9

\* ... and putBuffer().
LEMMA BackIs ==
    ASSUME NEW n \in Nat, NEW p \in Pools(n), NEW b \in Nat
    PROVE  /\ Back(p, b) \in Pools(n) /\ Back(p, b).free = p.free + 1 /\ Back(p, b).tail = b
           /\ p.tail = NULL => Back(p, b).head = b /\ Back(p, b).next = p.next
           /\ p.tail # NULL => Back(p, b).head = p.head /\ Back(p, b).next = [p.next EXCEPT ![p.tail] = b]
  <1>1. p.free \in Nat /\ p.head \in Nat \cup {NULL} /\ p.next \in [1 .. n -> Nat]
        /\ p = [free |-> p.free, head |-> p.head, tail |-> p.tail, next |-> p.next]
    BY PoolParts
  <1>2. PICK f \in Nat : f = p.free + 1
    BY <1>1
  <1>3. PICK q : q = Back(p, b)
    OBVIOUS
  <1>4. CASE p.tail = NULL
    <2>1. q = [p EXCEPT !.free = f, !.tail = b, !.head = b]
      BY <1>2, <1>3, <1>4 DEF Back
    <2>2. PICK nx \in [1 .. n -> Nat] : nx = p.next
      BY <1>1
    <2>3. q = [free |-> f, head |-> b, tail |-> b, next |-> nx]
      BY <1>1, <2>1, <2>2
    <2>4. q \in Pools(n) /\ q.free = f /\ q.head = b /\ q.tail = b /\ q.next = nx
      BY <2>3, PoolIs
    <2> QED
      BY <1>2, <1>3, <1>4, <2>2, <2>4
  <1>5. CASE p.tail # NULL
    <2>1. PICK x : x = p.tail
      OBVIOUS
    <2>2. PICK nx \in [1 .. n -> Nat] : nx = [p.next EXCEPT ![x] = b]
      BY <1>1
    <2>3. PICK h \in Nat \cup {NULL} : h = p.head
      BY <1>1
    <2>4. q = [p EXCEPT !.free = f, !.tail = b, !.next[x] = b]
      BY <1>2, <1>3, <1>5, <2>1 DEF Back
    <2>5. q = [free |-> f, head |-> h, tail |-> b, next |-> nx]
      BY <1>1, <2>2, <2>3, <2>4
    <2>6. q \in Pools(n) /\ q.free = f /\ q.head = h /\ q.tail = b /\ q.next = nx
      BY <2>5, PoolIs
    <2> QED
      BY <1>2, <1>3, <1>5, <2>1, <2>2, <2>3, <2>6
  <1> QED
    BY <1>4, <1>5

\* The first of the list is given out, ...
LEMMA BufferGiven ==
    ASSUME NEW p, NEW n \in PoolSizes, NEW k \in Nat, NEW L, FreeList(p, n, k, L), k # 0
    PROVE  FreeList(Given(p), n, k - 1, [i \in 1 .. k - 1 |-> L[i + 1]])
  <1>1. n \in Nat /\ p \in Pools(n) /\ p.free = k /\ k > 0
    BY PoolAssumption DEF FreeList
  <1>2. /\ L \in [1 .. k -> 1 .. n] /\ p.head = L[1] /\ p.tail = L[k] /\ p.head \in 1 .. n
        /\ (\A i, j \in 1 .. k : L[i] = L[j] => i = j)
        /\ (\A i \in 1 .. k : i < k => p.next[L[i]] = L[i + 1])
    BY <1>1 DEF FreeList
  <1>3. PICK q : q = Given(p)
    OBVIOUS
  <1>4. /\ q \in Pools(n) /\ q.free = k - 1 /\ q.head = p.next[p.head] /\ q.next = p.next
        /\ q.tail = IF k = 1 THEN NULL ELSE p.tail
    BY <1>1, <1>2, <1>3, GivenIs
  <1>5. PICK M : M = [i \in 1 .. k - 1 |-> L[i + 1]]
    OBVIOUS
  <1>6. \A i \in 1 .. k - 1 : i + 1 \in 1 .. k /\ M[i] = L[i + 1] /\ M[i] \in 1 .. n
    BY <1>1, <1>2, <1>5
  <1>7. M \in [1 .. k - 1 -> 1 .. n] /\ \A i, j \in 1 .. k - 1 : M[i] = M[j] => i = j
    <2>1. ASSUME NEW i \in 1 .. k - 1, NEW j \in 1 .. k - 1, M[i] = M[j] PROVE i = j
      <3>1. i + 1 = j + 1
        BY <1>2, <1>6, <2>1
      <3> QED
        BY <3>1
    <2> QED
      BY <1>5, <1>6, <2>1
  <1>8. k - 1 = 0 => q.tail = NULL
    BY <1>1, <1>4
  <1>9. k - 1 > 0 => q.head = M[1] /\ q.tail = M[k - 1]
    <2>1. ASSUME k - 1 > 0 PROVE q.head = M[1] /\ q.tail = M[k - 1]
      <3>1. 1 \in 1 .. k - 1 /\ k - 1 \in 1 .. k - 1 /\ 1 \in 1 .. k /\ 1 < k /\ k # 1 /\ (k - 1) + 1 = k
        BY <1>1, <2>1
      <3>2. M[1] = L[1 + 1] /\ M[k - 1] = L[k] /\ p.next[L[1]] = L[1 + 1]
        BY <1>2, <1>6, <3>1
      <3> QED
        BY <1>2, <1>4, <3>1, <3>2
    <2> QED
      BY <2>1
  <1>10. \A i \in 1 .. k - 1 : i < k - 1 => q.next[M[i]] = M[i + 1]
    <2>1. ASSUME NEW i \in 1 .. k - 1, i < k - 1 PROVE q.next[M[i]] = M[i + 1]
      <3>1. i + 1 \in 1 .. k - 1 /\ i + 1 < k /\ i + 1 \in 1 .. k
        BY <1>1, <2>1
      <3> QED
        BY <1>2, <1>4, <1>6, <3>1
    <2> QED
      BY <2>1
  <1>11. FreeList(q, n, k - 1, M)
    BY <1>4, <1>7, <1>8, <1>9, <1>10 DEF FreeList
  <1> QED
    BY <1>3, <1>5, <1>11

\* ...and one is taken back behind the last.
LEMMA BufferBack ==
    ASSUME NEW p, NEW n \in PoolSizes, NEW k \in Nat, NEW L, FreeList(p, n, k, L), NEW b \in 1 .. n,
           \A i \in 1 .. k : L[i] # b
    PROVE  FreeList(Back(p, b), n, k + 1, [i \in 1 .. k + 1 |-> IF i = k + 1 THEN b ELSE L[i]])
  <1>1. n \in Nat /\ p \in Pools(n) /\ p.free = k /\ b \in Nat /\ p.next \in [1 .. n -> Nat] /\ NULL \notin Nat
    BY PoolAssumption, PoolParts DEF FreeList
  <1>2. /\ L \in [1 .. k -> 1 .. n] /\ (\A i, j \in 1 .. k : L[i] = L[j] => i = j)
        /\ (\A i \in 1 .. k : i < k => p.next[L[i]] = L[i + 1])
        /\ (k = 0 => p.tail = NULL) /\ (k > 0 => p.head = L[1] /\ p.tail = L[k])
    BY DEF FreeList
  <1>3. PICK q : q = Back(p, b)
    OBVIOUS
  <1>4. /\ q \in Pools(n) /\ q.free = k + 1 /\ q.tail = b
        /\ p.tail = NULL => q.head = b /\ q.next = p.next
        /\ p.tail # NULL => q.head = p.head /\ q.next = [p.next EXCEPT ![p.tail] = b]
    BY <1>1, <1>3, BackIs
  <1>5. PICK M : M = [i \in 1 .. k + 1 |-> IF i = k + 1 THEN b ELSE L[i]]
    OBVIOUS
  <1>6. M[k + 1] = b /\ \A i \in 1 .. k : i \in 1 .. k + 1 /\ M[i] = L[i] /\ L[i] \in 1 .. n /\ i # k + 1
    BY <1>2, <1>5, SMTT(30)
  <1>7. \A i \in 1 .. k + 1 : i = k + 1 \/ i \in 1 .. k
    OBVIOUS
  <1>8. M \in [1 .. k + 1 -> 1 .. n] /\ \A i, j \in 1 .. k + 1 : M[i] = M[j] => i = j
    <2>1. \A i \in 1 .. k + 1 : M[i] \in 1 .. n
      BY <1>6, <1>7
    <2>2. ASSUME NEW i \in 1 .. k + 1, NEW j \in 1 .. k + 1, M[i] = M[j] PROVE i = j
      BY <1>2, <1>6, <1>7, <2>2
    <2> QED
      BY <1>5, <2>1, <2>2
  <1>9. q.head = M[1]
    <2>1. CASE k = 0
      BY <1>2, <1>4, <1>6, <2>1
    <2>2. CASE k # 0
      <3>1. 1 \in 1 .. k /\ k \in 1 .. k /\ k > 0
        BY <2>2
      <3>2. p.tail # NULL
        BY <1>1, <1>2, <1>6, <3>1
      <3> QED
        BY <1>2, <1>4, <1>6, <3>1, <3>2
    <2> QED
      BY <2>1, <2>2
  <1>10. ASSUME NEW i \in 1 .. k + 1, i < k + 1 PROVE q.next[M[i]] = M[i + 1]
    <2>1. i \in 1 .. k /\ k \in 1 .. k /\ k > 0 /\ M[i] = L[i] /\ L[i] \in 1 .. n /\ L[k] \in 1 .. n
      BY <1>6, <1>7, <1>10
    <2>2. p.tail = L[k] /\ p.tail # NULL
      BY <1>1, <1>2, <2>1
    <2>3. PICK x : x = L[k]
      OBVIOUS
    <2>4. q.next = [p.next EXCEPT ![x] = b] /\ x \in 1 .. n
      BY <1>4, <2>1, <2>2, <2>3
    <2>5. q.next[x] = b /\ \A j \in 1 .. n : j # x => q.next[j] = p.next[j]
      BY <1>1, <2>4
    <2>6. CASE i = k
      BY <1>6, <2>1, <2>3, <2>5, <2>6
    <2>7. CASE i # k
      <3>1. i < k /\ i + 1 \in 1 .. k
        BY <2>1, <2>7
      <3>2. L[i] # x
        BY <1>2, <2>1, <2>3, <2>7
      <3>3. M[i + 1] = L[i + 1] /\ p.next[L[i]] = L[i + 1]
        BY <1>2, <1>6, <2>1, <3>1
      <3>4. q.next[L[i]] = p.next[L[i]]
        BY <2>1, <2>5, <3>2
      <3> QED
        BY <2>1, <3>3, <3>4
    <2> QED
      BY <2>6, <2>7
  <1>11. FreeList(q, n, k + 1, M)
    BY <1>4, <1>6, <1>8, <1>9, <1>10 DEF FreeList
  <1> QED
    BY <1>3, <1>5, <1>11

\* All steps of the pool.
LEMMA PoolKept ==
    ASSUME PoolInv, NEW t \in Tasks, PoolStep(t)
    PROVE  PoolInv'
  <1>1. CASE deleteBufPool(t)
    <2>1. pool' = NULL /\ held' = held /\ \A u \in Tasks : held[u] = {}
      BY <1>1 DEF deleteBufPool
    <2>2. \E S : held \in [Tasks -> S]
      BY DEF PoolInv, HeldBeside
    <2>3. held = [u \in Tasks |-> {}]
      BY <2>1, <2>2
    <2> QED
      BY <2>1, <2>3 DEF PoolInv
  <1>2. CASE \E n \in PoolSizes : createBufPool(t, n)
    <2>1. PICK n \in PoolSizes : createBufPool(t, n)
      BY <1>2
    <2>2. held' = held /\ held = [u \in Tasks |-> {}]
      <3>1. ASSUME NEW m \in PoolSizes, NEW k \in Nat, NEW L, FreeList(pool, m, k, L) PROVE pool # NULL
        BY <3>1, PoolAssumption DEF FreeList
      <3> QED
        BY <2>1, <3>1 DEF createBufPool, PoolInv
    <2>3. CASE n = 0
      BY <2>1, <2>2, <2>3 DEF createBufPool, PoolInv
    <2>4. CASE n # 0
      <3>1. PICK L : L = [i \in 1 .. n |-> i]
        OBVIOUS
      <3>2. PICK q : q = [free |-> n, head |-> 1, tail |-> n, next |-> [i \in 1 .. n |-> i + 1]]
        OBVIOUS
      <3>3. n \in Nat /\ n > 0
        BY <2>4, PoolAssumption
      <3>4. q \in Pools(n)
        BY <3>2, <3>3 DEF Pools
      <3>5. FreeList(q, n, n, L)
        BY <3>1, <3>2, <3>3, <3>4 DEF FreeList
      <3>6. HeldBeside(held, n, n, L)
        BY <2>2, <3>1, <3>3 DEF HeldBeside
      <3>7. pool' = q
        BY <2>1, <2>4, <3>2 DEF createBufPool
      <3> QED
        BY <2>2, <3>3, <3>5, <3>6, <3>7 DEF PoolInv
    <2> QED
      BY <2>3, <2>4
  <1>3. CASE getBuffer(t) \/ \E u \in Tasks : \E b \in held[u] : putBuffer(t, u, b)
    <2>1. pool # NULL
      BY <1>3, Zenon DEF getBuffer, putBuffer
    <2>2. PICK n \in PoolSizes : \E k \in Nat : \E L : FreeList(pool, n, k, L) /\ HeldBeside(held, n, k, L)
      BY <2>1 DEF PoolInv
    <2>3. PICK k \in Nat : \E L : FreeList(pool, n, k, L) /\ HeldBeside(held, n, k, L)
      BY <2>2
    <2>4. PICK L : FreeList(pool, n, k, L) /\ HeldBeside(held, n, k, L)
      BY <2>3
    <2>5. PICK p : p = pool
      OBVIOUS
    <2>6. p \in Pools(n) /\ p.free = k /\ n \in Nat
      BY <2>4, <2>5, PoolAssumption DEF FreeList
    <2>7. CASE getBuffer(t) /\ k = 0
      <3>1. pool' = pool /\ held' = held
        BY <2>5, <2>6, <2>7 DEF getBuffer, poolVars
      <3> QED
        BY <2>4, <3>1 DEF PoolInv
    <2>8. CASE getBuffer(t) /\ k # 0
      <3>1. PICK M : M = [i \in 1 .. k - 1 |-> L[i + 1]]
        OBVIOUS
      <3>2. /\ held' = [held EXCEPT ![t] = @ \cup {p.head}]
            /\ pool' = Given(p)
        BY <2>5, <2>6, <2>8 DEF getBuffer, Given
      <3>3. FreeList(pool', n, k - 1, M)
        BY <2>4, <2>5, <2>8, <3>1, <3>2, BufferGiven
      <3>4. p.head = L[1] /\ L[1] \in 1 .. n /\ 1 \in 1 .. k /\ \A i \in 1 .. k - 1 : M[i] = L[i + 1] /\ i + 1 \in 1 .. k /\ L[i + 1] # L[1]
        BY <2>4, <2>5, <2>8, <3>1 DEF FreeList
      <3>5. \A u \in Tasks : held[u] \in SUBSET (1 .. n) /\ L[1] \notin held[u] /\ held'[u] = IF u = t THEN held[u] \cup {L[1]} ELSE held[u]
        BY <2>4, <3>2, <3>4 DEF HeldBeside
      <3>6. held' \in [Tasks -> SUBSET (1 .. n)]
        BY <2>4, <3>2, <3>4 DEF HeldBeside
      <3>7. HeldBeside(held', n, k - 1, M)
        BY <2>4, <3>4, <3>5, <3>6 DEF HeldBeside
      <3>8. k - 1 \in Nat
        BY <2>8
      <3> QED
        BY <3>3, <3>7, <3>8 DEF PoolInv
    <2>9. CASE \E u \in Tasks : \E b \in held[u] : putBuffer(t, u, b)
      <3>1. PICK u \in Tasks : \E b \in held[u] : putBuffer(t, u, b)
        BY <2>9
      <3>2. PICK b \in held[u] : putBuffer(t, u, b)
        BY <3>1
      <3>3. b \in 1 .. n /\ \A i \in 1 .. k : L[i] # b
        BY <2>4, <3>2 DEF HeldBeside
      <3>4. PICK M : M = [i \in 1 .. k + 1 |-> IF i = k + 1 THEN b ELSE L[i]]
        OBVIOUS
      <3>5. /\ held' = [held EXCEPT ![u] = @ \ {b}]
            /\ pool' = Back(p, b)
        BY <2>5, <3>2 DEF putBuffer, Back
      <3>6. FreeList(pool', n, k + 1, M)
        BY <2>4, <2>5, <3>3, <3>4, <3>5, BufferBack
      <3>7. \A i \in 1 .. k + 1 : M[i] = b \/ (i \in 1 .. k /\ M[i] = L[i])
        BY <3>4
      <3>8. \A v \in Tasks : held[v] \in SUBSET (1 .. n) /\ held'[v] = (IF v = u THEN held[v] \ {b} ELSE held[v]) /\ b \notin held'[v]
        BY <2>4, <3>2, <3>5 DEF HeldBeside
      <3>9. held' \in [Tasks -> SUBSET (1 .. n)]
        BY <2>4, <3>5 DEF HeldBeside
      <3>10. HeldBeside(held', n, k + 1, M)
        BY <2>4, <3>7, <3>8, <3>9 DEF HeldBeside
      <3> QED
        BY <3>6, <3>10 DEF PoolInv
    <2> QED
      BY <1>3, <2>7, <2>8, <2>9
  <1> QED
    BY <1>1, <1>2, <1>3 DEF PoolStep

-----------------------------------------------------------------------------
(* The packets of the mouse.                                               *)

\* What a Microsoft mouse can tell in six bits
MicrosoftMoves == [x : -32 .. 31, y : -32 .. 31, buttons : SUBSET {"L", "R"}]

\* The bytes of a packet, one by one.
LEMMA PacketBytes ==
    ASSUME MouseType = "MICROSOFT", NEW m \in MicrosoftMoves
    PROVE  /\ packet(m)[1] = 192 + (IF "L" \in m.buttons THEN 32 ELSE 0) + (IF "R" \in m.buttons THEN 16 ELSE 0)
                               + 4 * ((m.y % 256) \div 64) + ((m.x % 256) \div 64)
           /\ packet(m)[2] = 128 + (m.x % 64) /\ packet(m)[3] = 128 + (m.y % 64)
  BY DEF packet

\* A movement in six bits is what its byte says.
LEMMA DeltaDecoded == ASSUME NEW d \in -32 .. 31 PROVE delta6(128 + (d % 64)) = d
  <1>1. CASE d >= 0
    BY <1>1 DEF delta6, bit, signed
  <1>2. CASE d < 0
    BY <1>2 DEF delta6, bit, signed
  <1> QED
    BY <1>1, <1>2

\* The buttons are two bits of the first byte.
LEMMA ButtonsDecoded ==
    ASSUME NEW l \in {0, 32}, NEW r \in {0, 16}, NEW h \in 0 .. 15
    PROVE  (bit(192 + l + r + h, 32) <=> l = 32) /\ (bit(192 + l + r + h, 16) <=> r = 16)
  BY DEF bit

\* A packet that is whole says how the mouse moved.
LEMMA PacketDecoded ==
    ASSUME MouseType = "MICROSOFT", NEW m \in MicrosoftMoves
    PROVE  decode(packet(m)) = m
  <1>1. m.x \in -32 .. 31 /\ m.y \in -32 .. 31 /\ m.buttons \subseteq {"L", "R"}
        /\ m = [x |-> m.x, y |-> m.y, buttons |-> m.buttons]
    BY DEF MicrosoftMoves
  <1>2. delta6(packet(m)[2]) = m.x /\ delta6(packet(m)[3]) = m.y
    <2>1. packet(m)[2] = 128 + (m.x % 64) /\ packet(m)[3] = 128 + (m.y % 64)
      BY PacketBytes
    <2>2. delta6(128 + (m.x % 64)) = m.x /\ delta6(128 + (m.y % 64)) = m.y
      BY <1>1, DeltaDecoded
    <2> QED
      BY <2>1, <2>2
  <1>3. PICK h \in 0 .. 15 : h = 4 * ((m.y % 256) \div 64) + ((m.x % 256) \div 64)
    <2>1. (m.y % 256) \div 64 \in 0 .. 3 /\ (m.x % 256) \div 64 \in 0 .. 3
      BY <1>1
    <2> QED
      BY <2>1
  <1>4. PICK l \in {0, 32} : l = IF "L" \in m.buttons THEN 32 ELSE 0
    OBVIOUS
  <1>5. PICK r \in {0, 16} : r = IF "R" \in m.buttons THEN 16 ELSE 0
    OBVIOUS
  <1>6. packet(m)[1] = 192 + l + r + h
    <2>1. (m.y % 256) \div 64 \in 0 .. 3 /\ (m.x % 256) \div 64 \in 0 .. 3
      BY <1>1
    <2> QED
      BY <1>3, <1>4, <1>5, <2>1, PacketBytes
  <1>7. (bit(packet(m)[1], 32) <=> l = 32) /\ (bit(packet(m)[1], 16) <=> r = 16)
    BY <1>6, ButtonsDecoded
  <1>8. (bit(packet(m)[1], 32) <=> "L" \in m.buttons) /\ (bit(packet(m)[1], 16) <=> "R" \in m.buttons)
    BY <1>4, <1>5, <1>7
  <1>9. decodeMicrosoft(packet(m)).buttons = m.buttons
    BY <1>1, <1>8 DEF decodeMicrosoft
  <1> QED
    BY <1>1, <1>2, <1>9 DEF decode, decodeMicrosoft

\* The first byte of a packet alone synchronizes.
LEMMA FirstSyncs ==
    ASSUME MouseType = "MICROSOFT", Movements \in Seq(MicrosoftMoves), NEW n \in 1 .. 3 * Len(Movements), syncs(valueOf(n))
    PROVE  n % 3 = 1
  <1>1. PICK k \in Int, r \in 0 .. 2 : k = (n - 1) \div 3 /\ r = (n - 1) % 3
    OBVIOUS
  <1>2. n - 1 = 3 * k + r /\ k + 1 \in 1 .. Len(Movements)
    BY <1>1
  <1>3. PICK m \in MicrosoftMoves : m = Movements[k + 1]
    BY <1>2
  <1>4. valueOf(n) = packet(m)[r + 1]
    BY <1>1, <1>3 DEF valueOf, dataSize
  <1>5. m.x \in -32 .. 31 /\ m.y \in -32 .. 31
    BY DEF MicrosoftMoves
  <1>6. packet(m)[2] \in 128 .. 191 /\ packet(m)[3] \in 128 .. 191
    <2>1. packet(m)[2] = 128 + (m.x % 64) /\ packet(m)[3] = 128 + (m.y % 64)
      BY PacketBytes
    <2>2. \A d \in -32 .. 31 : 128 + (d % 64) \in 128 .. 191
      OBVIOUS
    <2> QED
      BY <1>5, <2>1, <2>2
  <1>7. r = 0
    <2>1. ~syncs(packet(m)[2]) /\ ~syncs(packet(m)[3])
      <3>1. \A v \in 128 .. 191 : ~(v >= 192)
        OBVIOUS
      <3> QED
        BY <1>6, <3>1 DEF syncs
    <2>2. r = 1 => valueOf(n) = packet(m)[2]
      BY <1>4
    <2>3. r = 2 => valueOf(n) = packet(m)[3]
      BY <1>4
    <2> QED
      BY <2>1, <2>2, <2>3
  <1> QED
    BY <1>1, <1>2, <1>7

\* A packet begins with its first byte, and after a wrong one it goes on without a gap
PacketsInv ==
    /\ mseData \in Seq(Nat) /\ Len(mseData) < 3 /\ lastByte \in Nat /\ spoilt \in {0, 1}
    /\ mseData # <<>> => mseData[1] % 3 = 1
    /\ spoilt = 1 => \A i \in 1 .. Len(mseData) : mseData[i] = lastByte - Len(mseData) + i

\* The next byte of a packet, or one that is left out.
LEMMA PacketsGoOn ==
    ASSUME MouseType = "MICROSOFT", Movements \in Seq(MicrosoftMoves), MaxBytes <= 3 * Len(Movements),
           PacketsInv, mouseReaderByte, call[MouseTask].got = 1 => taken[MousePort] \in 1 .. MaxBytes
    PROVE  PacketsInv'
  <1>1. MaxBytes \in Nat /\ dataSize = 3
    BY RingAssumption DEF dataSize
  <1>2. CASE UNCHANGED <<mseData, spoilt, lastByte>>
    BY <1>2 DEF PacketsInv
  <1>3. CASE call[MouseTask].got = 1
    <2>1. PICK n \in 1 .. 3 * Len(Movements) : n = taken[MousePort]
      BY <1>1, <1>3
    <2>2. PICK s \in {0, 1} : s = IF n # lastByte + 1 THEN 0 ELSE spoilt
      BY DEF PacketsInv
    <2>3. s = 1 => spoilt = 1 /\ n = lastByte + 1
      BY <2>2
    <2>4. PICK data : data = Append(mseData, n)
      OBVIOUS
    <2>5. /\ data \in Seq(Nat) /\ Len(data) = Len(mseData) + 1 /\ data[Len(data)] = n
          /\ \A i \in 1 .. Len(mseData) : data[i] = mseData[i]
      BY <2>4 DEF PacketsInv
    <2>6. accepts(n) => data[1] % 3 = 1
      <3>1. CASE mseData = <<>>
        <4>1. data[1] = n
          BY <2>5, <3>1
        <4>2. accepts(n) => n % 3 = 1
          BY <3>1, FirstSyncs DEF accepts
        <4> QED
          BY <4>1, <4>2
      <3>2. CASE mseData # <<>>
        <4>1. data[1] = mseData[1]
          BY <2>5, <3>2 DEF PacketsInv
        <4> QED
          BY <3>2, <4>1 DEF PacketsInv
      <3> QED
        BY <3>1, <3>2
    <2>7. s = 1 => \A i \in 1 .. Len(data) : data[i] = n - Len(data) + i
      <3> SUFFICES ASSUME s = 1, NEW i \in 1 .. Len(data) PROVE data[i] = n - Len(data) + i
        OBVIOUS
      <3>1. PICK k \in Nat : k = Len(mseData)
        BY DEF PacketsInv
      <3>2. Len(data) = k + 1 /\ data[k + 1] = n /\ n = lastByte + 1 /\ lastByte \in Nat
        BY <2>3, <2>5, <3>1 DEF PacketsInv
      <3>3. CASE i = k + 1
        BY <3>2, <3>3
      <3>4. CASE i # k + 1
        <4>1. i \in 1 .. k
          BY <3>2, <3>4
        <4>2. data[i] = lastByte - k + i
          BY <2>3, <2>5, <3>1, <4>1 DEF PacketsInv
        <4> QED
          BY <3>2, <4>2
      <3> QED
        BY <3>3, <3>4
    <2>8. CASE ~accepts(n) /\ lastByte' = n /\ spoilt' = s /\ mseData' = mseData
      <3>1. mseData = <<>>
        BY <2>8 DEF accepts
      <3> QED
        BY <2>8, <3>1 DEF PacketsInv
    <2>9. CASE accepts(n) /\ lastByte' = n /\ Len(data) < 3 /\ mseData' = data /\ spoilt' = s
      BY <2>5, <2>6, <2>7, <2>9, SMTT(30) DEF PacketsInv
    <2>10. CASE accepts(n) /\ lastByte' = n /\ ~(Len(data) < 3) /\ mseData' = <<>> /\ spoilt' = s + (IF Aligned(data) THEN 0 ELSE 1)
      <3>1. Len(data) = 3
        BY <2>5, <2>10 DEF PacketsInv
      <3>2. s = 1 => Aligned(data)
        <4> SUFFICES ASSUME s = 1 PROVE Aligned(data)
          OBVIOUS
        <4>1. data[1] = n - 2 /\ data[2] = n - 1 /\ data[3] = n
          BY <2>7, <3>1
        <4>2. data[1] % 3 = 1
          BY <2>6, <2>10
        <4> QED
          BY <1>1, <4>1, <4>2 DEF Aligned
      <3>3. spoilt' \in {0, 1}
        BY <2>10, <3>2
      <3> QED
        BY <2>10, <3>3 DEF PacketsInv
    <2>11. \/ ~accepts(n) /\ lastByte' = n /\ spoilt' = s /\ mseData' = mseData
           \/ accepts(n) /\ lastByte' = n /\ Len(data) < 3 /\ mseData' = data /\ spoilt' = s
           \/ accepts(n) /\ lastByte' = n /\ ~(Len(data) < 3) /\ mseData' = <<>> /\ spoilt' = s + (IF Aligned(data) THEN 0 ELSE 1)
      BY <1>1, <1>3, <2>1, <2>2, <2>4 DEF mouseReaderByte
    <2> QED
      BY <2>8, <2>9, <2>10, <2>11
  <1> QED
    BY <1>2, <1>3 DEF mouseReaderByte

-----------------------------------------------------------------------------
(* The sleepers: the ports.                                                *)

\* A call of a port goes on: the task may go to sleep, and is noted then.
LEMMA PortCalls ==
    ASSUME Ready, linked' = linked, SelectLines, Selecting, PortNotes, UNCHANGED <<mouseTab, readTask, mouseAt>>,
           NEW t \in Tasks, readTest(t) \/ readTake(t) \/ writeTest(t) \/ writeWoken(t) \/ writePut(t)
    PROVE  Within(SerialOps) /\ SelectLines' /\ Selecting' /\ PortNotes'
  <1>1. call[t].op \in SerialOps /\ t \notin asleep /\ asleep' \in {asleep, asleep \cup {t}}
    BY DEF readTest, readTake, writeTest, writeWoken, writePut, Runs, SerialOps
  <1>2. Within(SerialOps)
    BY <1>1, PortMoves DEF Within
  <1>3. "select" \notin SerialOps
    BY DEF SerialOps
  <1>4. UNCHANGED <<devices, selectVars>>
    BY DEF readTest, readTake, writeTest, writeWoken, writePut
  <1>5. Selecting' /\ SelectLines'
    BY <1>2, <1>3, <1>4, SelectKept, LinesKept
  <1>6. \A u \in Tasks \ {t} : call'[u] = call[u]
    BY DEF readTest, readTake, writeTest, writeWoken, writePut, Goto, Leave, Enter, Ready, CallsOK
  <1>7. ASSUME NEW p \in Ports, pendTask[p] # NULL
        PROVE  pendTask[p] # t /\ pendTask[p] \in asleep' /\ call'[pendTask[p]] = call[pendTask[p]]
    <2>1. pendTask[p] \in Tasks \cap asleep
      BY <1>7 DEF PortNotes
    <2> QED
      BY <1>1, <1>6, <2>1
  <1>8. ASSUME UNCHANGED pendVars PROVE PortNotes'
    BY <1>7, <1>8 DEF PortNotes, pendVars
  <1>9. ASSUME NEW q \in Ports, NEW why, NEW op, NEW at, why = "read" => op = "serialRead" /\ at = "take",
               why # "read" => op = "serialWrite" /\ at = "woken",
               call[t].op = op, call[t].port = q, Goto(t, at),
               pendTask' = [pendTask EXCEPT ![q] = t], pendWhy' = [pendWhy EXCEPT ![q] = why], asleep' = asleep \cup {t}
        PROVE  PortNotes'
    <2>1. call'[t].op = op /\ call'[t].port = q /\ call'[t].at = at
      <3>1. call'[t] = [call[t] EXCEPT !.at = at]
        BY <1>9 DEF Goto, Ready, CallsOK
      <3> QED
        BY <1>9, <3>1
    <2>2. op \in SerialOps
      BY <1>9 DEF SerialOps
    <2>3. ASSUME NEW p \in Ports \ {q}, pendTask'[p] # NULL
          PROVE  /\ pendTask'[p] \in Tasks \cap asleep' /\ call'[pendTask'[p]].op \in SerialOps
                 /\ call'[pendTask'[p]].port = p
                 /\ pendWhy'[p] = "read" => call'[pendTask'[p]].op = "serialRead" /\ call'[pendTask'[p]].at = "take"
                 /\ pendWhy'[p] # "read" => call'[pendTask'[p]].op = "serialWrite" /\ call'[pendTask'[p]].at = "woken"
      <3>1. pendTask'[p] = pendTask[p] /\ pendWhy'[p] = pendWhy[p]
        BY <1>9 DEF PortNotes
      <3> QED
        BY <1>7, <2>3, <3>1 DEF PortNotes
    <2>4. pendTask'[q] = t /\ pendWhy'[q] = why /\ DOMAIN pendTask' = Ports /\ DOMAIN pendWhy' = Ports
      BY <1>9 DEF PortNotes
    <2>5. t \in Tasks \cap asleep'
      BY <1>9
    <2> QED
      BY <1>9, <2>1, <2>2, <2>3, <2>4, <2>5 DEF PortNotes
  <1> QED
    <2>1. CASE readTake(t) \/ writeWoken(t) \/ writePut(t)
      BY <1>2, <1>5, <1>8, <2>1 DEF readTake, writeWoken, writePut
    <2>2. CASE readTest(t)
      <3>1. PICK q \in Ports : /\ call[t].op = "serialRead" /\ call[t].port = q
                               /\ \/ UNCHANGED pendVars
                                  \/ /\ pendTask' = [pendTask EXCEPT ![q] = t] /\ pendWhy' = [pendWhy EXCEPT ![q] = "read"]
                                     /\ asleep' = asleep \cup {t} /\ Goto(t, "take")
        BY <2>2 DEF readTest, Runs
      <3> QED
        BY <1>2, <1>5, <1>8, <1>9, <3>1
    <2>3. CASE writeTest(t)
      <3>1. PICK q \in Ports : /\ call[t].op = "serialWrite" /\ call[t].port = q
                               /\ \/ UNCHANGED pendVars
                                  \/ /\ pendTask' = [pendTask EXCEPT ![q] = t] /\ pendWhy' = [pendWhy EXCEPT ![q] = "write"]
                                     /\ asleep' = asleep \cup {t} /\ Goto(t, "woken")
        BY <2>3 DEF writeTest, Runs
      <3> QED
        BY <1>2, <1>5, <1>8, <1>9, <3>1
    <2> QED
      BY <2>1, <2>2, <2>3

\* What lines say of an id that is being given out: it is nobody's.
LEMMA NewId ==
    ASSUME SelectLines, NEW d \in Ids, devices[d] = NULL
    PROVE  Sel(d) = {}
  BY DEF SelectLines, Selectable, Serves, deviceError, EBADDEV

\* A device is created, with an empty list.
LEMMA DeviceLines ==
    ASSUME SelectLines, TablesOK, NEW drv \in Drvs, NEW unit \in Units, newIOSysDevice(-1, Device(drv, unit)),
           UNCHANGED <<snext, sprev, call>>, NoSelectors(slot(-1)) \/ UNCHANGED selList,
           drv # "mouse", UNCHANGED <<mouseTab, readTask, mouseAt>>
    PROVE  SelectLines'
  <1>1. /\ \A d \in Ids : devices'[d] # devices[d] =>
                d = slot(-1) /\ devices[d] = NULL /\ devices'[d] = Device(drv, unit)
        /\ slot(-1) >= 0 => slot(-1) \in Ids /\ devices[slot(-1)] = NULL /\ devices'[slot(-1)] = Device(drv, unit)
    BY NewDevice
  <1>2. \A d \in Ids : Sel(d)' = Sel(d)
    BY DEF Sel
  <1>3. DOMAIN selList' = Ids /\ \A d \in Ids : selList'[d] = selList[d] \/ (d = slot(-1) /\ selList'[d] = NULL)
    BY DEF NoSelectors, SelectLines
  <1>4. ASSUME NEW d \in Ids, Sel(d) # {} PROVE selList'[d] = selList[d] /\ devices'[d] = devices[d]
    <2>1. devices[d] # NULL
      BY <1>4, NewId
    <2>2. slot(-1) = d => devices[slot(-1)] = NULL
      BY <1>1, DevsAssumption DEF Ids
    <2> QED
      BY <1>1, <1>3, <2>1, <2>2
  <1>5. ASSUME NEW d \in Ids, Serves(d, "mouse")' PROVE d = mouseTab' /\ (~readTask' => Sel(d) = {})
    <2>1. devices'[d] = devices[d]
      BY <1>1, <1>5, DeviceParts DEF Serves
    <2> QED
      BY <1>5, <2>1 DEF SelectLines, Serves, deviceError
  <1> QED
    BY <1>2, <1>3, <1>4, <1>5, LinesStay DEF SelectLines

\* Devices that nobody selects on are deleted, or exchanged for others.
LEMMA DeletedLines ==
    ASSUME SelectLines, UNCHANGED <<selectVars, mouseTab, readTask, mouseAt>>, \A d \in Ids : Sel(d)' = Sel(d),
           \A d \in Ids : devices'[d] # devices[d] => (devices'[d] = NULL \/ devices'[d].drv # "mouse") /\ Sel(d) = {}
    PROVE  SelectLines'
  <1>1. ASSUME NEW d \in Ids, Serves(d, "mouse")' PROVE d = mouseTab' /\ (~readTask' => Sel(d) = {})
    <2>1. devices'[d] = devices[d]
      BY <1>1 DEF Serves, deviceError, EBADDEV, EDEVICEID
    <2> QED
      BY <1>1, <2>1 DEF SelectLines, Serves, deviceError
  <1> QED
    BY <1>1, LinesStay DEF SelectLines, selectVars

\* Ports are created and deleted.
LEMMA PortsMade ==
    ASSUME IInv, Ready, linked' = linked, SelectLines, Selecting, PortNotes, UNCHANGED <<mouseTab, readTask, mouseAt>>,
           NEW t \in Tasks,
           \/ \E p \in Ports, m \in {"BLK", "NBLK"} : createSerial(t, p, m) \/ deleteSerial(t, p)
           \/ removeSerial(t)
    PROVE  Within({}) /\ SelectLines' /\ Selecting' /\ PortNotes'
  <1>1. UNCHANGED <<call, asleep>>
    BY DEF createSerial, deleteSerial, removeSerial
  <1>2. Within({})
    BY <1>1, NoCall, QuietWithin
  <1>3. Selecting' /\ \A d \in Ids : Sel(d)' = Sel(d)
    BY <1>2, SelectKept
  <1>4. TablesOK /\ Kept
    BY DEF IInv, TypesOK
  <1>5. ASSUME NEW p \in Ports, serialTab[p] >= 0, ~InUse(p) PROVE serialTab[p] \in Ids /\ Sel(serialTab[p]) = {}
    <2>1. serialTab[p] \in Ids
      BY <1>4, <1>5 DEF Kept
    <2> QED
      BY <1>5, <2>1, ListsSay DEF InUse, Created
  <1>6. ASSUME NEW p \in Ports, NEW m, createSerial(t, p, m) PROVE SelectLines' /\ PortNotes'
    <2>1. PortNotes'
      BY <1>1, <1>6 DEF createSerial, PortNotes
    <2>2. "serial" \in Drvs /\ p \in Units
      BY DEF Drvs, Units
    <2>3. newIOSysDevice(-1, Device("serial", p)) /\ NoSelectors(slot(-1)) /\ UNCHANGED <<snext, sprev, call>>
      BY <1>6 DEF createSerial, NoSelectors
    <2>4. SelectLines'
      BY <1>4, <2>2, <2>3, DeviceLines
    <2> QED
      BY <2>1, <2>4
  <1>7. ASSUME NEW p \in Ports, deleteSerial(t, p) PROVE SelectLines' /\ PortNotes'
    <2>1. serialTab[p] >= 0 /\ ~InUse(p) /\ deleteIOSysDevice(serialTab[p]) /\ UNCHANGED <<selectVars, pendVars>>
      BY <1>7 DEF deleteSerial, Created
    <2>2. \A e \in Ids : devices'[e] = IF e = serialTab[p] THEN NULL ELSE devices[e]
      BY <1>4, <2>1, OldDevice
    <2>3. SelectLines'
      BY <1>3, <1>5, <2>1, <2>2, DeletedLines
    <2>4. PortNotes'
      BY <1>2, <2>1, PortsKept
    <2> QED
      BY <2>3, <2>4
  <1>8. ASSUME removeSerial(t) PROVE SelectLines' /\ PortNotes'
    <2>1. /\ devices' = [d \in Ids |-> IF \E p \in Ports : serialTab[p] = d THEN NULL ELSE devices[d]]
          /\ UNCHANGED <<selectVars, pendVars>>
      BY <1>8 DEF removeSerial
    <2>2. ASSUME NEW d \in Ids, devices'[d] # devices[d] PROVE devices'[d] = NULL /\ Sel(d) = {}
      <3>1. PICK p \in Ports : serialTab[p] = d
        BY <2>1, <2>2
      <3>2. ~InUse(p) /\ serialTab[p] >= 0
        BY <1>8, <3>1, DevsAssumption DEF removeSerial, Ids
      <3> QED
        BY <1>5, <2>1, <3>1, <3>2
    <2>3. SelectLines'
      BY <1>3, <2>1, <2>2, DeletedLines
    <2>4. PortNotes'
      BY <1>2, <2>1, PortsKept
    <2> QED
      BY <2>3, <2>4
  <1> QED
    BY <1>2, <1>3, <1>6, <1>7, <1>8

\* The interrupt handler wakes tasks that sleep for its port.
LEMMA PortWakes ==
    ASSUME IInv, Ready, linked' = linked, SelectLines, Selecting, PortNotes, UNCHANGED <<mouseTab, readTask, mouseAt>>,
           NEW p \in Ports, _serialTrap(p)
    PROVE  Within(SerialOps \cup {"select"}) /\ SelectLines' /\ Selecting' /\ PortNotes'
  <1>1. Notify(Woken(p), serialTab[p], call) /\ UNCHANGED <<devices, selectVars, pendWhy>> /\ serialTab[p] >= 0
    BY DEF _serialTrap, Created
  <1>2. serialTab[p] \in Ids
    BY <1>1 DEF IInv, Kept
  <1>3. Selectors(serialTab[p]) = Sel(serialTab[p])
    BY <1>2, ListsSay
  <1>4. ASSUME NEW t \in Woken(p) \cap Tasks
        PROVE  \/ t = pendTask[p] /\ call[t].op \in SerialOps
               \/ call[t].op = "select" /\ serialTab[p] \in call[t].on
    <2>1. (t = pendTask[p] /\ t # NULL) \/ t \in Sel(serialTab[p])
      BY <1>3, <1>4 DEF Woken
    <2> QED
      BY <2>1 DEF PortNotes, Sel
  <1>5. \A t \in Woken(p) \cap Tasks : call[t].op = "select" => serialTab[p] \in call[t].on
    BY <1>4 DEF SerialOps
  <1>6. /\ Selecting' /\ \A e \in Ids : Sel(e)' = Sel(e)
        /\ asleep' = asleep \ Woken(p)
        /\ \A t \in Tasks : call'[t].op = call[t].op /\ (call[t].op # "select" => call'[t] = call[t])
    BY <1>1, <1>2, <1>5, SelectorsWoken
  <1>7. SelectLines'
    BY <1>1, <1>6, SameLines DEF SelectLines
  <1>8. Within(SerialOps \cup {"select"})
    <2>1. MovesOnly(SerialOps \cup {"select"})
      BY <1>1, OwnNotify
    <2> QED
      BY <1>4, <1>6, <2>1 DEF Within
  <1>9. PortNotes'
    <2>1. pendTask' = [pendTask EXCEPT ![p] = IF @ \in Woken(p) THEN NULL ELSE @]
      BY DEF _serialTrap
    <2>2. DOMAIN pendTask' = Ports /\ DOMAIN pendWhy' = Ports
      BY <1>1, <2>1 DEF PortNotes
    <2>3. ASSUME NEW q \in Ports, pendTask'[q] # NULL
          PROVE  pendTask'[q] = pendTask[q] /\ pendTask[q] \in Tasks \cap asleep' /\ call'[pendTask[q]] = call[pendTask[q]]
      <3>1. pendTask'[q] = pendTask[q] /\ (q = p => pendTask[q] \notin Woken(p))
        BY <2>1, <2>3 DEF PortNotes
      <3>2. pendTask[q] \in Tasks \cap asleep /\ call[pendTask[q]].op \in SerialOps /\ call[pendTask[q]].port = q
        BY <2>3, <3>1 DEF PortNotes
      <3>3. pendTask[q] \notin Woken(p)
        <4>1. CASE q = p
          BY <3>1, <4>1
        <4>2. CASE q # p
          <5>1. pendTask[p] # pendTask[q]
            BY <2>3, <3>1, <3>2, <4>2 DEF PortNotes
          <5>2. call[pendTask[q]].op # "select"
            BY <3>2 DEF SerialOps
          <5> QED
            BY <1>4, <3>2, <5>1, <5>2
        <4> QED
          BY <4>1, <4>2
      <3>4. call[pendTask[q]].op # "select"
        BY <3>2 DEF SerialOps
      <3> QED
        BY <1>6, <3>1, <3>2, <3>3, <3>4
    <2> QED
      BY <1>1, <2>2, <2>3 DEF PortNotes
  <1> QED
    BY <1>6, <1>7, <1>8, <1>9

\* All steps of the ports.
LEMMA SerialSleeps ==
    ASSUME IInv, Ready, linked' = linked, SelectLines, Selecting, PortNotes, SerialStep
    PROVE  Within(SerialOps \cup {"select"}) /\ SelectLines' /\ Selecting' /\ PortNotes'
  <1>1. UNCHANGED <<mouseTab, readTask, mouseAt>>
    BY DEF SerialStep, mouseVars, readerState
  <1>2. \A ops : Within(ops) /\ ops \subseteq SerialOps => Within(SerialOps \cup {"select"})
    BY DEF Within, MovesOnly
  <1>3. CASE \E t \in Tasks : readTest(t) \/ readTake(t) \/ writeTest(t) \/ writeWoken(t) \/ writePut(t)
    BY <1>1, <1>2, <1>3, PortCalls
  <1>4. CASE \E t \in Applications : \/ removeSerial(t)
                                     \/ \E p \in Ports, m \in {"BLK", "NBLK"} : createSerial(t, p, m) \/ deleteSerial(t, p)
    BY <1>1, <1>2, <1>4, PortsMade, ApplicationTasks
  <1>5. CASE \E p \in Ports : _serialTrap(p)
    BY <1>1, <1>5, PortWakes
  <1>6. ASSUME NEW p \in Ports, Arrives(p) \/ Transmitted(p) \/ ModemChanges(p)
        PROVE  Within({}) /\ SelectLines' /\ Selecting' /\ PortNotes'
    <2>1. UNCHANGED <<call, asleep, devices, selectVars, pendVars>>
      BY <1>6 DEF Arrives, Transmitted, ModemChanges
    <2>2. Within({})
      BY <2>1, NoCall, QuietWithin
    <2> QED
      BY <1>1, <2>1, <2>2, SelectKept, LinesKept, PortsKept
  <1> QED
    BY <1>2, <1>3, <1>4, <1>5, <1>6 DEF SerialStep

-----------------------------------------------------------------------------
(* The sleepers: the mouse.                                                *)

\* The calls that the mouse's steps move
MouseOps == {"serialRead", "select", "deleteMouse"}

\* What the task of the mouse does is no step of others.
LEMMA ReaderKept ==
    ASSUME MouseReading, NEW ops, MovesOnly(ops), "serialRead" \notin ops,
           mouseAt' = mouseAt \/ (mouseAt # "byte" /\ mouseAt' \in {"none", "open", "ended"})
    PROVE  MouseReading'
  <1>1. call'[MouseTask].op \in {"out", "serialRead"} /\ MouseTask \in Tasks
    BY BytesAssumption DEF MovesOnly, Ready
  <1>2. call'[MouseTask] = call[MouseTask] \/ call'[MouseTask].op = "out"
    BY <1>1 DEF MovesOnly
  <1> QED
    BY <1>1, <1>2 DEF MouseReading, Idle

\* The mouse is created under an id of its own, ...
LEMMA MouseMade ==
    ASSUME IInv, Ready, linked' = linked, SelectLines, Selecting, NEW t \in Tasks \ {MouseTask},
           installMouse(t) \/ createMouse(t) \/ deleteMouse(t) \/ mouseDeleted(t)
    PROVE  SelectLines' /\ Selecting' /\ asleep' = asleep /\ MovesOnly({"deleteMouse"})
  <1>1. asleep' = asleep
    BY DEF installMouse, createMouse, deleteMouse, mouseDeleted
  <1>2. MovesOnly({"deleteMouse"})
    <2>1. CASE installMouse(t) \/ createMouse(t)
      BY <2>1, NoCall DEF installMouse, createMouse
    <2>2. CASE deleteMouse(t)
      <3>1. call[t].op = "out" /\ Enter(t, [op |-> "deleteMouse", at |-> "wait", got |-> 0])
        BY <2>2 DEF deleteMouse, Idle
      <3> QED
        BY <3>1, OwnEnter
    <2>3. CASE mouseDeleted(t)
      BY <2>3, OwnLeave DEF mouseDeleted, Runs
    <2> QED
      BY <2>1, <2>2, <2>3
  <1>3. Selecting' /\ \A d \in Ids : Sel(d)' = Sel(d)
    BY <1>1, <1>2, QuietWithin, SelectKept
  <1>4. TablesOK
    BY DEF IInv, TypesOK
  <1>5. ASSUME installMouse(t) PROVE SelectLines'
    <2>1. UNCHANGED <<devices, selectVars, readTask, mouseAt>> /\ mouseAt \in {"none", "ended"} /\ ~Serves(mouseTab, "mouse")
      BY <1>5 DEF installMouse, readerState
    <2>2. \A d \in Ids : ~Serves(d, "mouse")'
      BY <2>1 DEF SelectLines, Serves, deviceError
    <2>3. DOMAIN selList' = Ids /\ \A d \in Ids : selList'[d] = selList[d] /\ devices'[d] = devices[d]
      BY <2>1 DEF SelectLines, selectVars
    <2>4. mouseAt' \notin {"open", "check", "byte"} /\ UNCHANGED <<snext, sprev>>
      BY <2>1 DEF selectVars
    <2> QED
      BY <1>3, <2>2, <2>3, <2>4, LinesStay
  <1>6. ASSUME createMouse(t) PROVE SelectLines'
    <2>1. /\ newIOSysDevice(-1, Device("mouse", MousePort)) /\ mouseTab' = slot(-1) /\ mouseTab < 0
          /\ readTask' = TRUE /\ slot(-1) >= 0 /\ NoSelectors(slot(-1))
      BY <1>6 DEF createMouse
    <2>2. /\ \A d \in Ids : devices'[d] # devices[d] => d = slot(-1)
          /\ slot(-1) \in Ids /\ devices[slot(-1)] = NULL
      BY <1>4, <2>1, NewDevice, BytesAssumption DEF Drvs, Units
    <2>3. ASSUME NEW d \in Ids, Serves(d, "mouse")' PROVE d = slot(-1)
      <3>1. ~Serves(d, "mouse")
        BY <2>1, DevsAssumption DEF SelectLines, Ids
      <3> QED
        BY <2>2, <2>3, <3>1 DEF Serves, deviceError
    <2>4. Sel(slot(-1)) = {}
      BY <2>2, NewId
    <2>5. DOMAIN selList' = Ids /\ UNCHANGED <<snext, sprev>>
          /\ \A d \in Ids : selList'[d] = selList[d] \/ (d = slot(-1) /\ selList'[d] = NULL)
      BY <2>1 DEF NoSelectors, SelectLines
    <2>6. \A d \in Ids : Sel(d) # {} => selList'[d] = selList[d] /\ devices'[d] = devices[d]
      BY <2>2, <2>4, <2>5
    <2>7. \A d \in Ids : Serves(d, "mouse")' => d = mouseTab' /\ (~readTask' => Sel(d) = {})
      BY <2>1, <2>3
    <2> QED
      BY <1>3, <2>1, <2>2, <2>5, <2>6, <2>7, LinesStay
  <1>7. ASSUME deleteMouse(t) PROVE SelectLines'
    <2>1. UNCHANGED <<devices, selectVars, mouseTab, mouseAt>> /\ Listed(mouseTab) = {} /\ Serves(mouseTab, "mouse")
      BY <1>7 DEF deleteMouse, readerState
    <2>2. mouseTab \in Ids /\ Sel(mouseTab) = {}
      <3>1. mouseTab \in Ids
        BY <2>1 DEF Serves, deviceError, EDEVICEID
      <3> QED
        BY <2>1, <3>1, ListsSay
    <2>3. \A d \in Ids : Serves(d, "mouse")' => d = mouseTab' /\ (~readTask' => Sel(d) = {})
      BY <2>1, <2>2 DEF SelectLines, Serves, deviceError
    <2>4. DOMAIN selList' = Ids /\ \A d \in Ids : selList'[d] = selList[d] /\ devices'[d] = devices[d]
      BY <2>1 DEF SelectLines, selectVars
    <2>5. UNCHANGED <<snext, sprev>>
      BY <2>1 DEF selectVars
    <2> QED
      BY <1>3, <2>1, <2>2, <2>3, <2>4, <2>5, LinesStay
  <1>8. ASSUME mouseDeleted(t) PROVE SelectLines'
    <2>1. UNCHANGED <<selectVars, mouseTab, readTask, mouseAt>> /\ deleteIOSysDevice(mouseTab) /\ call[t].op = "deleteMouse"
      BY <1>8 DEF mouseDeleted, mouseVars, readerState, Runs
    <2>2. \A d \in Ids : devices'[d] = IF d = mouseTab THEN NULL ELSE devices[d]
      BY <1>4, <2>1, OldDevice
    <2>3. Sel(mouseTab) = {}
      <3>1. ~readTask /\ mouseTab \in Ids /\ devices[mouseTab] # NULL /\ devices[mouseTab].drv = "mouse"
        BY <2>1 DEF IInv, MouseKept
      <3>2. Serves(mouseTab, "mouse")
        BY <3>1 DEF Serves, deviceError
      <3> QED
        BY <3>1, <3>2 DEF SelectLines
    <2> QED
      BY <1>3, <2>1, <2>2, <2>3, DeletedLines
  <1> QED
    BY <1>1, <1>2, <1>3, <1>5, <1>6, <1>7, <1>8

\* ... read by a task of its own, and wakes those who select on it.
LEMMA MouseReads ==
    ASSUME IInv, Ready, linked' = linked, SelectLines, Selecting, MouseReading, mouseReaderOpen \/ mouseReaderCheck \/ mouseReaderByte
    PROVE  /\ SelectLines' /\ Selecting'
           /\ \A t \in Tasks : call[t].op # "select" => (t \in asleep' <=> t \in asleep)
           /\ \A t \in Tasks : call[t].op \notin {"select", "out"} => call'[t] = call[t]
           /\ MouseReading'
  <1>1. UNCHANGED <<devices, selectVars, mouseTab, readTask>>
    BY DEF mouseReaderOpen, mouseReaderCheck, mouseReaderByte
  <1>2. mouseAt \in {"open", "check", "byte"}
    BY DEF mouseReaderOpen, mouseReaderCheck, mouseReaderByte, Mouse
  <1>3. mouseTab \in Ids
    BY <1>2 DEF SelectLines
  <1>4. ASSUME asleep' = asleep, MovesOnly({"serialRead"})
        PROVE  SelectLines' /\ Selecting' /\ \A t \in Tasks : t \in asleep' <=> t \in asleep
    <2>1. Selecting' /\ \A d \in Ids : Sel(d)' = Sel(d)
      BY <1>4, QuietWithin, SelectKept
    <2> QED
      BY <1>1, <1>3, <1>4, <2>1, SameLines
  <1>5. ASSUME Notify(Selectors(mouseTab), mouseTab, call)
        PROVE  /\ SelectLines' /\ Selecting' /\ \A t \in Tasks : call[t].op # "select" => (t \in asleep' <=> t \in asleep)
               /\ \A t \in Tasks : call[t].op # "select" => call'[t] = call[t]
    <2>1. Selectors(mouseTab) = Sel(mouseTab)
      BY <1>3, ListsSay
    <2>2. \A t \in Selectors(mouseTab) \cap Tasks : call[t].op = "select" => mouseTab \in call[t].on
      BY <2>1 DEF Sel
    <2>3. /\ Selecting' /\ (\A e \in Ids : Sel(e)' = Sel(e)) /\ asleep' = asleep \ Selectors(mouseTab)
          /\ \A t \in Tasks : call[t].op # "select" => call'[t] = call[t]
      BY <1>3, <1>5, <2>2, SelectorsWoken
    <2>4. \A t \in Tasks : call[t].op # "select" => t \notin Selectors(mouseTab)
      BY <2>1 DEF Sel
    <2>5. SelectLines'
      BY <1>1, <1>3, <2>3, SameLines
    <2> QED
      BY <2>3, <2>4, <2>5
  <1>6. CASE mouseReaderOpen
    <2>1. UNCHANGED <<call, asleep>> /\ mouseAt = "open" /\ mouseAt' = "check"
      BY <1>6 DEF mouseReaderOpen, Mouse
    <2>2. MovesOnly({"serialRead"})
      BY <2>1, NoCall
    <2>3. MouseReading'
      BY <2>1 DEF MouseReading, Idle
    <2> QED
      BY <1>4, <2>1, <2>2, <2>3
  <1>7. CASE mouseReaderCheck
    <2> DEFINE f == [op |-> "serialRead", port |-> MousePort, left |-> 1, at |-> "test", got |-> 0]
    <2>1. \/ call' = call /\ mouseAt' = "ended"
          \/ call' = [call EXCEPT ![MouseTask] = f] /\ mouseAt' = "byte"
      BY <1>7 DEF mouseReaderCheck, Enter, Mouse
    <2>0. f.port = MousePort /\ f.op = "serialRead"
      OBVIOUS
    <2>2. MouseTask \in Tasks /\ call[MouseTask].op \in {"serialRead"} \cup {"out"}
      BY BytesAssumption DEF Ready
    <2>3. "op" \in DOMAIN f /\ f.op = "serialRead"
      OBVIOUS
    <2> HIDE DEF f
    <2>4. MovesOnly({"serialRead"})
      BY <2>1, <2>2, <2>3, NoCall, OwnCall
    <2>5. asleep' = asleep
      BY <1>7 DEF mouseReaderCheck
    <2>6. Idle(MouseTask)
      BY <1>7 DEF mouseReaderCheck, Mouse, MouseReading
    <2>7. \A t \in Tasks : call[t].op # "out" => call'[t] = call[t]
      <3>1. call[MouseTask].op = "out" /\ DOMAIN call = Tasks
        BY <2>6 DEF Idle, Ready, CallsOK
      <3>2. \A t \in Tasks \ {MouseTask} : call'[t] = call[t]
        BY <2>1, <3>1
      <3> QED
        BY <3>1, <3>2
    <2>8. MouseReading'
      BY <2>0, <2>1, <2>2, <2>6 DEF MouseReading, Idle, Ready, CallsOK
    <2> QED
      BY <1>4, <2>4, <2>5, <2>7, <2>8
  <1>8. CASE mouseReaderByte
    <2>1. UNCHANGED <<call, asleep>> \/ Notify(Selectors(mouseTab), mouseTab, call)
      BY <1>8 DEF mouseReaderByte, mouseDecode
    <2>2. mouseAt' \in {"check", "ended"} /\ Idle(MouseTask) /\ MouseTask \in Tasks
      BY <1>8, BytesAssumption DEF mouseReaderByte
    <2>3. call'[MouseTask] = call[MouseTask]
      BY <1>5, <2>1, <2>2 DEF Idle
    <2>4. MouseReading'
      BY <2>2, <2>3 DEF MouseReading, Idle
    <2>5. CASE UNCHANGED <<call, asleep>>
      <3>1. MovesOnly({"serialRead"})
        BY <2>5, NoCall
      <3> QED
        BY <1>4, <2>4, <2>5, <3>1
    <2>6. CASE Notify(Selectors(mouseTab), mouseTab, call)
      BY <1>5, <2>4, <2>6
    <2> QED
      BY <2>1, <2>5, <2>6
  <1> QED
    BY <1>6, <1>7, <1>8

\* All steps of the mouse.  Its reader opens the port, but sleeps in read().
LEMMA MouseSleeps ==
    ASSUME IInv, Ready, linked' = linked, SelectLines, Selecting, MouseReading, PortNotes, MouseStep
    PROVE  Within(MouseOps) /\ SelectLines' /\ Selecting' /\ MouseReading' /\ PortNotes'
  <1>1. MovesOnly(MouseOps)
    BY MouseMoves DEF MouseOps
  <1>2. CASE \E t \in Applications : installMouse(t) \/ createMouse(t) \/ deleteMouse(t) \/ mouseDeleted(t)
    <2>1. PICK t \in Tasks \ {MouseTask} : installMouse(t) \/ createMouse(t) \/ deleteMouse(t) \/ mouseDeleted(t)
      BY <1>2, ApplicationTasks
    <2>2. SelectLines' /\ Selecting' /\ asleep' = asleep /\ MovesOnly({"deleteMouse"})
      BY <2>1, MouseMade
    <2>3. mouseAt' = mouseAt \/ (mouseAt # "byte" /\ mouseAt' \in {"none", "open", "ended"})
      BY <2>1 DEF installMouse, createMouse, deleteMouse, mouseDeleted, mouseVars, readerState
    <2>4. MouseReading'
      BY <2>2, <2>3, ReaderKept
    <2>5. \A u \in Tasks : call[u].op \notin {"select", "deleteMouse", "out"} => call'[u] = call[u]
      BY <2>2 DEF MovesOnly
    <2>6. Within({"deleteMouse"}) /\ {"deleteMouse"} \cap SerialOps = {}
      BY <2>2, QuietWithin DEF SerialOps
    <2>7. UNCHANGED pendVars
      BY <2>1 DEF installMouse, createMouse, deleteMouse, mouseDeleted, serialVars
    <2>8. PortNotes'
      BY <2>6, <2>7, PortsKept
    <2> QED
      BY <1>1, <2>2, <2>4, <2>8, QuietWithin
  <1>3. CASE mouseReaderOpen \/ mouseReaderCheck \/ mouseReaderByte
    <2>1. /\ SelectLines' /\ Selecting' /\ MouseReading'
          /\ \A t \in Tasks : call[t].op # "select" => (t \in asleep' <=> t \in asleep)
          /\ \A t \in Tasks : call[t].op \notin {"select", "out"} => call'[t] = call[t]
      BY <1>3, MouseReads
    <2>2. Within(MouseOps)
      BY <1>1, <2>1 DEF Within, MouseOps
    <2>3. UNCHANGED pendVars
      BY <1>3 DEF mouseReaderOpen, mouseReaderCheck, mouseReaderByte, serialVars
    <2>4. ASSUME NEW p \in Ports, pendTask[p] # NULL
          PROVE  call'[pendTask[p]] = call[pendTask[p]] /\ pendTask[p] \in asleep'
      BY <2>1, <2>4 DEF PortNotes, SerialOps
    <2>5. PortNotes'
      BY <2>3, <2>4 DEF PortNotes, pendVars
    <2> QED
      BY <2>1, <2>2, <2>5
  <1> QED
    BY <1>2, <1>3 DEF MouseStep

-----------------------------------------------------------------------------
(* The sleepers: the console and the disks.                                *)

\* A task reads keys, and sleeps for one.
LEMMA KeysRead ==
    ASSUME Ready, linked' = linked, SelectLines, Selecting, PageNotes, UNCHANGED <<mouseTab, readTask, mouseAt>>,
           NEW t \in Tasks \ {MouseTask}, keyTest(t) \/ keyTake(t)
    PROVE  Within(ConsoleOps) /\ SelectLines' /\ Selecting' /\ PageNotes'
  <1>1. call[t].op = "consoleRead" /\ t \notin asleep /\ asleep' \in {asleep, asleep \cup {t}}
    BY Zenon DEF keyTest, keyTake, Runs
  <1>2. \A u \in Tasks \ {t} : call'[u] = call[u]
    BY Zenon DEF keyTest, keyTake, Goto, Leave, Enter, Ready, CallsOK
  <1>3. MovesOnly(ConsoleOps)
    <2>1. call[t].op \in ConsoleOps \cup {"out"} /\ "op" \in DOMAIN call[t]
      BY <1>1 DEF ConsoleOps, Ready, CallsOK
    <2>2. \/ \E value : Leave(t, value)
          \/ \E at : Goto(t, at)
          \/ \E n : Enter(t, [call[t] EXCEPT !.cnt = n, !.at = "test"])
      BY Zenon DEF keyTest, keyTake
    <2>3. ASSUME NEW n, Enter(t, [call[t] EXCEPT !.cnt = n, !.at = "test"]) PROVE MovesOnly(ConsoleOps)
      <3> DEFINE f == [call[t] EXCEPT !.cnt = n, !.at = "test"]
      <3>1. "op" \in DOMAIN f /\ f.op = call[t].op
        BY <2>1
      <3>2. Enter(t, f)
        BY <2>3
      <3> HIDE DEF f
      <3> QED
        BY <2>1, <3>1, <3>2, OwnEnter
    <2> QED
      BY <2>1, <2>2, <2>3, OwnLeave, OwnGoto, Zenon
  <1>4. Within(ConsoleOps)
    BY <1>1, <1>3 DEF Within, ConsoleOps
  <1>5. "select" \notin ConsoleOps
    BY DEF ConsoleOps
  <1>6. UNCHANGED <<devices, selectVars>>
    BY Zenon DEF keyTest, keyTake
  <1>7. Selecting' /\ SelectLines'
    BY <1>4, <1>5, <1>6, SelectKept, LinesKept
  <1>8. ASSUME NEW p \in Pages, keyTask[p] # NULL
        PROVE  keyTask[p] # t /\ keyTask[p] \in asleep' /\ call'[keyTask[p]] = call[keyTask[p]]
    <2>1. keyTask[p] \in Tasks \cap asleep
      BY <1>8 DEF PageNotes
    <2> QED
      BY <1>1, <1>2, <2>1
  <1>11. focusDev' = focusDev
    BY Zenon DEF keyTest, keyTake
  <1>9. ASSUME UNCHANGED keyTask PROVE PageNotes'
    BY <1>8, <1>9, <1>11 DEF PageNotes
  <1>10. ASSUME NEW q \in Pages, call[t].page = q, Goto(t, "take"),
                keyTask' = [keyTask EXCEPT ![q] = t], asleep' = asleep \cup {t}
         PROVE  PageNotes'
    <2>1. call'[t].op = "consoleRead" /\ call'[t].page = q /\ call'[t].at = "take"
      <3>1. call'[t] = [call[t] EXCEPT !.at = "take"]
        BY <1>10 DEF Goto, Ready, CallsOK
      <3> QED
        BY <1>1, <1>10, <3>1
    <2>2. ASSUME NEW p \in Pages \ {q}, keyTask'[p] # NULL
          PROVE  /\ keyTask'[p] \in Tasks \cap asleep' /\ call'[keyTask'[p]].op = "consoleRead"
                 /\ call'[keyTask'[p]].page = p /\ call'[keyTask'[p]].at = "take"
      <3>1. keyTask'[p] = keyTask[p]
        BY <1>10 DEF PageNotes
      <3> QED
        BY <1>8, <2>2, <3>1 DEF PageNotes
    <2>3. keyTask'[q] = t /\ DOMAIN keyTask' = Pages /\ t \in Tasks \cap asleep'
      BY <1>10 DEF PageNotes
    <2> QED
      BY <1>11, <2>1, <2>2, <2>3 DEF PageNotes
  <1> QED
    <2>1. CASE keyTake(t)
      BY <1>4, <1>7, <1>9, <2>1, Zenon DEF keyTake
    <2>2. CASE keyTest(t)
      <3>1. PICK q \in Pages : /\ call[t].page = q
                               /\ \/ UNCHANGED keyTask
                                  \/ keyTask' = [keyTask EXCEPT ![q] = t] /\ asleep' = asleep \cup {t} /\ Goto(t, "take")
        BY <2>2 DEF keyTest, Runs
      <3> QED
        BY <1>4, <1>7, <1>9, <1>10, <3>1
    <2> QED
      BY <2>1, <2>2

\* Consoles are created and deleted.
LEMMA ConsolesMade ==
    ASSUME IInv, Ready, linked' = linked, SelectLines, Selecting, PageNotes, UNCHANGED <<mouseTab, readTask, mouseAt>>,
           NEW t \in Tasks \ {MouseTask},
           \/ \E p \in Pages : createConsole(t, p) \/ deleteConsole(t, p)
           \/ installConsole(t) \/ removeConsole(t) \/ removed(t)
    PROVE  Within({"removeConsole"}) /\ SelectLines' /\ Selecting' /\ PageNotes'
  <1>1. asleep' = asleep
    BY DEF createConsole, deleteConsole, installConsole, removeConsole, removed
  <1>2. Within({"removeConsole"})
    <2>1. CASE call' = call
      BY <1>1, <2>1, NoCall, QuietWithin
    <2>2. CASE removeConsole(t)
      <3>1. call[t].op = "out" /\ Enter(t, [op |-> "removeConsole", at |-> "wait", got |-> 0])
        BY <2>2 DEF removeConsole, Idle
      <3>2. MovesOnly({"removeConsole"})
        BY <3>1, OwnEnter
      <3> QED
        BY <1>1, <3>2, QuietWithin
    <2>3. CASE removed(t)
      <3>1. MovesOnly({"removeConsole"})
        BY <2>3, OwnLeave DEF removed, Runs
      <3> QED
        BY <1>1, <3>1, QuietWithin
    <2> QED
      BY <2>1, <2>2, <2>3 DEF createConsole, deleteConsole, installConsole
  <1>3. Selecting' /\ \A d \in Ids : Sel(d)' = Sel(d)
    BY <1>2, SelectKept
  <1>4. TablesOK /\ Kept
    BY DEF IInv, TypesOK
  <1>5. ASSUME NEW p \in Pages, consoleTab[p] >= 0, ~ConsoleBusy(p) PROVE consoleTab[p] \in Ids /\ Sel(consoleTab[p]) = {}
    <2>1. consoleTab[p] \in Ids
      BY <1>4, <1>5 DEF Kept
    <2> QED
      BY <1>5, <2>1, ListsSay DEF ConsoleBusy
  <1>6. ASSUME NEW p \in Pages, createConsole(t, p) PROVE SelectLines' /\ PageNotes'
    <2>1. PageNotes'
      BY <1>6 DEF createConsole, PageNotes
    <2>2. "console" \in Drvs /\ p \in Units
      BY DEF Drvs, Units
    <2>3. newIOSysDevice(-1, Device("console", p)) /\ NoSelectors(slot(-1)) /\ UNCHANGED <<snext, sprev, call>>
      BY <1>6 DEF createConsole, NoSelectors
    <2>4. SelectLines'
      BY <1>4, <2>2, <2>3, DeviceLines
    <2> QED
      BY <2>1, <2>4
  <1>7. ASSUME NEW p \in Pages, deleteConsole(t, p) PROVE SelectLines' /\ PageNotes'
    <2>1. consoleTab[p] >= 0 /\ ~ConsoleBusy(p) /\ deleteIOSysDevice(consoleTab[p]) /\ UNCHANGED <<selectVars, keyTask, focusDev>>
      BY <1>7 DEF deleteConsole
    <2>2. \A e \in Ids : devices'[e] = IF e = consoleTab[p] THEN NULL ELSE devices[e]
      BY <1>4, <2>1, OldDevice
    <2>3. SelectLines'
      BY <1>3, <1>5, <2>1, <2>2, DeletedLines
    <2>4. PageNotes'
      BY <1>2, <2>1, PagesKept, PageZero DEF PageNotes
    <2> QED
      BY <2>3, <2>4
  <1>8. ASSUME removeConsole(t) PROVE SelectLines' /\ PageNotes'
    <2>1. /\ devices' = [d \in Ids |-> IF \E p \in Pages : consoleTab[p] = d THEN NULL ELSE devices[d]]
          /\ UNCHANGED <<selectVars, keyTask, focusDev>>
      BY <1>8 DEF removeConsole
    <2>2. ASSUME NEW d \in Ids, devices'[d] # devices[d] PROVE devices'[d] = NULL /\ Sel(d) = {}
      <3>1. PICK p \in Pages : consoleTab[p] = d
        BY <2>1, <2>2
      <3>2. ~ConsoleBusy(p) /\ consoleTab[p] >= 0
        BY <1>8, <3>1, DevsAssumption DEF removeConsole, Ids
      <3> QED
        BY <1>5, <2>1, <3>1, <3>2
    <2>3. SelectLines'
      BY <1>3, <2>1, <2>2, DeletedLines
    <2>4. PageNotes'
      BY <1>2, <2>1, PagesKept, PageZero DEF PageNotes
    <2> QED
      BY <2>3, <2>4
  <1>9. ASSUME installConsole(t) \/ removed(t) PROVE SelectLines' /\ PageNotes'
    <2>1. UNCHANGED <<devices, selectVars, keyTask>> /\ focusDev' \in {focusDev, 0}
      BY <1>9 DEF installConsole, removed
    <2>2. PageNotes'
      BY <1>2, <2>1, PagesKept, PageZero DEF PageNotes
    <2>3. SelectLines'
      BY <1>2, <2>1, LinesKept
    <2> QED
      BY <2>2, <2>3
  <1> QED
    BY <1>2, <1>3, <1>6, <1>7, <1>8, <1>9

\* The keyboard task wakes those who sleep for the console in focus.
LEMMA KeyWakes ==
    ASSUME IInv, Ready, linked' = linked, SelectLines, Selecting, PageNotes, UNCHANGED <<mouseTab, readTask, mouseAt>>,
           NEW p \in Pages, Notify(wokenByKey(p), consoleTab[p], call), UNCHANGED <<devices, selectVars, focusDev>>,
           consoleTab[p] \in Ids, keyTask' = [keyTask EXCEPT ![p] = NULL]
    PROVE  Within({"consoleRead", "select"}) /\ SelectLines' /\ Selecting' /\ PageNotes'
  <1>3. Selectors(consoleTab[p]) = Sel(consoleTab[p])
    BY ListsSay
  <1>4. ASSUME NEW t \in wokenByKey(p) \cap Tasks
        PROVE  \/ t = keyTask[p] /\ call[t].op = "consoleRead"
               \/ call[t].op = "select" /\ consoleTab[p] \in call[t].on
    <2>1. (t = keyTask[p] /\ t # NULL) \/ t \in Sel(consoleTab[p])
      BY <1>3, <1>4 DEF wokenByKey
    <2> QED
      BY <2>1 DEF PageNotes, Sel
  <1>6. /\ Selecting' /\ \A e \in Ids : Sel(e)' = Sel(e)
        /\ asleep' = asleep \ wokenByKey(p)
        /\ \A t \in Tasks : call'[t].op = call[t].op /\ (call[t].op # "select" => call'[t] = call[t])
    <2>1. \A t \in wokenByKey(p) \cap Tasks : call[t].op = "select" => consoleTab[p] \in call[t].on
      BY <1>4
    <2> QED
      BY <2>1, SelectorsWoken
  <1>7. SelectLines'
    BY <1>6, SameLines DEF SelectLines
  <1>8. Within({"consoleRead", "select"})
    <2>1. MovesOnly({"consoleRead", "select"})
      BY OwnNotify
    <2> QED
      BY <1>4, <1>6, <2>1 DEF Within
  <1>9. PageNotes'
    <2>1. DOMAIN keyTask' = Pages
      BY DEF PageNotes
    <2>2. ASSUME NEW q \in Pages, keyTask'[q] # NULL
          PROVE  keyTask'[q] = keyTask[q] /\ keyTask[q] \in Tasks \cap asleep' /\ call'[keyTask[q]] = call[keyTask[q]]
      <3>1. keyTask'[q] = keyTask[q] /\ q # p
        BY <2>2 DEF PageNotes
      <3>2. keyTask[q] \in Tasks \cap asleep /\ call[keyTask[q]].op = "consoleRead" /\ call[keyTask[q]].page = q
        BY <2>2, <3>1 DEF PageNotes
      <3>3. keyTask[q] \notin wokenByKey(p)
        <4>1. keyTask[p] # keyTask[q]
          BY <2>2, <3>1, <3>2 DEF PageNotes
        <4> QED
          BY <1>4, <3>2, <4>1
      <3> QED
        BY <1>6, <3>1, <3>2, <3>3
    <2> QED
      BY <2>1, <2>2 DEF PageNotes
  <1> QED
    BY <1>6, <1>7, <1>8, <1>9

\* All steps of the consoles.
LEMMA ConsoleSleeps ==
    ASSUME IInv, Ready, linked' = linked, SelectLines, Selecting, PageNotes, ConsoleStep
    PROVE  Within(ConsoleOps \cup {"select"}) /\ SelectLines' /\ Selecting' /\ PageNotes'
  <1>1. UNCHANGED <<mouseTab, readTask, mouseAt>>
    BY DEF ConsoleStep, mouseVars, readerState
  <1>2. \A ops : Within(ops) /\ ops \subseteq ConsoleOps \cup {"select"} => Within(ConsoleOps \cup {"select"})
    BY DEF Within, MovesOnly
  <1>3. CASE \E t \in Applications : keyTest(t) \/ keyTake(t)
    BY <1>1, <1>2, <1>3, KeysRead, ApplicationTasks
  <1>4. CASE \E t \in Applications : \/ \E p \in Pages : createConsole(t, p) \/ deleteConsole(t, p)
                                     \/ installConsole(t) \/ removeConsole(t) \/ removed(t)
    BY <1>1, <1>2, <1>4, ConsolesMade, ApplicationTasks DEF ConsoleOps
  <1>5. ASSUME UNCHANGED <<call, asleep, devices, selectVars, keyTask>>, focusDev' \in Pages
        PROVE  Within({}) /\ SelectLines' /\ Selecting' /\ PageNotes'
    <2>1. Within({})
      BY <1>5, NoCall, QuietWithin
    <2> QED
      BY <1>1, <1>5, <2>1, SelectKept, LinesKept, PagesKept
  <1>0. focusDev \in Pages
    BY DEF PageNotes
  <1>6. CASE readTaskCheck \/ (\E k \in Keys : readTaskKey(k)) \/ \E p \in Pages : readTaskFocus(p)
    BY <1>0, <1>2, <1>5, <1>6 DEF readTaskCheck, readTaskKey, readTaskFocus
  <1>7. CASE readTaskStore
    <2>1. CASE getDeviceData(consoleTab[focusDev]) # NULL
      <3>1. /\ Notify(wokenByKey(focusDev), consoleTab[focusDev], call) /\ UNCHANGED <<devices, selectVars, focusDev>>
            /\ keyTask' = [keyTask EXCEPT ![focusDev] = NULL]
        BY <1>7, <2>1 DEF readTaskStore
      <3>2. consoleTab[focusDev] \in Ids
        BY <2>1 DEF getDeviceData, deviceError, EDEVICEID
      <3>3. focusDev \in Pages
        BY DEF PageNotes
      <3> QED
        BY <1>1, <1>2, <3>1, <3>2, <3>3, KeyWakes DEF ConsoleOps
    <2>2. CASE getDeviceData(consoleTab[focusDev]) = NULL
      BY <1>0, <1>2, <1>5, <1>7, <2>2 DEF readTaskStore
    <2> QED
      BY <2>1, <2>2
  <1> QED
    BY <1>3, <1>4, <1>6, <1>7 DEF ConsoleStep

\* A disk is none of the devices that tasks select on.
LEMMA DiskLines ==
    ASSUME IInv, SelectLines, NEW v \in Drives, diskTab[v] >= 0
    PROVE  diskTab[v] \in Ids /\ Sel(diskTab[v]) = {}
  <1>1. diskTab[v] \in Ids /\ devices[diskTab[v]] = Device("disk", v)
    BY DEF IInv, Kept
  <1>2. ~Selectable(diskTab[v])
    BY <1>1, DeviceParts DEF Selectable, Serves
  <1> QED
    BY <1>1, <1>2 DEF SelectLines

\* No step of the disks sends a task to sleep or wakes one.
LEMMA DiskSleeps ==
    ASSUME IInv, Ready, linked' = linked, SelectLines, Selecting, DiskStep
    PROVE  Within(DiskOps) /\ SelectLines' /\ Selecting'
  <1>1. asleep' = asleep
    BY Zenon DEF DiskStep, createBIOSDisk, deleteBIOSDisk, installBIOSDisk, diskInstalled, removeBIOSDisk, diskAsked, diskAdd,
           getBios, diskOpenTimeout, diskOpened, diskSector, MediaChanges
  <1>2. Within(DiskOps)
    BY <1>1, DiskOwnMoves, QuietWithin
  <1>3. "select" \notin DiskOps
    BY DEF DiskOps
  <1>4. Selecting' /\ \A d \in Ids : Sel(d)' = Sel(d)
    BY <1>2, <1>3, SelectKept
  <1>5. UNCHANGED <<selectVars, mouseTab, readTask, mouseAt>>
    BY DEF DiskStep, mouseVars, readerState
  <1>6. ASSUME UNCHANGED devices PROVE SelectLines'
    BY <1>2, <1>3, <1>5, <1>6, LinesKept
  <1>7. TablesOK
    BY DEF IInv, TypesOK
  <1>8. ASSUME NEW t \in Tasks, NEW v \in Drives, deleteBIOSDisk(t, v) PROVE SelectLines'
    <2>1. diskTab[v] >= 0 /\ deleteIOSysDevice(diskTab[v])
      BY <1>8 DEF deleteBIOSDisk
    <2>2. \A e \in Ids : devices'[e] = IF e = diskTab[v] THEN NULL ELSE devices[e]
      BY <1>7, <2>1, OldDevice
    <2>3. Sel(diskTab[v]) = {}
      BY <2>1, DiskLines
    <2> QED
      BY <1>4, <1>5, <2>2, <2>3, DeletedLines
  <1>9. ASSUME NEW t \in Tasks, removeBIOSDisk(t) PROVE SelectLines'
    <2>1. devices' = [d \in Ids |-> IF \E v \in Drives : diskTab[v] = d THEN NULL ELSE devices[d]]
      BY <1>9 DEF removeBIOSDisk
    <2>2. ASSUME NEW d \in Ids, devices'[d] # devices[d] PROVE devices'[d] = NULL /\ Sel(d) = {}
      <3>1. PICK v \in Drives : diskTab[v] = d
        BY <2>1, <2>2
      <3>2. diskTab[v] >= 0
        BY <3>1, DevsAssumption DEF Ids
      <3> QED
        BY <2>1, <3>1, <3>2, DiskLines
    <2> QED
      BY <1>4, <1>5, <2>2, DeletedLines
  <1>10. ASSUME NEW t \in Tasks, diskAdd(t) PROVE SelectLines'
    <2> DEFINE v == call[t].drive
    <2>1. call[t].op = "diskCreate" /\ newIOSysDevice(-1, Device("disk", v))
      BY <1>10 DEF diskAdd, Runs
    <2>2. v \in Drives
      BY <2>1, DiskCaller DEF DiskOps, DiskFrames
    <2> HIDE DEF v
    <2>3. \A e \in Ids : devices'[e] # devices[e] => devices[e] = NULL /\ devices'[e] = Device("disk", v)
      BY <1>7, <2>1, <2>2, NewDevice DEF Drvs, Units
    <2>4. \A e \in Ids : devices'[e] # devices[e] => devices'[e].drv # "mouse" /\ Sel(e) = {}
      BY <2>3, DeviceParts, NewId
    <2> QED
      BY <1>4, <1>5, <2>4, DeletedLines
  <1>11. CASE \/ \E t \in Applications, v \in Drives : createBIOSDisk(t, v)
              \/ \E t \in Applications : installBIOSDisk(t) \/ diskInstalled(t) \/ diskAsked(t)
              \/ \E t \in Applications : getBios(t) \/ diskOpenTimeout(t) \/ diskOpened(t) \/ diskSector(t)
              \/ \E v \in Drives : MediaChanges(v)
    <2>1. UNCHANGED devices
      BY <1>11, Zenon DEF createBIOSDisk, installBIOSDisk, diskInstalled, diskAsked, getBios, diskOpenTimeout, diskOpened,
                   diskSector, MediaChanges
    <2> QED
      BY <1>2, <1>4, <1>6, <2>1
  <1>12. CASE \/ \E t \in Applications, v \in Drives : deleteBIOSDisk(t, v)
              \/ \E t \in Applications : removeBIOSDisk(t) \/ diskAdd(t)
    BY <1>2, <1>4, <1>8, <1>9, <1>10, <1>12, ApplicationTasks
  <1> QED
    BY <1>11, <1>12 DEF DiskStep

-----------------------------------------------------------------------------
(* The sleepers: all steps, and the theorem.                               *)

\* Who sleeps for what, in all libraries
SleepInv == SelectLines /\ Selecting /\ MouseReading /\ PortNotes /\ PageNotes /\ DisplayNotes /\ HookLine

\* The task of the mouse reads its port, while others use theirs.
LEMMA ReaderReads ==
    ASSUME Ready, linked' = linked, MouseReading, SerialStep
    PROVE  MouseReading'
  <1>1. mouseAt' = mouseAt /\ DOMAIN call = Tasks /\ MouseTask \in Tasks
    BY BytesAssumption DEF SerialStep, mouseVars, readerState, Ready, CallsOK
  <1>2. ASSUME call'[MouseTask] = call[MouseTask] \/ (~Idle(MouseTask) /\ call'[MouseTask].op = "out")
               \/ (call[MouseTask].op = "serialRead" /\ call'[MouseTask].port = call[MouseTask].port)
        PROVE  MouseReading'
    BY <1>1, <1>2 DEF MouseReading, Idle
  <1>3. ASSUME NEW t \in Tasks, readTest(t) \/ readTake(t) \/ writeTest(t) \/ writeWoken(t) \/ writePut(t)
        PROVE  MouseReading'
    <2>1. \A u \in Tasks \ {t} : call'[u] = call[u]
      BY <1>1, <1>3 DEF readTest, readTake, writeTest, writeWoken, writePut, Goto, Leave, Enter
    <2>2. CASE t # MouseTask
      BY <1>1, <1>2, <2>1, <2>2
    <2>3. CASE t = MouseTask
      <3>1. call[t].op = "serialRead" /\ (readTest(t) \/ readTake(t))
        BY <1>3, <2>3 DEF Ready, readTest, readTake, writeTest, writeWoken, writePut, Runs
      <3>2. \/ \E at : call'[t] = [call[t] EXCEPT !.at = at]
            \/ call'[t] = [call[t] EXCEPT !.left = @ - 1, !.at = "test"]
            \/ \E value : call'[t] = [op |-> "out", got |-> value]
        BY <1>1, <3>1, ZenonT(60) DEF readTest, readTake, Goto, Leave, Enter
      <3>3. call'[t].port = call[t].port \/ call'[t].op = "out"
        <4>1. PICK c : c = call[t]
          OBVIOUS
        <4>2. \A at : [c EXCEPT !.at = at].port = c.port
          OBVIOUS
        <4>3. [c EXCEPT !.left = @ - 1, !.at = "test"].port = c.port
          OBVIOUS
        <4>4. \A value : [op |-> "out", got |-> value].op = "out"
          OBVIOUS
        <4> QED
          BY <3>2, <4>1, <4>2, <4>3, <4>4, ZenonT(60)
      <3> QED
        BY <1>2, <2>3, <3>1, <3>3 DEF Idle
    <2> QED
      BY <2>2, <2>3
  <1>4. CASE \E t \in Applications : \/ removeSerial(t)
                                     \/ \E p \in Ports, m \in {"BLK", "NBLK"} : createSerial(t, p, m) \/ deleteSerial(t, p)
    BY <1>2, <1>4 DEF createSerial, deleteSerial, removeSerial
  <1>5. CASE \E p \in Ports : Arrives(p) \/ Transmitted(p) \/ ModemChanges(p)
    BY <1>2, <1>5 DEF Arrives, Transmitted, ModemChanges
  <1>6. ASSUME NEW p, _serialTrap(p) PROVE MouseReading'
    <2>1. call[MouseTask].op # "select"
      BY DEF Ready
    <2>2. call'[MouseTask] = call[MouseTask]
      BY <1>1, <1>6, <2>1 DEF _serialTrap, Notify
    <2> QED
      BY <1>2, <2>2
  <1> QED
    BY <1>3, <1>4, <1>5, <1>6 DEF SerialStep

\* Libraries that are no drivers leave the drivers' sleepers alone.
LEMMA DriversAside ==
    ASSUME SelectLines, Selecting, MouseReading, PortNotes, PageNotes, NEW ops, Within(ops), ops \cap DriverOps = {},
           UNCHANGED <<devices, selectVars, serialVars, mouseVars, consoleVars>>
    PROVE  SelectLines' /\ Selecting' /\ MouseReading' /\ PortNotes' /\ PageNotes'
  <1>1. UNCHANGED <<mouseTab, readTask, mouseAt, keyTask, focusDev>> /\ UNCHANGED pendVars
    BY DEF mouseVars, readerState, serialVars, consoleVars
  <1>2. "select" \notin ops /\ "consoleRead" \notin ops /\ "serialRead" \notin ops /\ ops \cap SerialOps = {}
    BY DEF DriverOps, SerialOps, ConsoleOps
  <1>3. Selecting' /\ SelectLines'
    BY <1>1, <1>2, SelectKept, LinesKept
  <1>4. MouseReading'
    BY <1>1, <1>2, ReaderKept DEF Within
  <1>5. PortNotes'
    BY <1>1, <1>2, PortsKept
  <1>6. PageNotes'
    BY <1>1, <1>2, PagesKept DEF PageNotes
  <1> QED
    BY <1>3, <1>4, <1>5, <1>6

\* The steps of the drivers.
LEMMA DriverSleeps ==
    ASSUME IInv, Ready, SleepInv, DriverStep
    PROVE  SleepInv' /\ \E ops : Within(ops) /\ ops \subseteq DriverOps
  <1>1. linked' = linked /\ displays' = displays /\ idleSem' = idleSem
    BY DEF DriverStep, windowVars, libraryVars, hookVars
  <1>2. SelectLines /\ Selecting /\ MouseReading /\ PortNotes /\ PageNotes /\ DisplayNotes /\ HookLine
    BY DEF SleepInv
  <1>3. ASSUME NEW ops, Within(ops), ops \subseteq DriverOps PROVE DisplayNotes' /\ HookLine'
    <2>1. "event" \notin ops /\ ops \cap HookOps = {}
      BY <1>3 DEF DriverOps, SerialOps, ConsoleOps, DiskOps, HookOps
    <2> QED
      BY <1>1, <1>2, <1>3, <2>1, DisplaysKept, HookLineKept
  <1>9. /\ SerialOps \cup {"select"} \subseteq DriverOps /\ ConsoleOps \cup {"select"} \subseteq DriverOps
        /\ MouseOps \subseteq DriverOps /\ DiskOps \subseteq DriverOps
    BY DEF DriverOps, MouseOps, SerialOps
  <1>4. CASE Client
    <2>1. /\ Within(DriverOps) /\ SelectLines' /\ Selecting' /\ MouseReading'
          /\ PortNotes' /\ PageNotes' /\ DisplayNotes'
      BY <1>1, <1>2, <1>4, ClientSleeps
    <2> QED
      BY <1>3, <2>1 DEF SleepInv
  <1>5. CASE SerialStep
    <2>1. Within(SerialOps \cup {"select"}) /\ SelectLines' /\ Selecting' /\ PortNotes'
      BY <1>1, <1>2, <1>5, SerialSleeps
    <2>2. MouseReading'
      BY <1>1, <1>2, <1>5, ReaderReads
    <2>3. PageNotes'
      <3>1. UNCHANGED <<keyTask, focusDev>> /\ "consoleRead" \notin SerialOps \cup {"select"}
        BY <1>5 DEF SerialStep, consoleVars, SerialOps
      <3> QED
        BY <1>2, <2>1, <3>1, PagesKept DEF PageNotes
    <2>4. DisplayNotes' /\ HookLine'
      BY <1>3, <2>1 DEF DriverOps
    <2> QED
      BY <1>9, <2>1, <2>2, <2>3, <2>4 DEF SleepInv
  <1>6. CASE MouseStep
    <2>1. Within(MouseOps) /\ SelectLines' /\ Selecting' /\ MouseReading' /\ PortNotes'
      BY <1>1, <1>2, <1>6, MouseSleeps
    <2>2. PageNotes'
      <3>1. UNCHANGED <<keyTask, focusDev>> /\ "consoleRead" \notin MouseOps
        BY <1>6 DEF MouseStep, consoleVars, MouseOps
      <3> QED
        BY <1>2, <2>1, <3>1, PagesKept DEF PageNotes
    <2>3. DisplayNotes' /\ HookLine'
      BY <1>3, <2>1 DEF DriverOps, MouseOps, SerialOps
    <2> QED
      BY <1>9, <2>1, <2>2, <2>3 DEF SleepInv
  <1>7. CASE ConsoleStep
    <2>1. Within(ConsoleOps \cup {"select"}) /\ SelectLines' /\ Selecting' /\ PageNotes'
      BY <1>1, <1>2, <1>7, ConsoleSleeps
    <2>2. UNCHANGED <<mouseAt, serialVars>> /\ UNCHANGED pendVars
      BY <1>7 DEF ConsoleStep, mouseVars, readerState, serialVars
    <2>3. MouseReading' /\ PortNotes'
      <3>1. "serialRead" \notin ConsoleOps \cup {"select"} /\ (ConsoleOps \cup {"select"}) \cap SerialOps = {}
        BY DEF ConsoleOps, SerialOps
      <3> QED
        BY <1>2, <2>1, <2>2, <3>1, ReaderKept, PortsKept DEF Within
    <2>4. DisplayNotes' /\ HookLine'
      BY <1>3, <2>1 DEF DriverOps
    <2> QED
      BY <1>9, <2>1, <2>3, <2>4 DEF SleepInv
  <1>8. CASE DiskStep
    <2>1. Within(DiskOps) /\ SelectLines' /\ Selecting'
      BY <1>1, <1>2, <1>8, DiskSleeps
    <2>2. UNCHANGED <<mouseAt, keyTask, focusDev>> /\ UNCHANGED pendVars
      BY <1>8 DEF DiskStep, mouseVars, readerState, serialVars, consoleVars
    <2>3. "serialRead" \notin DiskOps /\ "consoleRead" \notin DiskOps /\ DiskOps \cap SerialOps = {}
      BY DEF DiskOps, SerialOps
    <2>4. MouseReading' /\ PortNotes'
      BY <1>2, <2>1, <2>2, <2>3, ReaderKept, PortsKept DEF Within
    <2>5. PageNotes'
      BY <1>2, <2>1, <2>2, <2>3, PagesKept DEF PageNotes
    <2>6. DisplayNotes' /\ HookLine'
      BY <1>3, <2>1 DEF DriverOps
    <2> QED
      BY <1>9, <2>1, <2>4, <2>5, <2>6 DEF SleepInv
  <1> QED
    BY <1>4, <1>5, <1>6, <1>7, <1>8 DEF DriverStep, DriversStep

\* The steps of the X11 library.
LEMMA X11Sleeps ==
    ASSUME WindowsInv, SleepInv, X11Step
    PROVE  SleepInv' /\ Within(XOps) /\ devices' = devices
  <1>0. Ready
    BY DEF WindowsInv
  <1>1. MovesOnly(XOps) /\ XOps \cap DriverOps = {} /\ XOps \cap HookOps = {}
    BY <1>0, X11Moves DEF XOps, DriverOps, SerialOps, ConsoleOps, DiskOps, HookOps
  <1>2. PICK t \in Tasks \ {MouseTask} : InstallXWindows(t) \/ RemoveXWindows(t) \/ WindowStep(t) \/ ColorStep(t)
    BY <1>0, ApplicationTasks DEF X11Step
  <1>3. UNCHANGED <<devices, selectVars, serialVars, mouseVars, consoleVars>> /\ idleSem' = idleSem
    <2>1. UNCHANGED <<selectVars, serialVars, mouseVars, consoleVars>> /\ idleSem' = idleSem
      BY DEF X11Step, libraryVars, hookVars
    <2>2. CASE WindowStep(t)
      <3>1. \/ XOpenDisplay(t) \/ walk(t) \/ destroyUnhook(t) \/ closeNext(t) \/ XCloseDisplay(t) \/ XNextEvent(t) \/ eventTake(t)
            \/ \E w \in Windows : \/ XMapWindow(t, w) \/ XUnmapWindow(t, w) \/ XDestroyWindow(t, w)
                                 \/ XSelectInput(t, w, TRUE) \/ XSendEvent(t, w)
                                 \/ \E parent, area : XCreateSimpleWindow(t, w, parent, area)
        BY <2>2 DEF WindowStep
      <3>2. ASSUME XOpenDisplay(t) \/ walk(t) \/ destroyUnhook(t) \/ closeNext(t) \/ XCloseDisplay(t) \/ XNextEvent(t) \/ eventTake(t)
            PROVE  devices' = devices
        BY <3>2 DEF XOpenDisplay, walk, destroyUnhook, closeNext, XCloseDisplay, XNextEvent, eventTake
      <3>3. ASSUME NEW w, XMapWindow(t, w) \/ XUnmapWindow(t, w) \/ XDestroyWindow(t, w) \/ XSelectInput(t, w, TRUE) \/ XSendEvent(t, w)
            PROVE  devices' = devices
        BY <3>3 DEF XMapWindow, XUnmapWindow, XDestroyWindow, XSelectInput, XSendEvent
      <3>4. ASSUME NEW w, NEW parent, NEW area, XCreateSimpleWindow(t, w, parent, area) PROVE devices' = devices
        BY <3>4 DEF XCreateSimpleWindow
      <3> QED
        BY <2>1, <3>1, <3>2, <3>3, <3>4
    <2>3. CASE InstallXWindows(t) \/ RemoveXWindows(t) \/ ColorStep(t)
      BY <2>1, <2>3 DEF InstallXWindows, RemoveXWindows, ColorStep, XAllocColorCells, XAllocColor, XStoreColor, XStoreColors
    <2> QED
      BY <1>2, <2>2, <2>3
  <1>4. DisplayNotes
    BY DEF SleepInv
  <1>5. DisplayNotes' /\ Within(XOps)
    <2>1. CASE WindowStep(t)
      BY <1>1, <1>4, <2>1, WindowSleeps DEF Within
    <2>2. CASE InstallXWindows(t) \/ RemoveXWindows(t) \/ ColorStep(t)
      <3>1. asleep' = asleep /\ displays' = displays
        BY <2>2 DEF InstallXWindows, RemoveXWindows, ColorStep, XAllocColorCells, XAllocColor, XStoreColor, XStoreColors,
                    windowVars
      <3>2. Within(XOps)
        BY <1>1, <3>1, QuietWithin
      <3>3. MovesOnly({})
        <4>1. Idle(t) /\ \E value : Leave(t, value)
          BY <2>2 DEF InstallXWindows, RemoveXWindows, ColorStep, XAllocColorCells, XAllocColor, XStoreColor, XStoreColors
        <4> QED
          BY <1>0, <4>1, OutMoves DEF X11Step
      <3>4. DisplayNotes'
        <4>1. Within({})
          BY <3>1, <3>3, QuietWithin
        <4> QED
          BY <1>4, <3>1, <4>1, DisplaysKept
      <3> QED
        BY <3>2, <3>4
    <2> QED
      BY <1>2, <2>1, <2>2
  <1>6. SelectLines' /\ Selecting' /\ MouseReading' /\ PortNotes' /\ PageNotes'
    BY <1>1, <1>3, <1>5, DriversAside DEF SleepInv
  <1>7. HookLine'
    BY <1>1, <1>3, <1>5, HookLineKept DEF SleepInv
  <1> QED
    BY <1>3, <1>5, <1>6, <1>7 DEF SleepInv

\* Those of libraries that nobody sleeps in.
LEMMA AwakeSteps ==
    ASSUME SleepInv, NEW ops \in {{}, {"fat"}}, MovesOnly(ops),
           UNCHANGED <<asleep, devices, selectVars, serialVars, mouseVars, consoleVars, displays, idleSem>>
    PROVE  SleepInv'
  <1>1. Within(ops) /\ ops \cap DriverOps = {} /\ ops \cap HookOps = {} /\ "event" \notin ops
    BY QuietWithin DEF DriverOps, SerialOps, ConsoleOps, DiskOps, HookOps
  <1>2. SelectLines' /\ Selecting' /\ MouseReading' /\ PortNotes' /\ PageNotes'
    BY <1>1, DriversAside DEF SleepInv
  <1>3. HookLine' /\ DisplayNotes'
    BY <1>1, HookLineKept, DisplaysKept DEF SleepInv
  <1> QED
    BY <1>2, <1>3 DEF SleepInv

\* All steps.
LEMMA SleepNext ==
    ASSUME IInv, WindowsInv, SleepInv, [Next]_vars
    PROVE  SleepInv'
  <1>0. Ready
    BY DEF WindowsInv
  <1>1. CASE UNCHANGED vars
    <2>1. UNCHANGED <<asleep, devices, selectVars, serialVars, mouseVars, consoleVars, displays, idleSem>>
          /\ linked' = linked /\ call' = call
      BY <1>1 DEF vars, driversVars, windowVars, libraryVars, hookVars
    <2> QED
      BY <1>0, <2>1, NoCall, AwakeSteps
  <1>2. CASE DriverStep
    BY <1>0, <1>2, DriverSleeps
  <1>3. CASE X11Step
    BY <1>3, X11Sleeps
  <1>4. CASE DrawingStep
    <2>1. UNCHANGED <<asleep, devices, selectVars, serialVars, mouseVars, consoleVars, displays, idleSem>>
      BY <1>4 DEF DrawingStep, windowVars, libraryVars, hookVars
    <2> QED
      BY <1>0, <1>4, <2>1, DrawingMoves, AwakeSteps
  <1>5. CASE LoaderStep
    <2>1. UNCHANGED <<asleep, devices, selectVars, serialVars, mouseVars, consoleVars, displays, idleSem>>
          /\ linked' = linked /\ call' = call
      BY <1>5 DEF LoaderStep, driversVars, windowVars, libraryVars, hookVars
    <2> QED
      BY <1>0, <2>1, NoCall, AwakeSteps
  <1>6. CASE KernelStep
    <2>1. UNCHANGED <<asleep, devices, selectVars, serialVars, mouseVars, consoleVars, displays, idleSem>>
      BY <1>6 DEF KernelStep, windowVars, hookVars
    <2> QED
      BY <1>0, <1>6, <2>1, KernelMoves, AwakeSteps
  <1>7. CASE IdleStep
    <2>1. UNCHANGED <<devices, selectVars, serialVars, mouseVars, consoleVars, displays>>
      BY <1>7 DEF IdleStep, windowVars
    <2>2. Within(HookOps) /\ HookLine'
      BY <1>0, <1>7, HookSleeps DEF SleepInv
    <2>3. HookOps \cap DriverOps = {} /\ "event" \notin HookOps
      BY DEF DriverOps, SerialOps, ConsoleOps, DiskOps, HookOps
    <2>4. SelectLines' /\ Selecting' /\ MouseReading' /\ PortNotes' /\ PageNotes'
      BY <2>1, <2>2, <2>3, DriversAside DEF SleepInv
    <2>5. DisplayNotes'
      BY <2>1, <2>2, <2>3, DisplaysKept DEF SleepInv
    <2> QED
      BY <2>2, <2>4, <2>5 DEF SleepInv
  <1> QED
    BY <1>1, <1>2, <1>3, <1>4, <1>5, <1>6, <1>7 DEF Next

\* At first all are awake.
LEMMA SleepInitial == ASSUME Init PROVE SleepInv
  <1>1. DriversInit /\ WindowsInit /\ HooksInit
    BY DEF Init
  <1>2. call = [t \in Tasks |-> Out] /\ asleep = {} /\ selList = [d \in Ids |-> NULL] /\ mouseTab = -1 /\ mouseAt = "none"
        /\ devices = [d \in Ids |-> IF d \in linked.others THEN Device("other", d) ELSE NULL]
    BY <1>1 DEF DriversInit, SelectInit, MouseInit
  <1>3. \A t \in Tasks : call[t].op = "out"
    BY <1>2 DEF Out
  <1>4. \A d \in Ids : Sel(d) = {}
    BY <1>3 DEF Sel
  <1>5. \A d \in Ids : Lined(d, selList[d], snext, sprev, Sel(d), Serves(d, "serial"))
    <2>1. ASSUME NEW d \in Ids PROVE Lined(d, selList[d], snext, sprev, Sel(d), Serves(d, "serial"))
      <3>1. PICK several : several = Serves(d, "serial")
        OBVIOUS
      <3>2. Lined(d, NULL, snext, sprev, {}, several)
        BY NoneLined
      <3> QED
        BY <1>2, <1>4, <3>1, <3>2
    <2> QED
      BY <2>1
  <1>6. ASSUME NEW d \in Ids, Serves(d, "mouse") PROVE FALSE
    <2>1. devices[d] # NULL /\ devices[d].drv = "mouse"
      BY <1>6 DEF Serves, deviceError, EDEVICEID, EBADDEV
    <2>2. devices[d] = Device("other", d)
      BY <1>2, <2>1
    <2> QED
      BY <2>1, <2>2 DEF Device
  <1>7. SelectLines
    BY <1>2, <1>4, <1>5, <1>6 DEF SelectLines
  <1>8. Selecting /\ MouseReading
    BY <1>2, <1>3, BytesAssumption DEF Selecting, MouseReading, Idle
  <1>9. PortNotes
    BY <1>1 DEF DriversInit, SerialInit, PortNotes
  <1>10. PageNotes
    BY <1>1, PageZero DEF DriversInit, ConsoleInit, PageNotes
  <1>11. DisplayNotes
    BY <1>1 DEF WindowsInit, DisplayNotes
  <1>12. HookLine
    <2>1. PICK line : line = <<>>
      OBVIOUS
    <2>2. line \in Seq(Tasks \cup {IdleTask}) /\ Len(line) = 0 /\ idleSem = [owner |-> NULL, line |-> line]
      BY <1>1, <2>1 DEF HooksInit
    <2> QED
      BY <2>2 DEF HookLine, InLine
  <1> QED
    BY <1>7, <1>8, <1>9, <1>10, <1>11, <1>12 DEF SleepInv

\* A driver finds on its list exactly the tasks that are in select() on its device.
THEOREM SelectHolds ==
    ASSUME ~Recreates, "reinstall" \notin Misuses, "walk" \notin Misuses
    PROVE  Spec => []SelectSound
  <1>1. Init => WindowsInv /\ SleepInv
    BY WindowsInitial, SleepInitial
  <1>2. WindowsInv /\ [Next]_vars => WindowsInv'
    BY WindowsNext
  <1>3. IInv /\ WindowsInv /\ SleepInv /\ [Next]_vars => SleepInv'
    BY SleepNext
  <1>4. SleepInv => SelectSound
    <2>1. SUFFICES ASSUME SleepInv PROVE SelectSound
      OBVIOUS
    <2>2. ASSUME NEW d \in Ids PROVE Listed(d) = {<<t, d>> : t \in {u \in Tasks : call[u].op = "select" /\ d \in call[u].on}}
      <3>1. Listed(d) = Sel(d) \X {d}
        BY <2>1, ListsSay DEF SleepInv
      <3>2. \A S : S \X {d} = {<<t, d>> : t \in S}
        OBVIOUS
      <3> QED
        BY <3>1, <3>2 DEF Sel
    <2> QED
      BY <2>1, <2>2 DEF SelectSound, SleepInv, Selecting, Runs
  <1> QED
    BY <1>1, <1>2, <1>3, <1>4, Invariant, PTL DEF Spec

-----------------------------------------------------------------------------
(* The idle hooks: all steps, and the theorem.                             *)

\* All steps.
LEMMA HooksNext ==
    ASSUME ~HooksEdit, IInv, WindowsInv, SleepInv, HooksHeld, [Next]_vars
    PROVE  HooksHeld'
  <1>0. Ready /\ HookLine
    BY DEF WindowsInv, SleepInv
  <1>1. ASSUME UNCHANGED <<hookVars, asleep>>, NEW ops, MovesOnly(ops), ops \cap HookOps = {} PROVE HooksHeld'
    BY <1>1, QuietWithin, HooksAside
  <1>2. CASE UNCHANGED vars
    <2>1. UNCHANGED <<hookVars, asleep>> /\ linked' = linked /\ call' = call
      BY <1>2 DEF vars, driversVars, libraryVars
    <2>2. MovesOnly({})
      BY <1>0, <2>1, NoCall
    <2> QED
      BY <1>1, <2>1, <2>2
  <1>3. CASE DriverStep
    <2>1. UNCHANGED hookVars
      BY <1>3 DEF DriverStep, libraryVars
    <2>2. PICK ops : Within(ops) /\ ops \subseteq DriverOps
      BY <1>0, <1>3, DriverSleeps
    <2>3. ops \cap HookOps = {}
      BY <2>2 DEF DriverOps, SerialOps, ConsoleOps, DiskOps, HookOps
    <2> QED
      BY <2>1, <2>2, <2>3, HooksAside
  <1>4. CASE X11Step
    <2>1. UNCHANGED hookVars
      BY <1>4 DEF X11Step, libraryVars
    <2>2. Within(XOps) /\ XOps \cap HookOps = {}
      BY <1>4, X11Sleeps DEF XOps, HookOps
    <2> QED
      BY <2>1, <2>2, HooksAside
  <1>5. CASE DrawingStep
    <2>1. UNCHANGED <<hookVars, asleep>>
      BY <1>5 DEF DrawingStep, libraryVars
    <2> QED
      BY <1>0, <1>1, <1>5, <2>1, DrawingMoves
  <1>6. CASE LoaderStep
    <2>1. UNCHANGED <<hookVars, asleep>> /\ linked' = linked /\ call' = call
      BY <1>6 DEF LoaderStep, driversVars, libraryVars
    <2>2. MovesOnly({})
      BY <1>0, <2>1, NoCall
    <2> QED
      BY <1>1, <2>1, <2>2
  <1>7. CASE KernelStep
    <2>1. UNCHANGED <<hookVars, asleep>>
      BY <1>7 DEF KernelStep
    <2>2. MovesOnly({}) \/ MovesOnly({"fat"})
      BY <1>0, <1>7, KernelMoves
    <2> QED
      BY <1>1, <2>1, <2>2 DEF HookOps
  <1>8. CASE IdleStep
    <2>1. ASSUME NEW t \in Tasks, NEW f \in Hooks \cup {NULL}, setIdleHook(t, f) \/ clearIdleHook(t, f) PROVE HooksHeld'
      BY <1>0, <2>1, GetsHooks
    <2>2. ASSUME NEW t \in Tasks, hookFind(t) \/ hookStore(t) PROVE HooksHeld'
      BY <1>0, <2>2, FindsHooks, StoresHooks
    <2>3. CASE idleGet \/ idleTest \/ idleCall
      BY <1>0, <2>3, RoundBegins, RoundTests, RoundCalls
    <2> QED
      BY <1>0, <1>8, <2>1, <2>2, <2>3, ApplicationTasks DEF IdleStep, HookStep
  <1> QED
    BY <1>2, <1>3, <1>4, <1>5, <1>6, <1>7, <1>8 DEF Next

\* At first the table is empty.
LEMMA HooksInitial == ASSUME Init PROVE HooksHeld
  <1>1. /\ idleHooks = [i \in HookEntries |-> NULL] /\ idleSem = [owner |-> NULL, line |-> <<>>]
        /\ idle = [at |-> "yield", i |-> 0] /\ hooked = [f \in Hooks |-> 0] /\ notRun = {}
        /\ call = [t \in Tasks |-> Out]
    BY DEF Init, HooksInit, DriversInit
  <1>2. NULL \notin Hooks /\ NULL # IdleTask
    BY HooksAssumption
  <1>3. HooksTable
    <2>1. \A f \in Hooks : At(f) = {}
      BY <1>1, <1>2 DEF At
    <2>2. Cardinality({}) = 0
      BY FS_EmptySet
    <2>3. \A f \in Hooks : Cardinality(At(f)) = hooked[f]
      BY <1>1, <2>1, <2>2
    <2>4. idleHooks \in [HookEntries -> Hooks \cup {NULL}] /\ hooked \in [Hooks -> Int]
      BY <1>1
    <2> QED
      BY <2>3, <2>4 DEF HooksTable
  <1>4. HooksRound
    BY <1>1, <1>2, HooksAssumption DEF HooksRound
  <1>5. HooksCalled
    <2>1. PICK line : line = <<>>
      OBVIOUS
    <2>2. idleSem.line = line /\ Len(line) = 0
      BY <1>1, <2>1
    <2>3. \A t \in Tasks : call[t].op \notin HookOps
      BY <1>1 DEF Out, HookOps
    <2> QED
      BY <2>1, <2>2, <2>3 DEF HooksCalled
  <1> QED
    BY <1>3, <1>4, <1>5 DEF HooksHeld

\* The idle task calls functions that are set, all of them in each round; the table holds
\* what was set and not cleared; and the idle task never waits for it.
THEOREM HooksHold ==
    ASSUME ~Recreates, ~HooksEdit, "reinstall" \notin Misuses, "walk" \notin Misuses
    PROVE  Spec => []HooksRun
  <1>1. Init => WindowsInv /\ SleepInv /\ HooksHeld
    BY WindowsInitial, SleepInitial, HooksInitial
  <1>2. WindowsInv /\ [Next]_vars => WindowsInv'
    BY WindowsNext
  <1>3. IInv /\ WindowsInv /\ SleepInv /\ [Next]_vars => SleepInv'
    BY SleepNext
  <1>4. IInv /\ WindowsInv /\ SleepInv /\ HooksHeld /\ [Next]_vars => HooksHeld'
    BY HooksNext
  <1>5. HooksHeld => HooksRun
    BY DEF HooksHeld, HooksTable, HooksRound, At, HooksRun
  <1> QED
    BY <1>1, <1>2, <1>3, <1>4, <1>5, Invariant, PTL DEF Spec

-----------------------------------------------------------------------------
(* The bytes of the ports.                                                 *)

\* A task that found a byte on port p, or was woken for one, is to take it: if the ends of the
\* ring meet, it is full
Taking(p) == \E t \in Tasks : Runs(t, "serialRead", "take") /\ call[t].port = p
Met(p) == IF Taking(p) THEN RingSize ELSE 0

\* The last byte that can be in the ring
NewestByte(p) == IF rbr[p] = 0 THEN arrived[p] ELSE arrived[p] - 1

\* Port p has no byte, or one that no interrupt announced
Announced(p) == head[p] = tail[p] \/ p \in quiet

\* One task at a time reads a port that is there, and one writes it; that of the mouse is
\* only read by its own task
PortCallers ==
    \A t \in Tasks : call[t].op \in SerialOps =>
        /\ call[t].port \in Ports /\ Created(call[t].port)
        /\ call[t].port = MousePort => (t = MouseTask \/ "mouse" \notin linked.drivers)
        /\ \A u \in Tasks : (call[u].op = call[t].op /\ call[u].port = call[t].port) => u = t

\* An id and the port it serves say the same of each other
PortIds == \A d \in Ids : Serves(d, "serial") => devices[d].unit \in Ports /\ serialTab[devices[d].unit] = d

\* The mouse task reads a port that is there
ReaderPort == mouseAt \in {"open", "check", "byte"} => Created(MousePort) /\ "mouse" \in linked.drivers

\* Every port has a ring
RingDomains ==
    /\ DOMAIN head = Ports /\ DOMAIN tail = Ports /\ DOMAIN ring = Ports /\ DOMAIN taken = Ports
    /\ DOMAIN arrived = Ports /\ DOMAIN rbr = Ports

\* The bytes in the ring came one after the other, after the one taken last
RingAt(p) ==
    /\ arrived[p] \in Nat /\ rbr[p] \in {0, arrived[p]}
    /\ Ringed(RingSize, head[p], tail[p], ring[p], taken[p], NewestByte(p), Met(p))

\* Nobody sleeps for a byte that was announced
QuietAt(p) ==
    /\ pendWhy[p] \in {"read", "write"}
    /\ Taking(p) /\ head[p] = tail[p] => p \in quiet
    /\ pendTask[p] # NULL /\ pendWhy[p] = "read" => Announced(p)

\* Nobody sleeps in select() for a byte that was announced
SelectQuiet ==
    \A t \in Tasks, d \in Ids : (t \in asleep /\ call[t].op = "select" /\ call[t].type = "read" /\ d \in call[t].on
                                    /\ Serves(d, "serial")) => Announced(devices[d].unit)

\* A task that is to write has an empty transmitter
Transmitters ==
    /\ txReady \subseteq thre
    /\ \A t \in Tasks : (call[t].op = "serialWrite" /\ call[t].at \in {"put", "woken"} /\ t \notin asleep) => call[t].port \in thre

\* What is in the rings of the ports, and who waits for it
ByteInv ==
    /\ PortCallers /\ PortIds /\ ReaderPort /\ RingDomains
    /\ \A p \in Ports : RingAt(p) /\ QuietAt(p)
    /\ SelectQuiet /\ Transmitters

\* The calls of ports go on or end, on ports that stay.
LEMMA CallersGoOn ==
    ASSUME PortCallers, linked' = linked,
           \A t \in Tasks : call'[t].op \in SerialOps =>
                call[t].op = call'[t].op /\ call[t].port = call'[t].port /\ serialTab'[call[t].port] >= 0
    PROVE  PortCallers'
  BY DEF PortCallers, Created

\* The ids stay.
LEMMA PortIdsStay ==
    ASSUME PortIds, NEW drv, drv # "serial", EntriesOf(drv), UNCHANGED serialTab
    PROVE  PortIds'
  BY DEF PortIds, EntriesOf, Serves, deviceError, EBADDEV, EDEVICEID

\* Whoever takes a byte goes on to.
LEMMA TakersStay ==
    ASSUME NEW p, \A t \in Tasks : (call[t].op = "serialRead" \/ call'[t].op = "serialRead") =>
                      /\ call'[t].op = call[t].op /\ call'[t].port = call[t].port
                      /\ (call[t].at = "take" \/ call'[t].at = "take") =>
                            call'[t].at = call[t].at /\ (t \in asleep' <=> t \in asleep)
    PROVE  Taking(p)' <=> Taking(p)
  BY DEF Taking, Runs

\* A port stays as it is.
PortStays(p) ==
    /\ head'[p] = head[p] /\ tail'[p] = tail[p] /\ ring'[p] = ring[p] /\ taken'[p] = taken[p]
    /\ arrived'[p] = arrived[p] /\ rbr'[p] = rbr[p]

\* Its ring ...
LEMMA RingStays ==
    ASSUME NEW p, RingAt(p), PortStays(p), Taking(p)' <=> Taking(p)
    PROVE  RingAt(p)'
  BY DEF RingAt, PortStays, NewestByte, Met

\* ... and who sleeps for it stay too.
LEMMA QuietStays ==
    ASSUME NEW p, QuietAt(p), PortStays(p), Taking(p)' <=> Taking(p), p \in quiet' <=> p \in quiet,
           pendTask'[p] \in {NULL, pendTask[p]}, pendWhy'[p] = pendWhy[p]
    PROVE  QuietAt(p)'
  BY DEF QuietAt, PortStays, Announced

\* Those who select go on sleeping, or begin to, where nothing was announced.
LEMMA SelectStays ==
    ASSUME SelectQuiet, SelectLines, PortIds, SleepersStay, NEW drv, EntriesOf(drv),
           \A p \in Ports : head[p] \in Slots /\ tail[p] \in Slots,
           \A p \in Ports : Announced(p) =>
                \/ Announced(p)'
                \/ \A d \in Ids : serialTab[p] = d => \A t \in Sel(d)' : t \in asleep' => call'[t].type # "read"
    PROVE  SelectQuiet'
  <1> SUFFICES ASSUME NEW t \in Tasks, NEW d \in Ids, t \in asleep', call'[t].op = "select", call'[t].type = "read",
                      d \in call'[t].on, Serves(d, "serial")'
               PROVE  Announced(devices[d].unit)'
    BY DEF SelectQuiet
  <1>0. t \in Sel(d)'
    BY DEF Sel
  <1>1. CASE t \in asleep /\ call'[t] = call[t]
    <2>1. t \in Sel(d)
      BY <1>1 DEF Sel
    <2>2. devices[d] # NULL
      BY <2>1, NewId
    <2>3. devices'[d] = devices[d]
      BY <2>2 DEF EntriesOf, Serves, deviceError, EBADDEV, EDEVICEID
    <2>4. Serves(d, "serial")
      BY <2>3 DEF Serves, deviceError
    <2>5. Announced(devices[d].unit) /\ devices[d].unit \in Ports /\ serialTab[devices[d].unit] = d
      BY <1>1, <2>4 DEF SelectQuiet, PortIds
    <2> QED
      BY <1>0, <2>3, <2>5
  <1>2. CASE devices' = devices /\ \A e \in call'[t].on : ~Readable(e)
    <2>1. Serves(d, "serial") /\ ~Readable(d)
      BY <1>2 DEF Serves, deviceError
    <2>2. PICK p \in Ports : p = devices[d].unit /\ serialNRead(p) = 0 /\ serialTab[p] = d
      BY <2>1 DEF Readable, PortIds
    <2>3. head[p] = tail[p]
      BY <2>2, RingAssumption DEF serialNRead, Slots
    <2>4. Announced(p)
      BY <2>3 DEF Announced
    <2>5. Announced(p)'
      BY <1>0, <2>2, <2>4
    <2> QED
      BY <1>2, <2>2, <2>5
  <1> QED
    BY <1>1, <1>2 DEF SleepersStay

\* What the serial driver keeps
portVars == <<serialTab, ringVars, pendVars, rxVars, txVars, taken, quiet>>

\* The ends of rings are slots.
LEMMA RingEnds == ASSUME ByteInv, NEW p \in Ports PROVE head[p] \in Slots /\ tail[p] \in Slots
  BY DEF ByteInv, RingAt, Ringed, Slots

\* No port changes.
LEMMA PortsStay ==
    ASSUME ByteInv, UNCHANGED portVars, \A p \in Ports : Taking(p)' <=> Taking(p)
    PROVE  RingDomains' /\ \A p \in Ports : RingAt(p)' /\ QuietAt(p)' /\ (Announced(p) => Announced(p)')
  <1>1. UNCHANGED <<head, tail, ring, taken, arrived, rbr, quiet, pendTask, pendWhy>>
    BY DEF portVars, ringVars, rxVars, pendVars
  <1>2. RingDomains'
    BY <1>1 DEF ByteInv, RingDomains
  <1>3. ASSUME NEW p \in Ports PROVE RingAt(p)' /\ QuietAt(p)' /\ (Announced(p) => Announced(p)')
    <2>1. PortStays(p)
      BY <1>1 DEF PortStays
    <2>2. RingAt(p) /\ QuietAt(p)
      BY DEF ByteInv
    <2> QED
      BY <1>1, <2>1, <2>2, RingStays, QuietStays DEF Announced
  <1> QED
    BY <1>2, <1>3

\* Whoever is in, or begins, a call of ops stays in it as it is
SameIn(ops) ==
    \A t \in Tasks : (call[t].op \in ops \/ call'[t].op \in ops) => call'[t] = call[t] /\ (t \in asleep' <=> t \in asleep)

\* Calls of other operations do not go on in a step within ops.
LEMMA SameWithin ==
    ASSUME NEW ops, Within(ops), NEW other, other \cap (ops \cup {"out"}) = {}
    PROVE  SameIn(other)
  BY OthersStay, OthersNew DEF SameIn

\* Steps elsewhere leave the ports alone.
LEMMA PortsAside ==
    ASSUME ByteInv, SelectLines, linked' = linked, UNCHANGED portVars, SleepersStay,
           NEW drv, drv # "serial", EntriesOf(drv), SameIn(SerialOps),
           mouseAt' \in {"open", "check", "byte"} => mouseAt \in {"open", "check", "byte"} \/ (Created(MousePort) /\ "mouse" \in linked.drivers)
    PROVE  ByteInv'
  <1>1. UNCHANGED <<serialTab, thre, txReady>>
    BY DEF portVars, txVars
  <1>2. ASSUME NEW t \in Tasks, call[t].op \in SerialOps \/ call'[t].op \in SerialOps
        PROVE  call'[t] = call[t] /\ (t \in asleep' <=> t \in asleep)
    BY <1>2 DEF SameIn
  <1>3. PortCallers'
    <2>1. \A t \in Tasks : call[t].op \in SerialOps => serialTab[call[t].port] >= 0
      BY DEF ByteInv, PortCallers, Created
    <2> QED
      BY <1>1, <1>2, <2>1, CallersGoOn DEF ByteInv
  <1>4. PortIds' /\ ReaderPort'
    BY <1>1, PortIdsStay DEF ByteInv, ReaderPort, Created
  <1>5. \A p \in Ports : Taking(p)' <=> Taking(p)
    BY <1>2 DEF Taking, Runs, SerialOps
  <1>6. RingDomains' /\ \A p \in Ports : RingAt(p)' /\ QuietAt(p)' /\ (Announced(p) => Announced(p)')
    BY <1>5, PortsStay
  <1>7. SelectQuiet'
    BY <1>6, SelectStays, RingEnds DEF ByteInv
  <1>8. Transmitters'
    BY <1>1, <1>2 DEF ByteInv, Transmitters, SerialOps
  <1> QED
    BY <1>3, <1>4, <1>6, <1>7, <1>8 DEF ByteInv

\* A call of a port begins.
LEMMA PortBegins ==
    ASSUME ByteInv, SelectLines, DOMAIN call = Tasks, linked' = linked, UNCHANGED <<devices, asleep, portVars>>,
           NEW t \in Tasks, Idle(t), NEW p \in Ports, Created(p), p = MousePort => (t = MouseTask \/ "mouse" \notin linked.drivers),
           NEW f, f.op \in SerialOps, f.port = p, f.at = "test", Enter(t, f),
           \A u \in Tasks : ~(call[u].op = f.op /\ call[u].port = p),
           mouseAt' \in {"open", "check", "byte"} => mouseAt \in {"open", "check", "byte"}
    PROVE  ByteInv'
  <1>1. UNCHANGED <<serialTab, thre, txReady>>
    BY DEF portVars, txVars
  <1>2. call'[t] = f /\ \A u \in Tasks \ {t} : call'[u] = call[u]
    BY DEF Enter
  <1>3. PortCallers'
    <2>1. ASSUME NEW u \in Tasks, call'[u].op \in SerialOps
          PROVE  /\ call'[u].port \in Ports /\ serialTab[call'[u].port] >= 0
                 /\ call'[u].port = MousePort => (u = MouseTask \/ "mouse" \notin linked.drivers)
                 /\ \A v \in Tasks : (call'[v].op = call'[u].op /\ call'[v].port = call'[u].port) => v = u
      <3>1. CASE u = t
        BY <1>2, <3>1 DEF Created
      <3>2. CASE u # t
        <4>1. call'[u] = call[u] /\ call[u].op \in SerialOps
          BY <1>2, <2>1, <3>2
        <4> QED
          BY <1>2, <4>1 DEF ByteInv, PortCallers, Created
      <3> QED
        BY <3>1, <3>2
    <2> QED
      BY <1>1, <2>1 DEF PortCallers, Created
  <1>4. PortIds' /\ ReaderPort'
    BY <1>1 DEF ByteInv, PortIds, Serves, deviceError, ReaderPort, Created
  <1>5. ASSUME NEW q \in Ports PROVE Taking(q)' <=> Taking(q)
    <2>1. \A u \in Tasks : (call'[u].op = "serialRead" /\ call'[u].at = "take") => u # t
      BY <1>2
    <2>2. \A u \in Tasks : call[u].op = "serialRead" => u # t
      BY DEF Idle
    <2> QED
      BY <1>2, <2>1, <2>2 DEF Taking, Runs
  <1>6. RingDomains' /\ \A q \in Ports : RingAt(q)' /\ QuietAt(q)' /\ (Announced(q) => Announced(q)')
    BY <1>5, PortsStay
  <1>7. SelectQuiet'
    <2>1. \A u \in Tasks : call'[u].op = "select" => call'[u] = call[u]
      BY <1>2 DEF SerialOps
    <2>2. SleepersStay /\ EntriesOf("none")
      BY <2>1 DEF SleepersStay, EntriesOf
    <2> QED
      BY <1>6, <2>2, SelectStays, RingEnds DEF ByteInv
  <1>8. Transmitters'
    <2>1. f.at \notin {"put", "woken"}
      OBVIOUS
    <2> QED
      BY <1>1, <1>2, <2>1 DEF ByteInv, Transmitters
  <1> QED
    BY <1>3, <1>4, <1>6, <1>7, <1>8 DEF ByteInv

\* A port's call goes on, and its port alone changes.
LEMMA PortGoesOn ==
    ASSUME ByteInv, SelectLines, DOMAIN call = Tasks, linked' = linked, UNCHANGED <<devices, serialTab, mouseAt>>,
           NEW t \in Tasks, call[t].op \in SerialOps, t \notin asleep,
           NEW f, call' = [call EXCEPT ![t] = f], f.op = "out" \/ (f.op = call[t].op /\ f.port = call[t].port),
           asleep' \in {asleep, asleep \cup {t}},
           \A p \in Ports : Announced(p) => Announced(p)'
    PROVE  PortCallers' /\ PortIds' /\ ReaderPort' /\ SelectQuiet' /\ \A p \in Ports \ {call[t].port} : Taking(p)' <=> Taking(p)
  <1>1. call'[t] = f /\ \A u \in Tasks \ {t} : call'[u] = call[u] /\ (u \in asleep' <=> u \in asleep)
    OBVIOUS
  <1>2. PortCallers'
    <2>1. \A u \in Tasks : call[u].op \in SerialOps => serialTab[call[u].port] >= 0
      BY DEF ByteInv, PortCallers, Created
    <2>2. ASSUME NEW u \in Tasks, call'[u].op \in SerialOps
          PROVE  call[u].op = call'[u].op /\ call[u].port = call'[u].port /\ serialTab'[call[u].port] >= 0
      BY <1>1, <2>1, <2>2 DEF SerialOps
    <2> QED
      BY <2>2, CallersGoOn DEF ByteInv
  <1>3. PortIds' /\ ReaderPort'
    BY DEF ByteInv, PortIds, Serves, deviceError, ReaderPort, Created
  <1>4. SelectQuiet'
    <2>1. \A u \in Tasks : call'[u].op = "select" => u # t
      BY <1>1 DEF SerialOps
    <2>2. SleepersStay /\ EntriesOf("none")
      BY <1>1, <2>1 DEF SleepersStay, EntriesOf
    <2> QED
      BY <2>2, SelectStays, RingEnds DEF ByteInv
  <1>5. ASSUME NEW p \in Ports \ {call[t].port} PROVE Taking(p)' <=> Taking(p)
    <2>1. ~(call[t].op = "serialRead" /\ call[t].port = p) /\ ~(call'[t].op = "serialRead" /\ call'[t].port = p)
      BY <1>1, <1>5
    <2> QED
      BY <1>1, <2>1 DEF Taking, Runs
  <1> QED
    BY <1>2, <1>3, <1>4, <1>5

\* A ring's size is one of the two that Met can be.
LEMMA MetIs == ASSUME NEW p PROVE /\ Met(p) \in {0, RingSize} /\ RingSize \in Nat /\ RingSize > 0
                                 /\ (Taking(p) => Met(p) = RingSize) /\ (~Taking(p) => Met(p) = 0)
  BY RingAssumption DEF Met

\* The newest byte is a number.
LEMMA NewestIs == ASSUME NEW p, RingAt(p) PROVE NewestByte(p) \in Nat
  BY DEF RingAt, NewestByte

\* The caller alone takes from its port.
LEMMA OneReader ==
    ASSUME PortCallers, NEW t \in Tasks, call[t].op = "serialRead"
    PROVE  Taking(call[t].port) <=> (t \notin asleep /\ call[t].at = "take")
  BY DEF PortCallers, SerialOps, Taking, Runs

\* What a call becomes: over, ...
LEMMA LeftFrame == ASSUME NEW t, NEW v, Leave(t, v) PROVE \E f : call' = [call EXCEPT ![t] = f] /\ f.op = "out"
  <1>1. [op |-> "out", got |-> v].op = "out"
    OBVIOUS
  <1> QED
    BY <1>1 DEF Leave

\* ... or further, in the same call.
LEMMA FurtherFrame ==
    ASSUME NEW t, NEW at, Goto(t, at) \/ Enter(t, [call[t] EXCEPT !.left = @ - 1, !.at = at])
    PROVE  \E f : call' = [call EXCEPT ![t] = f] /\ f.op = call[t].op /\ f.port = call[t].port /\ f.at = at
  <1>1. PICK c : c = call[t]
    OBVIOUS
  <1>2. CASE Goto(t, at)
    <2>1. [c EXCEPT !.at = at].op = c.op /\ [c EXCEPT !.at = at].port = c.port /\ [c EXCEPT !.at = at].at = at
      OBVIOUS
    <2>2. call' = [call EXCEPT ![t] = [c EXCEPT !.at = at]]
      BY <1>1, <1>2 DEF Goto
    <2> QED
      BY <1>1, <2>1, <2>2
  <1>3. CASE Enter(t, [call[t] EXCEPT !.left = @ - 1, !.at = at])
    <2> DEFINE f == [c EXCEPT !.left = @ - 1, !.at = at]
    <2>1. f.op = c.op /\ f.port = c.port /\ f.at = at
      OBVIOUS
    <2>2. call' = [call EXCEPT ![t] = f]
      BY <1>1, <1>3 DEF Enter
    <2> QED
      BY <1>1, <2>1, <2>2
  <1> QED
    BY <1>2, <1>3

\* read() finds a byte, or sleeps for one, or returns.
LEMMA ReadTests ==
    ASSUME ByteInv, SelectLines, PortNotes, DOMAIN call = Tasks, linked' = linked, UNCHANGED mouseAt,
           NEW t \in Tasks, readTest(t)
    PROVE  ByteInv'
  <1>1. PICK p \in Ports :
            /\ call[t].op = "serialRead" /\ t \notin asleep /\ call[t].at = "test" /\ call[t].port = p
            /\ \/ head[p] # tail[p] /\ Goto(t, "take") /\ UNCHANGED <<asleep, pendVars>>
               \/ /\ head[p] = tail[p]
                  /\ pendTask' = [pendTask EXCEPT ![p] = t] /\ pendWhy' = [pendWhy EXCEPT ![p] = "read"]
                  /\ asleep' = asleep \cup {t} /\ Goto(t, "take")
               \/ head[p] = tail[p] /\ Leave(t, 0) /\ UNCHANGED <<asleep, pendVars>>
            /\ UNCHANGED <<devices, serialTab, ringVars, rxVars, txVars, taken, quiet>>
    BY DEF readTest, Runs
  <1>2. UNCHANGED <<head, tail, ring, taken, arrived, rbr, quiet, thre, txReady, serialTab, devices>>
    BY <1>1 DEF ringVars, rxVars, txVars
  <1>3. PICK f : call' = [call EXCEPT ![t] = f] /\ (f.op = "out" \/ (f.op = "serialRead" /\ f.port = p))
    <2>1. CASE \E v : Leave(t, v)
      <3>1. PICK f : call' = [call EXCEPT ![t] = f] /\ f.op = "out"
        BY <2>1, LeftFrame
      <3> QED
        BY <3>1
    <2>2. CASE Goto(t, "take")
      <3>1. PICK f : call' = [call EXCEPT ![t] = f] /\ f.op = call[t].op /\ f.port = call[t].port /\ f.at = "take"
        BY <2>2, FurtherFrame, Zenon
      <3> QED
        BY <1>1, <3>1
    <2> QED
      BY <1>1, <2>1, <2>2
  <1>4. call'[t] = f /\ \A u \in Tasks \ {t} : call'[u] = call[u]
    BY <1>3
  <1>5. \A q \in Ports : Announced(q)' <=> Announced(q)
    BY <1>2 DEF Announced
  <1>6. PortCallers' /\ PortIds' /\ ReaderPort' /\ SelectQuiet' /\ \A q \in Ports \ {p} : Taking(q)' <=> Taking(q)
    <2>1. call[t].op \in SerialOps /\ asleep' \in {asleep, asleep \cup {t}}
      BY <1>1 DEF SerialOps
    <2> QED
      BY <1>1, <1>2, <1>3, <1>5, <2>1, PortGoesOn
  <1>7. ~Taking(p)
    BY <1>1, OneReader DEF ByteInv
  <1>8. PortStays(p) /\ RingAt(p) /\ QuietAt(p)
    BY <1>2 DEF PortStays, ByteInv
  <1>9. head[p] = tail[p] => ~Taking(p)'
    <2>1. \A u \in Tasks \ {t} : ~(call[u].op = "serialRead" /\ call[u].port = p)
      BY <1>1 DEF ByteInv, PortCallers, SerialOps
    <2>2. head[p] = tail[p] => t \in asleep' \/ call'[t].op = "out"
      <3>1. Leave(t, 0) => call'[t].op = "out"
        BY DEF Leave
      <3> QED
        BY <1>1, <3>1
    <2> QED
      BY <1>4, <2>1, <2>2 DEF Taking, Runs
  <1>10. RingAt(p)'
    <2>1. CASE head[p] = tail[p]
      BY <1>7, <1>8, <1>9, <2>1, RingStays
    <2>2. CASE head[p] # tail[p]
      <3>1. PICK m \in {0, RingSize} : m = Met(p)'
        BY RingAssumption DEF Met
      <3>2. Ringed(RingSize, head[p], tail[p], ring[p], taken[p], NewestByte(p), m)
        BY <1>8, <2>2, RingApart DEF RingAt
      <3>3. NewestByte(p)' = NewestByte(p)
        BY <1>2 DEF NewestByte
      <3> QED
        BY <1>2, <1>8, <3>1, <3>2, <3>3 DEF RingAt
    <2> QED
      BY <2>1, <2>2
  <1>11. QuietAt(p)'
    <2>1. CASE head[p] = tail[p]
      <3>1. pendWhy'[p] \in {"read", pendWhy[p]}
        BY <1>1 DEF PortNotes, pendVars
      <3> QED
        BY <1>2, <1>8, <1>9, <2>1, <3>1 DEF QuietAt, Announced
    <2>2. CASE head[p] # tail[p]
      <3>1. UNCHANGED <<pendTask, pendWhy>>
        BY <1>1, <2>2 DEF pendVars
      <3> QED
        BY <1>2, <1>5, <1>8, <2>2, <3>1 DEF QuietAt
    <2> QED
      BY <2>1, <2>2
  <1>12. ASSUME NEW q \in Ports \ {p} PROVE RingAt(q)' /\ QuietAt(q)'
    <2>1. PortStays(q) /\ RingAt(q) /\ QuietAt(q)
      BY <1>2 DEF PortStays, ByteInv
    <2>2. pendTask'[q] = pendTask[q] /\ pendWhy'[q] = pendWhy[q]
      BY <1>1 DEF PortNotes, pendVars
    <2> QED
      BY <1>2, <1>6, <2>1, <2>2, RingStays, QuietStays
  <1>13. RingDomains' /\ Transmitters'
    <2>1. \A u \in Tasks : call'[u].op = "serialWrite" => u # t
      BY <1>3, <1>4
    <2>2. \A u \in Tasks \ {t} : u \in asleep' <=> u \in asleep
      BY <1>1
    <2> QED
      BY <1>2, <1>4, <2>1, <2>2 DEF ByteInv, RingDomains, Transmitters
  <1> QED
    BY <1>6, <1>10, <1>11, <1>12, <1>13 DEF ByteInv

\* read() takes a byte, that nobody took.
LEMMA ReadTakes ==
    ASSUME ByteInv, SelectLines, PortNotes, DOMAIN call = Tasks, linked' = linked, UNCHANGED mouseAt,
           NEW t \in Tasks, readTake(t)
    PROVE  ByteInv'
  <1>1. PICK p \in Ports :
            /\ call[t].op = "serialRead" /\ t \notin asleep /\ call[t].at = "take" /\ call[t].port = p
            /\ tail' = [tail EXCEPT ![p] = After(@)] /\ taken' = [taken EXCEPT ![p] = ring[p][tail[p]]]
            /\ Enter(t, [call[t] EXCEPT !.left = @ - 1, !.at = "test"]) \/ Leave(t, 1)
            /\ UNCHANGED <<devices, asleep, serialTab, ring, head, pendVars, rxVars, txVars, quiet>>
    BY DEF readTake, Runs
  <1>2. UNCHANGED <<head, ring, arrived, rbr, quiet, thre, txReady, serialTab, devices, pendTask, pendWhy>>
    BY <1>1 DEF pendVars, rxVars, txVars
  <1>3. PICK f : /\ call' = [call EXCEPT ![t] = f]
                 /\ f.op = "out" \/ (f.op = "serialRead" /\ f.port = p /\ f.at = "test")
    <2>1. CASE \E v : Leave(t, v)
      <3>1. PICK f : call' = [call EXCEPT ![t] = f] /\ f.op = "out"
        BY <2>1, LeftFrame
      <3> QED
        BY <3>1
    <2>2. CASE Enter(t, [call[t] EXCEPT !.left = @ - 1, !.at = "test"])
      <3>1. PICK f : call' = [call EXCEPT ![t] = f] /\ f.op = call[t].op /\ f.port = call[t].port /\ f.at = "test"
        BY <2>2, FurtherFrame, Zenon
      <3> QED
        BY <1>1, <3>1
    <2> QED
      BY <1>1, <2>1, <2>2
  <1>4. call'[t] = f /\ \A u \in Tasks \ {t} : call'[u] = call[u]
    BY <1>3
  <1>5. Taking(p)
    BY <1>1, OneReader DEF ByteInv
  <1>6. ~Taking(p)'
    <2>1. \A u \in Tasks \ {t} : ~(call[u].op = "serialRead" /\ call[u].port = p)
      BY <1>1 DEF ByteInv, PortCallers, SerialOps
    <2>2. ~(call'[t].op = "serialRead" /\ call'[t].at = "take")
      BY <1>3, <1>4
    <2> QED
      BY <1>4, <2>1, <2>2 DEF Taking, Runs
  <1>7. RingAt(p) /\ QuietAt(p) /\ p \in DOMAIN tail /\ p \in DOMAIN taken
    BY DEF ByteInv, RingDomains
  <1>8. tail'[p] = After(tail[p]) /\ taken'[p] = ring[p][tail[p]]
    BY <1>1, <1>7
  <1>9. RingAt(p)'
    <2>1. Met(p) = RingSize /\ Met(p)' = 0 /\ RingSize \in Nat /\ RingSize > 0
      BY <1>5, <1>6, RingAssumption DEF Met
    <2>2. Ringed(RingSize, head[p], (tail[p] + 1) % RingSize, ring[p], ring[p][tail[p]], NewestByte(p), 0)
      BY <1>7, <2>1, NewestIs, RingTaken DEF RingAt
    <2>3. NewestByte(p)' = NewestByte(p)
      BY <1>2 DEF NewestByte
    <2> QED
      BY <1>2, <1>7, <1>8, <2>1, <2>2, <2>3 DEF RingAt, After
  <1>10. Announced(p) => p \in quiet
    BY <1>5, <1>7 DEF QuietAt, Announced
  <1>11. ASSUME NEW q \in Ports \ {p} PROVE PortStays(q) /\ RingAt(q) /\ QuietAt(q) /\ (Announced(q)' <=> Announced(q))
    BY <1>1, <1>2 DEF PortStays, ByteInv, RingDomains, Announced
  <1>12. \A q \in Ports : Announced(q) => Announced(q)'
    BY <1>2, <1>10, <1>11 DEF Announced
  <1>13. PortCallers' /\ PortIds' /\ ReaderPort' /\ SelectQuiet' /\ \A q \in Ports \ {p} : Taking(q)' <=> Taking(q)
    <2>1. call[t].op \in SerialOps
      BY <1>1 DEF SerialOps
    <2> QED
      BY <1>1, <1>2, <1>3, <1>12, <2>1, PortGoesOn
  <1>14. QuietAt(p)'
    <2>1. pendTask[p] # NULL /\ pendWhy[p] = "read" => Announced(p)'
      BY <1>7, <1>12 DEF QuietAt
    <2> QED
      BY <1>2, <1>6, <1>7, <2>1 DEF QuietAt
  <1>15. ASSUME NEW q \in Ports \ {p} PROVE RingAt(q)' /\ QuietAt(q)'
    BY <1>2, <1>11, <1>13, RingStays, QuietStays
  <1>16. RingDomains' /\ Transmitters'
    <2>1. \A u \in Tasks : call'[u].op = "serialWrite" => u # t
      BY <1>3, <1>4
    <2>2. asleep' = asleep /\ DOMAIN tail' = DOMAIN tail /\ DOMAIN taken' = DOMAIN taken
      BY <1>1
    <2> QED
      BY <1>2, <1>4, <2>1, <2>2 DEF ByteInv, RingDomains, Transmitters
  <1> QED
    BY <1>9, <1>13, <1>14, <1>15, <1>16 DEF ByteInv

\* A call of write() goes on, and changes at most what its port says of writing.
LEMMA WriterGoesOn ==
    ASSUME ByteInv, SelectLines, PortNotes, DOMAIN call = Tasks, linked' = linked, UNCHANGED mouseAt,
           NEW t \in Tasks, NEW p \in Ports, call[t].op = "serialWrite", call[t].port = p, t \notin asleep,
           NEW f, call' = [call EXCEPT ![t] = f], f.op = "out" \/ (f.op = "serialWrite" /\ f.port = p),
           asleep' \in {asleep, asleep \cup {t}},
           UNCHANGED pendVars \/ (pendTask' = [pendTask EXCEPT ![p] = t] /\ pendWhy' = [pendWhy EXCEPT ![p] = "write"]),
           UNCHANGED <<devices, serialTab, ringVars, rxVars, taken, quiet>>,
           txReady' \subseteq thre', thre \subseteq thre' \cup {p},
           (f.op = "serialWrite" /\ f.at \in {"put", "woken"} /\ t \notin asleep') => p \in thre'
    PROVE  ByteInv'
  <1>2. UNCHANGED <<head, tail, ring, taken, arrived, rbr, quiet, serialTab, devices>>
    BY DEF ringVars, rxVars
  <1>4. call'[t] = f /\ \A u \in Tasks \ {t} : call'[u] = call[u]
    OBVIOUS
  <1>5. \A q \in Ports : Announced(q)' <=> Announced(q)
    BY <1>2 DEF Announced
  <1>6. PortCallers' /\ PortIds' /\ ReaderPort' /\ SelectQuiet'
    <2>1. call[t].op \in SerialOps
      BY DEF SerialOps
    <2> QED
      BY <1>2, <1>5, <2>1, PortGoesOn
  <1>7. ASSUME NEW q \in Ports PROVE Taking(q)' <=> Taking(q)
    <2>1. call[t].op # "serialRead" /\ call'[t].op # "serialRead"
      BY <1>4
    <2>2. \A u \in Tasks \ {t} : u \in asleep' <=> u \in asleep
      OBVIOUS
    <2> QED
      BY <1>4, <2>1, <2>2 DEF Taking, Runs
  <1>8. ASSUME NEW q \in Ports PROVE RingAt(q)' /\ QuietAt(q)'
    <2>1. PortStays(q) /\ RingAt(q) /\ QuietAt(q)
      BY <1>2 DEF PortStays, ByteInv
    <2>2. RingAt(q)'
      BY <1>7, <2>1, RingStays
    <2>3. CASE pendTask'[q] = pendTask[q] /\ pendWhy'[q] = pendWhy[q]
      BY <1>2, <1>7, <2>1, <2>2, <2>3, QuietStays
    <2>4. CASE pendWhy'[q] = "write"
      BY <1>2, <1>7, <2>1, <2>2, <2>4 DEF QuietAt
    <2> QED
      BY <2>3, <2>4 DEF PortNotes, pendVars
  <1>9. Transmitters'
    <2>1. ASSUME NEW u \in Tasks, call'[u].op = "serialWrite", call'[u].at \in {"put", "woken"}, u \notin asleep'
          PROVE  call'[u].port \in thre'
      <3>1. CASE u = t
        BY <1>4, <2>1, <3>1
      <3>2. CASE u # t
        <4>1. call'[u] = call[u] /\ u \notin asleep
          BY <1>4, <2>1, <3>2
        <4>2. call[u].port \in thre /\ call[u].port # p
          BY <2>1, <3>2, <4>1 DEF ByteInv, Transmitters, PortCallers, SerialOps
        <4> QED
          BY <4>1, <4>2
      <3> QED
        BY <3>1, <3>2
    <2> QED
      BY <2>1 DEF Transmitters
  <1>10. RingDomains'
    BY <1>2 DEF ByteInv, RingDomains
  <1> QED
    BY <1>6, <1>8, <1>9, <1>10 DEF ByteInv

\* write() waits for the transmitter, and fills it.
LEMMA Writes ==
    ASSUME ByteInv, SelectLines, PortNotes, DOMAIN call = Tasks, linked' = linked, UNCHANGED mouseAt,
           NEW t \in Tasks, writeTest(t) \/ writeWoken(t) \/ writePut(t)
    PROVE  ByteInv'
  <1>0. txReady \subseteq thre
    BY DEF ByteInv, Transmitters
  <1>1. CASE writeTest(t)
    <2>1. PICK p \in Ports :
            /\ call[t].op = "serialWrite" /\ t \notin asleep /\ call[t].port = p
            /\ \/ p \in thre /\ Goto(t, "put") /\ UNCHANGED <<asleep, pendVars>>
               \/ /\ pendTask' = [pendTask EXCEPT ![p] = t] /\ pendWhy' = [pendWhy EXCEPT ![p] = "write"]
                  /\ asleep' = asleep \cup {t} /\ Goto(t, "woken")
               \/ Leave(t, 0) /\ UNCHANGED <<asleep, pendVars>>
            /\ UNCHANGED <<devices, serialTab, ringVars, rxVars, thre, txReady, taken, quiet>>
      BY <1>1 DEF writeTest, Runs
    <2>2. CASE \E at : /\ Goto(t, at) /\ (p \in thre \/ asleep' = asleep \cup {t}) /\ asleep' \in {asleep, asleep \cup {t}}
                       /\ UNCHANGED pendVars \/ (pendTask' = [pendTask EXCEPT ![p] = t] /\ pendWhy' = [pendWhy EXCEPT ![p] = "write"])
      <3>1. PICK at : Goto(t, at)
        BY <2>2
      <3>2. PICK f : call' = [call EXCEPT ![t] = f] /\ f.op = call[t].op /\ f.port = call[t].port
        BY <3>1, FurtherFrame, Zenon
      <3> QED
        BY <1>0, <2>1, <2>2, <3>2, WriterGoesOn
    <2>3. CASE Leave(t, 0) /\ UNCHANGED <<asleep, pendVars>>
      <3>1. PICK f : call' = [call EXCEPT ![t] = f] /\ f.op = "out"
        BY <2>3, LeftFrame
      <3> QED
        BY <1>0, <2>1, <2>3, <3>1, WriterGoesOn
    <2> QED
      BY <2>1, <2>2, <2>3
  <1>2. CASE writeWoken(t)
    <2>1. PICK p \in Ports :
            /\ call[t].op = "serialWrite" /\ t \notin asleep /\ call[t].port = p /\ call[t].at = "woken" /\ Goto(t, "put")
            /\ UNCHANGED <<asleep, devices, serialTab, ringVars, pendVars, rxVars, thre, txReady, taken, quiet>>
      BY <1>2 DEF writeWoken, Runs
    <2>2. PICK f : call' = [call EXCEPT ![t] = f] /\ f.op = call[t].op /\ f.port = call[t].port
      BY <2>1, FurtherFrame, Zenon
    <2>3. p \in thre
      BY <2>1 DEF ByteInv, Transmitters
    <2> QED
      BY <1>0, <2>1, <2>2, <2>3, WriterGoesOn
  <1>3. CASE writePut(t)
    <2>1. PICK p \in Ports :
            /\ call[t].op = "serialWrite" /\ t \notin asleep /\ call[t].port = p
            /\ Enter(t, [call[t] EXCEPT !.left = @ - 1, !.at = "test"]) \/ Leave(t, 0)
            /\ thre' = thre \ {p} /\ txReady' = txReady \ {p}
            /\ UNCHANGED <<asleep, devices, serialTab, ringVars, pendVars, rxVars, taken, quiet>>
      BY <1>3 DEF writePut, Runs
    <2>2. txReady' \subseteq thre' /\ thre \subseteq thre' \cup {p}
      BY <1>0, <2>1
    <2>3. CASE Enter(t, [call[t] EXCEPT !.left = @ - 1, !.at = "test"])
      <3>1. PICK f : call' = [call EXCEPT ![t] = f] /\ f.op = call[t].op /\ f.port = call[t].port /\ f.at = "test"
        BY <2>3, FurtherFrame, Zenon
      <3>2. f.op = "serialWrite" /\ f.port = p /\ f.at \notin {"put", "woken"}
        BY <2>1, <3>1
      <3> QED
        BY <2>1, <2>2, <3>1, <3>2, WriterGoesOn
    <2>4. CASE Leave(t, 0)
      <3>1. PICK f : call' = [call EXCEPT ![t] = f] /\ f.op = "out"
        BY <2>4, LeftFrame
      <3> QED
        BY <2>1, <2>2, <3>1, WriterGoesOn
    <2> QED
      BY <2>1, <2>3, <2>4
  <1> QED
    BY <1>1, <1>2, <1>3

\* What the lines of the ports do, before any handler runs.
LEMMA LinesMove ==
    ASSUME ByteInv, linked' = linked, UNCHANGED <<devices, call, asleep, serialTab, ringVars, pendVars, taken, quiet, mouseAt>>,
           RingDomains', \A p \in Ports : RingAt(p)', txReady' \subseteq thre', thre \subseteq thre'
    PROVE  ByteInv'
  <1>1. UNCHANGED <<head, tail, ring, pendTask, pendWhy>>
    BY DEF ringVars, pendVars
  <1>2. PortCallers' /\ PortIds' /\ ReaderPort'
    BY DEF ByteInv, PortCallers, PortIds, ReaderPort, Created, Serves, deviceError
  <1>3. \A p \in Ports : QuietAt(p)'
    BY <1>1 DEF ByteInv, QuietAt, Taking, Runs, Announced
  <1>4. SelectQuiet'
    BY <1>1 DEF ByteInv, SelectQuiet, Serves, deviceError, Announced
  <1>5. Transmitters'
    BY DEF ByteInv, Transmitters
  <1> QED
    BY <1>2, <1>3, <1>4, <1>5 DEF ByteInv

\* A byte arrives, the transmitter is done, a modem line changes.
LEMMA LineSteps ==
    ASSUME ByteInv, linked' = linked, UNCHANGED mouseAt, NEW p \in Ports, Arrives(p) \/ Transmitted(p) \/ ModemChanges(p)
    PROVE  ByteInv'
  <1>1. UNCHANGED <<devices, call, asleep, serialTab, ringVars, pendVars, taken, quiet>>
    BY DEF Arrives, Transmitted, ModemChanges
  <1>2. UNCHANGED <<head, tail, ring>>
    BY <1>1 DEF ringVars
  <1>3. \A q \in Ports : Met(q)' = Met(q)
    BY <1>1 DEF Met, Taking, Runs
  <1>4. txReady \subseteq thre
    BY DEF ByteInv, Transmitters
  <1>5. CASE Transmitted(p) \/ ModemChanges(p)
    <2>1. UNCHANGED <<arrived, rbr>> /\ txReady' \subseteq thre' /\ thre \subseteq thre'
      BY <1>4, <1>5 DEF Transmitted, ModemChanges, rxVars, txVars
    <2>2. RingDomains' /\ \A q \in Ports : RingAt(q)'
      BY <1>1, <1>2, <1>3, <2>1 DEF ByteInv, RingDomains, RingAt, NewestByte
    <2> QED
      BY <1>1, <2>1, <2>2, LinesMove
  <1>6. CASE Arrives(p)
    <2>1. arrived' = [arrived EXCEPT ![p] = @ + 1] /\ rbr' = [rbr EXCEPT ![p] = arrived'[p]] /\ UNCHANGED <<thre, txReady>>
      BY <1>6 DEF Arrives, txVars
    <2>2. RingDomains'
      BY <1>1, <1>2, <2>1 DEF ByteInv, RingDomains
    <2>3. ASSUME NEW q \in Ports PROVE RingAt(q)'
      <3>1. RingAt(q) /\ DOMAIN arrived = Ports /\ DOMAIN rbr = Ports
        BY DEF ByteInv, RingDomains
      <3>2. CASE q # p
        <4>1. arrived'[q] = arrived[q] /\ rbr'[q] = rbr[q]
          BY <2>1, <3>1, <3>2
        <4> QED
          BY <1>1, <1>2, <1>3, <3>1, <4>1 DEF RingAt, NewestByte
      <3>3. CASE q = p
        <4>1. PICK n \in Nat : n = arrived[p]
          BY <3>1, <3>3 DEF RingAt
        <4>2. arrived'[p] = n + 1 /\ rbr'[p] = n + 1
          BY <2>1, <3>1, <4>1
        <4>3. NewestByte(p)' = n
          BY <4>1, <4>2 DEF NewestByte
        <4>4. NewestByte(p) \in Nat /\ NewestByte(p) <= n
          BY <3>1, <3>3, <4>1 DEF RingAt, NewestByte
        <4>5. Ringed(RingSize, head[p], tail[p], ring[p], taken[p], n, Met(p))
          BY <3>1, <3>3, <4>1, <4>4, RingLater DEF RingAt
        <4> QED
          BY <1>1, <1>2, <1>3, <3>3, <4>1, <4>2, <4>3, <4>5 DEF RingAt
      <3> QED
        BY <3>2, <3>3
    <2> QED
      BY <1>1, <1>4, <2>1, <2>2, <2>3, LinesMove
  <1> QED
    BY <1>5, <1>6

\* What the handler of port p waits for, in read() or write().
Waits(p) == CASE iir(p) = "RXDATA" -> "read" [] iir(p) = "TXRDY" -> "write" [] OTHER -> "none"

\* Whom the handler wakes.
LEMMA TrapWakes ==
    ASSUME IInv, Ready, SelectLines, PortNotes, NEW p \in Ports, _serialTrap(p)
    PROVE  /\ DOMAIN call' = Tasks /\ asleep' = asleep \ Woken(p) /\ devices' = devices
           /\ \A t \in Tasks : call'[t].op = call[t].op /\ (call[t].op # "select" => call'[t] = call[t])
           /\ \A t \in Tasks : t \notin Woken(p) => call'[t] = call[t]
           /\ \A t \in Tasks : (call[t].op # "select" /\ t \in Woken(p)) =>
                t = pendTask[p] /\ pendWhy[p] = Waits(p) /\ call[t].port = p
           /\ (pendTask[p] # NULL /\ pendWhy[p] = Waits(p)) => pendTask[p] \in Woken(p)
           /\ \A t \in Sel(serialTab[p]) : call[t].type = Waits(p) => t \in Woken(p)
           /\ \A d \in Ids : Sel(d)' = Sel(d)
  <1>1. Notify(Woken(p), serialTab[p], call) /\ devices' = devices /\ serialTab[p] >= 0
    BY DEF _serialTrap, Created
  <1>2. serialTab[p] \in Ids
    BY <1>1 DEF IInv, Kept
  <1>3. Selectors(serialTab[p]) = Sel(serialTab[p])
    BY <1>2, ListsSay
  <1>4. asleep' = asleep \ Woken(p)
    BY <1>1 DEF Notify, Resume
  <1>5. Woken(p) = {t \in {pendTask[p]} \ {NULL} : pendWhy[p] = Waits(p)}
                      \cup {t \in Sel(serialTab[p]) : call[t].op = "select" /\ call[t].type = Waits(p)}
    BY <1>3 DEF Woken, Waits
  <1>6. DOMAIN call' = Tasks /\ \A t \in Tasks : t \notin Woken(p) => call'[t] = call[t]
    BY <1>1 DEF Notify
  <1>7. ASSUME NEW t \in Tasks
        PROVE  call'[t].op = call[t].op /\ (call[t].op # "select" => call'[t] = call[t])
               /\ (call[t].op = "select" => call'[t].op = "select" /\ call'[t].on = call[t].on)
    <2>1. CASE t \in Woken(p) /\ t \in asleep /\ call[t].op = "select"
      <3>1. PICK c : c = call[t]
        OBVIOUS
      <3>2. call'[t] = [c EXCEPT !.got = serialTab[p]]
        BY <1>1, <2>1, <3>1 DEF Notify
      <3>3. [c EXCEPT !.got = serialTab[p]].op = c.op /\ [c EXCEPT !.got = serialTab[p]].on = c.on
        OBVIOUS
      <3> QED
        BY <2>1, <3>1, <3>2, <3>3
    <2>2. CASE ~(t \in Woken(p) /\ t \in asleep /\ call[t].op = "select")
      <3>1. call'[t] = call[t]
        BY <1>1, <2>2 DEF Notify
      <3> QED
        BY <3>1
    <2> QED
      BY <2>1, <2>2
  <1>8. \A d \in Ids : Sel(d)' = Sel(d)
    BY <1>7 DEF Sel
  <1>9. ASSUME NEW t \in Tasks, call[t].op # "select", t \in Woken(p)
        PROVE  t = pendTask[p] /\ pendWhy[p] = Waits(p) /\ call[t].port = p
    <2>1. t = pendTask[p] /\ t # NULL /\ pendWhy[p] = Waits(p)
      BY <1>5, <1>9
    <2> QED
      BY <2>1 DEF PortNotes
  <1>10. \A t \in Sel(serialTab[p]) : call[t].type = Waits(p) => t \in Woken(p)
    BY <1>5 DEF Sel
  <1>11. (pendTask[p] # NULL /\ pendWhy[p] = Waits(p)) => pendTask[p] \in Woken(p)
    BY <1>5
  <1> QED
    BY <1>1, <1>4, <1>6, <1>7, <1>8, <1>9, <1>10, <1>11

\* What the handler of port p stores, if a byte is there.
LEMMA TrapStores ==
    ASSUME ByteInv, PortNotes, NEW p \in Ports, _serialTrap(p)
    PROVE  /\ RingDomains' /\ UNCHANGED <<tail, taken, serialTab, pendWhy, thre>>
           /\ \A q \in Ports \ {p} : PortStays(q) /\ (q \in quiet' <=> q \in quiet) /\ pendTask'[q] = pendTask[q]
           /\ txReady' \subseteq txReady
           /\ iir(p) = "TXRDY" => p \in txReady
           /\ pendTask'[p] \in {NULL, pendTask[p]} /\ (pendTask[p] \in Woken(p) => pendTask'[p] = NULL)
           /\ \/ PortStays(p) /\ iir(p) # "RXDATA" /\ (p \in quiet' <=> p \in quiet)
              \/ RingAt(p)' /\ (iir(p) # "RXDATA" \/ head'[p] = tail'[p] => p \in quiet')
  <1>1. PICK late \in {n \in {arrived[p] + 1} : rbr[p] = 0 /\ n <= MaxBytes} \cup {0} :
            /\ arrived' = [arrived EXCEPT ![p] = IF late = 0 THEN @ ELSE late]
            /\ rbr' = [rbr EXCEPT ![p] = 0]
            /\ IF rbr[p] + late # 0
               THEN /\ ring' = [ring EXCEPT ![p] = stored(p, rbr[p] + late)]
                    /\ head' = [head EXCEPT ![p] = After(@)]
               ELSE UNCHANGED <<ring, head>>
            /\ quiet' = IF rbr[p] + late # 0 /\ (iir(p) # "RXDATA" \/ After(head[p]) = tail[p])
                        THEN quiet \cup {p}
                        ELSE IF iir(p) = "RXDATA" THEN quiet \ {p} ELSE quiet
    BY DEF _serialTrap
  <1>2. /\ UNCHANGED <<tail, taken, serialTab, pendWhy, thre>>
        /\ pendTask' = [pendTask EXCEPT ![p] = IF @ \in Woken(p) THEN NULL ELSE @]
        /\ txReady' \in {txReady, txReady \ {p}}
    BY DEF _serialTrap
  <1>3. DOMAIN head = Ports /\ DOMAIN tail = Ports /\ DOMAIN ring = Ports /\ DOMAIN taken = Ports
        /\ DOMAIN arrived = Ports /\ DOMAIN rbr = Ports /\ DOMAIN pendTask = Ports
    BY DEF ByteInv, RingDomains, PortNotes
  <1>4. RingDomains'
    BY <1>1, <1>2, <1>3 DEF RingDomains
  <1>5. ASSUME NEW q \in Ports \ {p} PROVE PortStays(q) /\ (q \in quiet' <=> q \in quiet) /\ pendTask'[q] = pendTask[q]
    <2>1. head'[q] = head[q] /\ ring'[q] = ring[q] /\ arrived'[q] = arrived[q] /\ rbr'[q] = rbr[q]
      BY <1>1, <1>3
    <2>2. q \in quiet' <=> q \in quiet
      BY <1>1
    <2> QED
      BY <1>2, <1>3, <2>1, <2>2 DEF PortStays
  <1>6. iir(p) = "TXRDY" => p \in txReady
    BY DEF iir
  <1>7. pendTask'[p] = IF pendTask[p] \in Woken(p) THEN NULL ELSE pendTask[p]
    BY <1>2, <1>3
  <1>8. PICK a \in Nat : a = arrived[p] /\ RingAt(p)
    BY DEF ByteInv, RingAt
  <1>9. PICK r \in {0, a} : r = rbr[p]
    BY <1>8 DEF RingAt
  <1>10. late \in {0, a + 1} /\ (r # 0 => late = 0)
    BY <1>1, <1>8, <1>9
  <1>11. PICK new \in Nat : new = NewestByte(p) /\ new = IF r = 0 THEN a ELSE a - 1
    BY <1>8, <1>9 DEF NewestByte
  <1>12. CASE r + late = 0
    <2>1. late = 0 /\ r = 0
      BY <1>9, <1>10, <1>12
    <2>2. arrived'[p] = arrived[p] /\ rbr'[p] = rbr[p] /\ UNCHANGED <<ring, head>>
      BY <1>1, <1>3, <1>9, <2>1
    <2>3. PortStays(p)
      BY <1>2, <2>2 DEF PortStays
    <2>4. iir(p) # "RXDATA"
      BY <1>9, <2>1 DEF iir
    <2>5. quiet' = quiet
      BY <1>1, <1>9, <1>12, <2>4
    <2> QED
      BY <1>2, <1>4, <1>5, <1>6, <1>7, <2>3, <2>4, <2>5
  <1>13. CASE r + late # 0
    <2>1. PICK byte \in Nat : byte = r + late /\ byte > new
      BY <1>9, <1>10, <1>11, <1>13
    <2>2. arrived'[p] = byte /\ rbr'[p] = 0 /\ byte # 0
      BY <1>1, <1>3, <1>8, <1>9, <1>10, <1>13, <2>1
    <2>3. NewestByte(p)' = byte
      BY <2>2 DEF NewestByte
    <2>4. ring'[p] = [ring[p] EXCEPT ![head[p]] = byte] /\ head'[p] = (head[p] + 1) % RingSize
      BY <1>1, <1>3, <1>9, <1>13, <2>1 DEF stored, After
    <2>5. Met(p) \in {0, RingSize} /\ Met(p)' \in {0, RingSize} /\ RingSize \in Nat /\ RingSize > 0
      BY RingAssumption DEF Met
    <2>6. PICK m \in {0, RingSize}, m2 \in {0, RingSize} : m = Met(p) /\ m2 = Met(p)'
      BY <2>5
    <2>7. Ringed(RingSize, head[p], tail[p], ring[p], taken[p], new, m)
      BY <1>8, <1>11, <2>6 DEF RingAt
    <2>8. Ringed(RingSize, (head[p] + 1) % RingSize, tail[p], [ring[p] EXCEPT ![head[p]] = byte], taken[p], byte, m2)
      BY <2>1, <2>5, <2>7, RingStored
    <2>9. RingAt(p)'
      BY <1>2, <2>2, <2>3, <2>4, <2>6, <2>8 DEF RingAt
    <2>10. iir(p) # "RXDATA" \/ head'[p] = tail'[p] => p \in quiet'
      BY <1>1, <1>2, <1>3, <1>9, <1>13, <2>1 DEF After
    <2> QED
      BY <1>2, <1>4, <1>5, <1>6, <1>7, <2>9, <2>10
  <1> QED
    BY <1>12, <1>13

\* The handler keeps the bytes in turn, and wakes those who wait for what it found.
LEMMA TrapKeeps ==
    ASSUME IInv, Ready, linked' = linked, SelectLines, PortNotes, ByteInv, UNCHANGED mouseAt, NEW p \in Ports, _serialTrap(p)
    PROVE  ByteInv'
  <1>1. /\ DOMAIN call' = Tasks /\ asleep' = asleep \ Woken(p) /\ devices' = devices
        /\ \A t \in Tasks : call'[t].op = call[t].op /\ (call[t].op # "select" => call'[t] = call[t])
        /\ \A t \in Tasks : t \notin Woken(p) => call'[t] = call[t]
        /\ \A t \in Tasks : (call[t].op # "select" /\ t \in Woken(p)) =>
                t = pendTask[p] /\ pendWhy[p] = Waits(p) /\ call[t].port = p
        /\ (pendTask[p] # NULL /\ pendWhy[p] = Waits(p)) => pendTask[p] \in Woken(p)
        /\ \A t \in Sel(serialTab[p]) : call[t].type = Waits(p) => t \in Woken(p)
        /\ \A d \in Ids : Sel(d)' = Sel(d)
    BY TrapWakes
  <1>2. /\ RingDomains' /\ UNCHANGED <<tail, taken, serialTab, pendWhy, thre>>
        /\ \A q \in Ports \ {p} : PortStays(q) /\ (q \in quiet' <=> q \in quiet) /\ pendTask'[q] = pendTask[q]
        /\ txReady' \subseteq txReady
        /\ iir(p) = "TXRDY" => p \in txReady
        /\ pendTask'[p] \in {NULL, pendTask[p]} /\ (pendTask[p] \in Woken(p) => pendTask'[p] = NULL)
        /\ \/ PortStays(p) /\ iir(p) # "RXDATA" /\ (p \in quiet' <=> p \in quiet)
           \/ RingAt(p)' /\ (iir(p) # "RXDATA" \/ head'[p] = tail'[p] => p \in quiet')
    BY TrapStores
  <1>3. /\ iir(p) = "RXDATA" => Waits(p) = "read"
        /\ iir(p) # "RXDATA" => Waits(p) # "read"
        /\ iir(p) # "TXRDY" => Waits(p) # "write"
        /\ (Waits(p) # "read" /\ iir(p) # "TXRDY") => Waits(p) = "none"
    BY DEF Waits
  <1>4. PortCallers' /\ PortIds' /\ ReaderPort'
    <2>1. \A t \in Tasks : call[t].op \in SerialOps => serialTab[call[t].port] >= 0
      BY DEF ByteInv, PortCallers, Created
    <2>2. ASSUME NEW t \in Tasks, call'[t].op \in SerialOps
          PROVE  call[t].op = call'[t].op /\ call[t].port = call'[t].port /\ serialTab'[call[t].port] >= 0
      <3>1. call'[t] = call[t]
        BY <1>1, <2>2 DEF SerialOps
      <3> QED
        BY <1>2, <2>1, <2>2, <3>1
    <2>3. PortCallers'
      BY <2>2, CallersGoOn DEF ByteInv
    <2>4. PortIds' /\ ReaderPort'
      BY <1>1, <1>2 DEF ByteInv, PortIds, Serves, deviceError, ReaderPort, Created
    <2> QED
      BY <2>3, <2>4
  <1>5. ASSUME NEW q \in Ports, q # p \/ iir(p) # "RXDATA" PROVE Taking(q)' <=> Taking(q)
    <2>1. ASSUME NEW t \in Tasks, call[t].op = "serialRead" \/ call'[t].op = "serialRead", call[t].port = q \/ call'[t].port = q
          PROVE  call'[t] = call[t] /\ (t \in asleep' <=> t \in asleep)
      <3>1. call[t].op = "serialRead" /\ call'[t] = call[t]
        BY <1>1, <2>1
      <3>2. t \notin Woken(p)
        <4>1. t \in Woken(p) => t = pendTask[p] /\ pendWhy[p] = Waits(p) /\ q = p
          BY <1>1, <2>1, <3>1
        <4>2. t = pendTask[p] => pendWhy[p] = "read"
          BY <3>1, NoTask DEF PortNotes
        <4> QED
          BY <1>3, <1>5, <4>1, <4>2
      <3> QED
        BY <1>1, <3>1, <3>2
    <2> QED
      BY <2>1 DEF Taking, Runs
  <1>6. \A q \in Ports : RingAt(q) /\ QuietAt(q)
    BY DEF ByteInv
  <1>7. ASSUME NEW q \in Ports \ {p} PROVE RingAt(q)' /\ QuietAt(q)' /\ (Announced(q) => Announced(q)')
    <2>1. PortStays(q) /\ (q \in quiet' <=> q \in quiet) /\ pendTask'[q] = pendTask[q] /\ pendWhy'[q] = pendWhy[q]
      BY <1>2
    <2>2. Taking(q)' <=> Taking(q)
      BY <1>5
    <2> QED
      BY <1>6, <2>1, <2>2, RingStays, QuietStays DEF Announced, PortStays
  <1>8. RingAt(p)' /\ QuietAt(p)' /\ (iir(p) # "RXDATA" => (Announced(p) => Announced(p)'))
    <2>1. CASE PortStays(p) /\ iir(p) # "RXDATA" /\ (p \in quiet' <=> p \in quiet)
      <3>1. Taking(p)' <=> Taking(p)
        BY <1>5, <2>1
      <3> QED
        BY <1>2, <1>6, <2>1, <3>1, RingStays, QuietStays DEF Announced, PortStays
    <2>2. CASE RingAt(p)' /\ (iir(p) # "RXDATA" \/ head'[p] = tail'[p] => p \in quiet')
      <3>1. iir(p) # "RXDATA" => Announced(p)'
        BY <2>2 DEF Announced
      <3>2. (pendTask'[p] # NULL /\ pendWhy'[p] = "read") => iir(p) # "RXDATA"
        BY <1>1, <1>2, <1>3
      <3>3. QuietAt(p)'
        BY <1>2, <1>6, <2>2, <3>1, <3>2 DEF QuietAt
      <3> QED
        BY <2>2, <3>1, <3>3
    <2> QED
      BY <1>2, <2>1, <2>2
  <1>9. SelectQuiet'
    <2>1. SleepersStay
      <3>1. Notify(Woken(p), serialTab[p], call)
        BY DEF _serialTrap
      <3> QED
        BY <3>1, SleepersNotified
    <2>2. EntriesOf("none")
      BY <1>1 DEF EntriesOf
    <2>3. iir(p) = "RXDATA" => \A d \in Ids : serialTab[p] = d => \A t \in Sel(d)' : t \in asleep' => call'[t].type # "read"
      <3>1. ASSUME iir(p) = "RXDATA", NEW d \in Ids, serialTab[p] = d, NEW t \in Sel(d)', t \in asleep' PROVE call'[t].type # "read"
        <4>1. t \in Sel(d) /\ t \notin Woken(p) /\ t \in Tasks
          BY <1>1, <3>1 DEF Sel
        <4>2. call'[t] = call[t] /\ call[t].type # "read"
          BY <1>1, <1>3, <3>1, <4>1
        <4> QED
          BY <4>2
      <3> QED
        BY <3>1
    <2>4. ASSUME NEW q \in Ports, Announced(q)
          PROVE  \/ Announced(q)'
                 \/ \A d \in Ids : serialTab[q] = d => \A t \in Sel(d)' : t \in asleep' => call'[t].type # "read"
      <3>1. CASE q # p
        BY <1>7, <2>4, <3>1
      <3>2. CASE q = p
        BY <1>8, <2>3, <2>4, <3>2
      <3> QED
        BY <3>1, <3>2
    <2> QED
      BY <2>1, <2>2, <2>4, SelectStays, RingEnds DEF ByteInv
  <1>10. Transmitters'
    <2>1. txReady' \subseteq thre'
      BY <1>2 DEF ByteInv, Transmitters
    <2>2. ASSUME NEW t \in Tasks, call'[t].op = "serialWrite", call'[t].at \in {"put", "woken"}, t \notin asleep'
          PROVE  call'[t].port \in thre'
      <3>1. call'[t] = call[t] /\ call[t].op = "serialWrite"
        BY <1>1, <2>2
      <3>2. CASE t \notin asleep
        BY <1>2, <2>2, <3>1, <3>2 DEF ByteInv, Transmitters
      <3>3. CASE t \in asleep
        <4>1. t = pendTask[p] /\ pendWhy[p] = Waits(p) /\ call[t].port = p
          BY <1>1, <2>2, <3>1, <3>3
        <4>2. pendWhy[p] # "read"
          BY <3>1, <4>1, NoTask DEF PortNotes
        <4>3. pendTask[p] # NULL /\ iir(p) = "TXRDY"
          <5>1. Waits(p) \in {"read", "write", "none"}
            BY DEF Waits
          <5>2. pendWhy[p] \in {"read", "write"}
            BY <1>6 DEF QuietAt
          <5> QED
            BY <1>3, <4>1, <4>2, <5>1, <5>2, NoTask
        <4> QED
          BY <1>2, <3>1, <4>1, <4>3 DEF ByteInv, Transmitters
      <3> QED
        BY <3>2, <3>3
    <2> QED
      BY <2>1, <2>2 DEF Transmitters
  <1> QED
    BY <1>2, <1>4, <1>7, <1>8, <1>9, <1>10 DEF ByteInv

\* Whoever is in a call of a port stays, and so does the port.
LEMMA PortUsers ==
    ASSUME PortCallers, linked' = linked, UNCHANGED call,
           \A t \in Tasks : call[t].op \in SerialOps => serialTab'[call[t].port] = serialTab[call[t].port]
    PROVE  PortCallers'
  BY DEF PortCallers, Created

\* A port is created, with an empty ring, ...
LEMMA PortCreated ==
    ASSUME IInv, ByteInv, SelectLines, PortNotes, linked' = linked, UNCHANGED mouseAt, NEW t \in Tasks,
           NEW p \in Ports, NEW m, createSerial(t, p, m)
    PROVE  ByteInv'
  <1>1. /\ ~Created(p) /\ newIOSysDevice(-1, Device("serial", p)) /\ serialTab' = [serialTab EXCEPT ![p] = slot(-1)]
        /\ head' = [head EXCEPT ![p] = 0] /\ tail' = [tail EXCEPT ![p] = 0]
        /\ pendTask' = [pendTask EXCEPT ![p] = NULL] /\ quiet' = quiet \ {p}
        /\ UNCHANGED <<call, asleep, ring, pendWhy, arrived, rbr, thre, txReady, taken>>
    BY DEF createSerial, rxVars
  <1>2. /\ DOMAIN head = Ports /\ DOMAIN tail = Ports /\ DOMAIN ring = Ports /\ DOMAIN taken = Ports
        /\ DOMAIN arrived = Ports /\ DOMAIN rbr = Ports /\ DOMAIN pendTask = Ports /\ DOMAIN serialTab = Ports
    BY DEF ByteInv, RingDomains, PortNotes, IInv, TypesOK, TablesOK
  <1>3. /\ \A d \in Ids : devices'[d] # devices[d] =>
                d = slot(-1) /\ devices[d] = NULL /\ devices'[d] = Device("serial", p)
        /\ slot(-1) >= 0 => slot(-1) \in Ids /\ devices[slot(-1)] = NULL /\ devices'[slot(-1)] = Device("serial", p)
    <2>1. "serial" \in Drvs /\ p \in Units /\ TablesOK
      BY DEF Drvs, Units, IInv, TypesOK
    <2> QED
      BY <1>1, <2>1, NewDevice
  <1>4. RingDomains'
    BY <1>1, <1>2 DEF RingDomains
  <1>5. \A u \in Tasks : call[u].op \in SerialOps => call[u].port # p
    BY <1>1 DEF ByteInv, PortCallers
  <1>6. PortCallers'
    <2>1. \A u \in Tasks : call[u].op \in SerialOps => serialTab'[call[u].port] = serialTab[call[u].port]
      BY <1>1, <1>2, <1>5
    <2> QED
      BY <1>1, <2>1, PortUsers DEF ByteInv
  <1>7. PortIds'
    <2>1. ASSUME NEW d \in Ids, Serves(d, "serial")' PROVE devices'[d].unit \in Ports /\ serialTab'[devices'[d].unit] = d
      <3>1. CASE devices'[d] # devices[d]
        <4>1. d = slot(-1) /\ devices'[d] = Device("serial", p)
          BY <1>3, <3>1
        <4> QED
          BY <1>1, <1>2, <4>1, DeviceParts
      <3>2. CASE devices'[d] = devices[d]
        <4>1. Serves(d, "serial")
          BY <2>1, <3>2 DEF Serves, deviceError
        <4>2. devices[d].unit \in Ports /\ serialTab[devices[d].unit] = d
          BY <4>1 DEF ByteInv, PortIds
        <4>3. devices[d].unit # p
          BY <1>1, <4>2, DevsAssumption DEF Created, Ids
        <4> QED
          BY <1>1, <1>2, <3>2, <4>2, <4>3
      <3> QED
        BY <3>1, <3>2
    <2> QED
      BY <2>1 DEF PortIds
  <1>8. ReaderPort'
    BY <1>1, <1>2, BytesAssumption DEF ByteInv, ReaderPort, Created
  <1>9. ASSUME NEW q \in Ports PROVE RingAt(q)' /\ QuietAt(q)' /\ (Announced(q) => Announced(q)')
    <2>1. RingAt(q) /\ QuietAt(q) /\ (Taking(q)' <=> Taking(q))
      BY <1>1 DEF ByteInv, Taking, Runs
    <2>2. CASE q # p
      <3>1. PortStays(q) /\ pendTask'[q] = pendTask[q] /\ (q \in quiet' <=> q \in quiet)
        BY <1>1, <1>2, <2>2 DEF PortStays
      <3> QED
        BY <1>1, <2>1, <3>1, RingStays, QuietStays DEF Announced, PortStays
    <2>3. CASE q = p
      <3>1. ~Taking(p)' /\ head'[p] = 0 /\ tail'[p] = 0 /\ pendTask'[p] = NULL
        BY <1>1, <1>2, <1>5 DEF Taking, Runs, SerialOps
      <3>2. Met(p)' = 0 /\ RingSize \in Nat /\ RingSize > 0 /\ 0 \in 0 .. RingSize - 1
        BY <3>1, RingAssumption DEF Met
      <3>3. PICK n \in Nat : n = NewestByte(p)
        BY <2>1, <2>3, NewestIs
      <3>4. ring[p] \in [0 .. RingSize - 1 -> Nat] /\ taken[p] \in Nat /\ taken[p] <= n /\ \A i \in 0 .. RingSize - 1 : ring[p][i] <= n
        BY <2>1, <2>3, <3>3 DEF RingAt, Ringed
      <3>5. Ringed(RingSize, 0, 0, ring[p], taken[p], n, 0)
        BY <3>2, <3>4, RingEmpty
      <3>6. RingAt(p)'
        BY <1>1, <2>1, <2>3, <3>1, <3>2, <3>3, <3>5 DEF RingAt, NewestByte
      <3>7. QuietAt(p)' /\ Announced(p)'
        BY <1>1, <2>1, <2>3, <3>1 DEF QuietAt, Announced
      <3> QED
        BY <2>3, <3>6, <3>7
    <2> QED
      BY <2>2, <2>3
  <1>10. SelectQuiet'
    <2>1. SleepersStay
      BY <1>1 DEF SleepersStay
    <2>2. EntriesOf("serial")
      BY <1>3, DeviceParts DEF EntriesOf
    <2> QED
      BY <1>9, <2>1, <2>2, SelectStays, RingEnds DEF ByteInv
  <1>11. Transmitters'
    BY <1>1 DEF ByteInv, Transmitters
  <1> QED
    BY <1>4, <1>6, <1>7, <1>8, <1>9, <1>10, <1>11 DEF ByteInv

\* ... and ports that nobody uses are deleted.
LEMMA PortsDeleted ==
    ASSUME ByteInv, SelectLines, linked' = linked, UNCHANGED <<mouseAt, call, asleep, ringVars, pendVars, rxVars, thre, txReady, taken, quiet>>,
           NEW gone \in SUBSET Ports, \A p \in gone : ~InUse(p), MousePort \in gone => "mouse" \notin linked.drivers,
           \A p \in Ports \ gone : serialTab'[p] = serialTab[p],
           \A d \in Ids : devices'[d] = IF \E p \in gone : serialTab[p] = d THEN NULL ELSE devices[d]
    PROVE  ByteInv'
  <1>1. UNCHANGED <<head, tail, ring, arrived, rbr, pendTask, pendWhy>>
    BY DEF ringVars, rxVars, pendVars
  <1>2. PortCallers'
    <2>1. \A u \in Tasks : call[u].op \in SerialOps => call[u].port \in Ports \ gone
      BY DEF ByteInv, PortCallers, InUse, SerialOps
    <2> QED
      BY <2>1, PortUsers DEF ByteInv
  <1>3. PortIds'
    <2>1. ASSUME NEW d \in Ids, Serves(d, "serial")' PROVE devices'[d].unit \in Ports /\ serialTab'[devices'[d].unit] = d
      <3>1. devices'[d] # NULL
        BY <2>1 DEF Serves, deviceError, EBADDEV, EDEVICEID
      <3>2. devices'[d] = devices[d] /\ \A p \in gone : serialTab[p] # d
        BY <3>1
      <3>3. Serves(d, "serial")
        BY <2>1, <3>2 DEF Serves, deviceError
      <3>4. devices[d].unit \in Ports /\ serialTab[devices[d].unit] = d
        BY <3>3 DEF ByteInv, PortIds
      <3> QED
        BY <3>2, <3>4
    <2> QED
      BY <2>1 DEF PortIds
  <1>4. ReaderPort'
    BY BytesAssumption DEF ByteInv, ReaderPort, Created
  <1>5. \A q \in Ports : RingAt(q)' /\ QuietAt(q)' /\ (Announced(q) => Announced(q)')
    BY <1>1 DEF ByteInv, RingAt, QuietAt, NewestByte, Met, Taking, Runs, Announced
  <1>6. SelectQuiet'
    <2>1. SleepersStay /\ EntriesOf("serial")
      BY DEF SleepersStay, EntriesOf
    <2> QED
      BY <1>5, <2>1, SelectStays, RingEnds DEF ByteInv
  <1>7. RingDomains' /\ Transmitters'
    BY <1>1 DEF ByteInv, RingDomains, Transmitters
  <1> QED
    BY <1>2, <1>3, <1>4, <1>5, <1>6, <1>7 DEF ByteInv

\* The steps of the serial driver.
LEMMA SerialBytes ==
    ASSUME IInv, Ready, linked' = linked, SelectLines, PortNotes, ByteInv, SerialStep
    PROVE  ByteInv'
  <1>1. UNCHANGED mouseAt /\ DOMAIN call = Tasks
    BY DEF SerialStep, mouseVars, readerState, Ready, CallsOK
  <1>2. CASE \E t \in Tasks : readTest(t) \/ readTake(t) \/ writeTest(t) \/ writeWoken(t) \/ writePut(t)
    BY <1>1, <1>2, ReadTests, ReadTakes, Writes
  <1>3. CASE \E p \in Ports : Arrives(p) \/ Transmitted(p) \/ ModemChanges(p)
    BY <1>1, <1>3, LineSteps
  <1>4. CASE \E p \in Ports : _serialTrap(p)
    BY <1>1, <1>4, TrapKeeps
  <1>5. CASE \E t \in Tasks, p \in Ports, m \in {"BLK", "NBLK"} : createSerial(t, p, m)
    BY <1>1, <1>5, PortCreated
  <1>6. ASSUME NEW t \in Tasks, NEW p \in Ports, PortFree(p), deleteSerial(t, p) PROVE ByteInv'
    <2>1. /\ ~InUse(p) /\ deleteIOSysDevice(serialTab[p]) /\ serialTab' = [serialTab EXCEPT ![p] = -1]
          /\ UNCHANGED <<call, asleep, ringVars, pendVars, rxVars, thre, txReady, taken, quiet>>
      BY <1>6 DEF deleteSerial
    <2>2. PICK gone \in SUBSET Ports : gone = {p}
      OBVIOUS
    <2>3. \A d \in Ids : devices'[d] = IF \E q \in gone : serialTab[q] = d THEN NULL ELSE devices[d]
      BY <2>1, <2>2, OldDevice DEF IInv, TypesOK
    <2>4. \A q \in Ports \ gone : serialTab'[q] = serialTab[q]
      BY <2>1, <2>2 DEF IInv, TypesOK, TablesOK
    <2>5. (\A q \in gone : ~InUse(q)) /\ (MousePort \in gone => "mouse" \notin linked.drivers)
      BY <1>6, <2>1, <2>2 DEF PortFree
    <2> QED
      BY <1>1, <2>1, <2>3, <2>4, <2>5, PortsDeleted
  <1>7. ASSUME NEW t \in Tasks, \A p \in Ports : PortFree(p), removeSerial(t) PROVE ByteInv'
    <2>1. /\ \A p \in Ports : ~InUse(p)
          /\ devices' = [d \in Ids |-> IF \E p \in Ports : serialTab[p] = d THEN NULL ELSE devices[d]]
          /\ serialTab' = [p \in Ports |-> IF Created(p) THEN -1 ELSE serialTab[p]]
          /\ UNCHANGED <<call, asleep, ringVars, pendVars, rxVars, thre, txReady, taken, quiet>>
      BY <1>7 DEF removeSerial
    <2>2. PICK gone \in SUBSET Ports : gone = {p \in Ports : Created(p)}
      OBVIOUS
    <2>3. \A d \in Ids : devices'[d] = IF \E q \in gone : serialTab[q] = d THEN NULL ELSE devices[d]
      <3>1. \A d \in Ids, q \in Ports : serialTab[q] = d => q \in gone
        BY <2>2, DevsAssumption DEF Created, Ids
      <3> QED
        BY <2>1, <2>2, <3>1
    <2>4. \A q \in Ports \ gone : serialTab'[q] = serialTab[q]
      BY <2>1, <2>2
    <2>5. (\A q \in gone : ~InUse(q)) /\ (MousePort \in gone => "mouse" \notin linked.drivers)
      BY <1>7, <2>1, <2>2 DEF PortFree
    <2> QED
      BY <1>1, <2>1, <2>3, <2>4, <2>5, PortsDeleted
  <1> QED
    BY <1>2, <1>3, <1>4, <1>5, <1>6, <1>7, ApplicationTasks DEF SerialStep

\* The mouse wakes none but those who select on it.
LEMMA MouseWakes ==
    ASSUME Ready, SelectLines, Selecting, mouseTab \in Ids, Notify(Selectors(mouseTab), mouseTab, call),
           NEW ops, "select" \notin ops
    PROVE  SameIn(ops) /\ SleepersStay
  <1>1. Selectors(mouseTab) = Sel(mouseTab)
    BY ListsSay
  <1>2. \A t \in Selectors(mouseTab) \cap Tasks : call[t].op = "select" => mouseTab \in call[t].on
    BY <1>1 DEF Sel
  <1>3. /\ asleep' = asleep \ Selectors(mouseTab)
        /\ \A t \in Tasks : call'[t].op = call[t].op /\ (call[t].op # "select" => call'[t] = call[t])
    BY <1>2, SelectorsWoken
  <1>4. \A t \in Tasks : call[t].op # "select" => t \notin Selectors(mouseTab)
    BY <1>1 DEF Sel
  <1> QED
    BY <1>3, <1>4, SleepersNotified DEF SameIn

\* Making and deleting a mouse leaves the other devices.
LEMMA MouseEntries ==
    ASSUME IInv, NEW t, installMouse(t) \/ createMouse(t) \/ deleteMouse(t) \/ mouseDeleted(t)
    PROVE  EntriesOf("mouse")
  <1>1. TablesOK
    BY DEF IInv, TypesOK
  <1>2. CASE installMouse(t) \/ deleteMouse(t)
    BY <1>2 DEF installMouse, deleteMouse, EntriesOf
  <1>3. CASE createMouse(t)
    <2>1. newIOSysDevice(-1, Device("mouse", MousePort)) /\ "mouse" \in Drvs /\ MousePort \in Units
      BY <1>3, BytesAssumption DEF createMouse, Drvs, Units
    <2>2. \A d \in Ids : devices'[d] # devices[d] => devices[d] = NULL /\ devices'[d] = Device("mouse", MousePort)
      BY <1>1, <2>1, NewDevice
    <2> QED
      BY <2>2, DeviceParts DEF EntriesOf
  <1>4. CASE mouseDeleted(t)
    <2>1. \A d \in Ids : devices'[d] = IF d = mouseTab THEN NULL ELSE devices[d]
      BY <1>1, <1>4, OldDevice DEF mouseDeleted
    <2> QED
      BY <2>1 DEF EntriesOf
  <1> QED
    BY <1>2, <1>3, <1>4

\* The steps of the mouse.
LEMMA MouseBytes ==
    ASSUME IInv, Ready, linked' = linked, SelectLines, Selecting, MouseReading, ByteInv, MouseStep
    PROVE  ByteInv'
  <1>0. "mouse" \in linked.drivers /\ DOMAIN call = Tasks /\ MouseTask \in Tasks /\ MousePort \in Ports
    BY BytesAssumption DEF MouseStep, Ready, CallsOK
  <1>1. CASE \E t \in Applications : installMouse(t) \/ createMouse(t) \/ deleteMouse(t) \/ mouseDeleted(t)
    <2>1. PICK t \in Tasks \ {MouseTask} : installMouse(t) \/ createMouse(t) \/ deleteMouse(t) \/ mouseDeleted(t)
      BY <1>1, ApplicationTasks
    <2>2. EntriesOf("mouse")
      BY <2>1, MouseEntries
    <2>3. Within({"deleteMouse"})
      BY <2>1, MouseMade, QuietWithin
    <2>4. SleepersStay /\ SameIn(SerialOps)
      BY <2>3, SleepersWithin, SameWithin DEF SerialOps
    <2>5. UNCHANGED portVars
      BY <2>1 DEF installMouse, createMouse, deleteMouse, mouseDeleted, serialVars, portVars
    <2>6. mouseAt' \in {"open", "check", "byte"} => mouseAt \in {"open", "check", "byte"} \/ Created(MousePort)
      <3>1. mouseAt' = mouseAt \/ createMouse(t)
        BY <2>1 DEF installMouse, deleteMouse, mouseDeleted, mouseVars, readerState
      <3>2. createMouse(t) => serialTab[MousePort] \in Ids
        BY DEF createMouse, deviceError, EDEVICEID
      <3> QED
        BY <3>1, <3>2, DevsAssumption DEF Created, Ids
    <2> QED
      BY <1>0, <2>2, <2>4, <2>5, <2>6, PortsAside
  <1>2. CASE mouseReaderOpen
    <2>1. UNCHANGED <<devices, call, asleep, portVars>> /\ mouseAt = "open"
      BY <1>2 DEF mouseReaderOpen, Mouse, portVars
    <2>2. SleepersStay /\ SameIn(SerialOps) /\ EntriesOf("mouse")
      BY <2>1 DEF SleepersStay, SameIn, EntriesOf
    <2> QED
      BY <2>1, <2>2, PortsAside
  <1>3. CASE mouseReaderCheck
    <2> DEFINE f == [op |-> "serialRead", port |-> MousePort, left |-> 1, at |-> "test", got |-> 0]
    <2>1. /\ UNCHANGED <<devices, asleep, portVars>> /\ mouseAt = "check"
          /\ call' = call \/ Enter(MouseTask, f)
      BY <1>3 DEF mouseReaderCheck, Mouse, serialVars, portVars
    <2>2. f.op = "serialRead" /\ f.port = MousePort /\ f.at = "test"
      OBVIOUS
    <2> HIDE DEF f
    <2>3. CASE call' = call
      <3>1. SleepersStay /\ SameIn(SerialOps) /\ EntriesOf("mouse")
        BY <2>1, <2>3 DEF SleepersStay, SameIn, EntriesOf
      <3> QED
        BY <2>1, <3>1, PortsAside
    <2>4. CASE Enter(MouseTask, f)
      <3>1. Idle(MouseTask) /\ Created(MousePort)
        BY <2>1 DEF MouseReading, ByteInv, ReaderPort
      <3>2. \A u \in Tasks : ~(call[u].op = "serialRead" /\ call[u].port = MousePort)
        <4>1. ASSUME NEW u \in Tasks, call[u].op = "serialRead", call[u].port = MousePort PROVE FALSE
          <5>1. u = MouseTask
            BY <1>0, <4>1 DEF ByteInv, PortCallers, SerialOps
          <5> QED
            BY <3>1, <4>1, <5>1 DEF Idle
        <4> QED
          BY <4>1
      <3>3. f.op \in SerialOps
        BY <2>2 DEF SerialOps
      <3> QED
        BY <1>0, <2>1, <2>2, <2>4, <3>1, <3>2, <3>3, PortBegins
    <2> QED
      BY <2>1, <2>3, <2>4
  <1>4. CASE mouseReaderByte
    <2>1. /\ UNCHANGED <<devices, portVars>> /\ mouseAt = "byte"
          /\ UNCHANGED <<call, asleep>> \/ Notify(Selectors(mouseTab), mouseTab, call)
      BY <1>4 DEF mouseReaderByte, mouseDecode, serialVars, portVars
    <2>2. SleepersStay /\ SameIn(SerialOps)
      <3>1. CASE UNCHANGED <<call, asleep>>
        BY <2>1, <3>1 DEF SleepersStay, SameIn
      <3>2. CASE Notify(Selectors(mouseTab), mouseTab, call)
        <4>1. mouseTab \in Ids /\ "select" \notin SerialOps
          BY <2>1 DEF SelectLines, SerialOps
        <4> QED
          BY <3>2, <4>1, MouseWakes
      <3> QED
        BY <2>1, <3>1, <3>2
    <2>3. EntriesOf("mouse")
      BY <2>1 DEF EntriesOf
    <2> QED
      BY <2>1, <2>2, <2>3, PortsAside
  <1> QED
    BY <1>1, <1>2, <1>3, <1>4 DEF MouseStep

\* What the console driver keeps
pageVars == <<consoleTab, consoles, focusDev, readerVars, keyVars, keyTask, keyTaken, lapped>>

\* The calls that the rings are read by
ReadOps == SerialOps \cup {"consoleRead"}

\* A task that begins another call, or ends one, leaves those of the ports and pages.
LEMMA OtherCalls ==
    ASSUME NEW t \in Tasks, call[t].op \in {"out", "select"}, DOMAIN call = Tasks,
           NEW f, call' = [call EXCEPT ![t] = f], f.op \notin ReadOps, asleep' \in {asleep, asleep \cup {t}}
    PROVE  SameIn(ReadOps)
  <1>1. call'[t] = f /\ \A u \in Tasks \ {t} : call'[u] = call[u] /\ (u \in asleep' <=> u \in asleep)
    OBVIOUS
  <1>2. call[t].op \notin ReadOps
    BY DEF ReadOps, SerialOps
  <1> QED
    BY <1>1, <1>2 DEF SameIn

\* What a client call begins: read() or write() of a port, read() of a page, or neither.
LEMMA ClientCalls ==
    ASSUME Ready, Client
    PROVE  \E t \in Tasks \ {MouseTask} :
            \/ \E d \in Ids : \E n :
                /\ Serves(d, "serial") /\ PortFree(devices[d].unit)
                /\ serialRead(t, devices[d].unit, n) \/ serialWrite(t, devices[d].unit, n)
                /\ UNCHANGED <<pageVars, mouseAt>>
            \/ \E d \in Ids : \E n : Serves(d, "console") /\ consoleRead(t, devices[d].unit, n) /\ UNCHANGED <<portVars, mouseAt>>
            \/ UNCHANGED <<portVars, pageVars, mouseAt>> /\ SameIn(ReadOps)
  <1>1. PICK t \in Tasks \ {MouseTask} :
            \/ \E d \in Ids : \/ \E n \in 1 .. 2 : readDevice(t, d, n)
                              \/ writeDevice(t, d, 1)
                              \/ openDevice(t, d)
                              \/ ioctlDevice(t, d)
            \/ \E ds \in SUBSET Ids, type \in {"read", "write"} : select(t, type, ds)
            \/ selected(t)
    BY ApplicationTasks DEF Client
  <1>0. DOMAIN call = Tasks
    BY DEF Ready, CallsOK
  <1>2. ASSUME call' = call, asleep' = asleep PROVE SameIn(ReadOps)
    BY <1>2 DEF SameIn
  <1>3. ASSUME NEW v, call[t].op \in {"out", "select"}, Leave(t, v), asleep' = asleep PROVE SameIn(ReadOps)
    <2>1. PICK f : call' = [call EXCEPT ![t] = f] /\ f.op = "out"
      BY <1>3, LeftFrame
    <2> QED
      BY <1>0, <1>3, <2>1, OtherCalls DEF ReadOps, SerialOps
  <1>4. ASSUME NEW f, call[t].op = "out", Enter(t, f), f.op \notin ReadOps, asleep' \in {asleep, asleep \cup {t}} PROVE SameIn(ReadOps)
    BY <1>0, <1>4, OtherCalls DEF Enter
  <1>5. ASSUME NEW d \in Ids, NEW n, Serves(d, "serial"), PortFree(devices[d].unit), UNCHANGED <<consoleVars, mouseVars>>,
               serialRead(t, devices[d].unit, n) \/ serialWrite(t, devices[d].unit, n)
        PROVE  UNCHANGED <<pageVars, mouseAt>>
    BY <1>5 DEF pageVars, consoleVars, mouseVars, readerState
  <1>6. ASSUME NEW d \in Ids, NEW n, Serves(d, "console"), consoleRead(t, devices[d].unit, n), UNCHANGED <<serialVars, mouseVars>>
        PROVE  UNCHANGED <<portVars, mouseAt>>
    BY <1>6 DEF portVars, serialVars, mouseVars, readerState
  <1>7. ASSUME mouseRead(t), UNCHANGED consoleVars
        PROVE  UNCHANGED <<portVars, pageVars, mouseAt>> /\ SameIn(ReadOps)
    <2>1. UNCHANGED <<portVars, pageVars, mouseAt>>
      BY <1>7 DEF mouseRead, portVars, serialVars, mouseVars, readerState, pageVars, consoleVars
    <2> QED
      BY <1>3, <1>7, <2>1 DEF mouseRead, Idle
  <1>8. ASSUME NEW v, diskOpen(t, v) \/ (\E n : diskTransfer(t, v, n)), UNCHANGED <<serialVars, mouseVars, consoleVars>>
        PROVE  UNCHANGED <<portVars, pageVars, mouseAt>> /\ SameIn(ReadOps)
    <2>1. UNCHANGED <<portVars, pageVars, mouseAt>>
      BY <1>8 DEF portVars, serialVars, mouseVars, readerState, pageVars, consoleVars
    <2>2. call[t].op = "out" /\ asleep' = asleep
      BY <1>8 DEF diskOpen, diskTransfer, Idle
    <2>3. CASE diskOpen(t, v)
      BY <1>4, <2>1, <2>2, <2>3 DEF diskOpen, ReadOps, SerialOps
    <2>4. CASE \E n : diskTransfer(t, v, n)
      <3>1. PICK n : diskTransfer(t, v, n)
        BY <2>4
      <3> QED
        BY <1>4, <2>1, <2>2, <3>1 DEF diskTransfer, ReadOps, SerialOps
    <2> QED
      BY <1>8, <2>3, <2>4
  <1>9. ASSUME NEW d, ((\E m : serialIoctl(t, d, m)) /\ UNCHANGED <<consoleVars, mouseVars, diskVars>>)
                   \/ ((\E f : consoleIoctl(t, d, f)) /\ UNCHANGED <<serialVars, mouseVars, diskVars>>)
                   \/ ((\E ch : consoleWrite(t, d, ch)) /\ UNCHANGED <<serialVars, mouseVars, diskVars>>)
                   \/ ((\E m : mouseIoctl(t, m)) /\ UNCHANGED <<consoleVars, diskVars>>)
        PROVE  UNCHANGED <<portVars, pageVars, mouseAt>> /\ SameIn(ReadOps)
    <2>1. UNCHANGED <<portVars, mouseAt>>
      BY <1>9 DEF serialIoctl, consoleIoctl, consoleWrite, mouseIoctl, portVars, serialVars, mouseVars, readerState
    <2>2. UNCHANGED pageVars
      BY <1>9 DEF serialIoctl, consoleIoctl, consoleWrite, mouseIoctl, pageVars, consoleVars
    <2>3. UNCHANGED <<call, asleep>>
      BY <1>9 DEF serialIoctl, consoleIoctl, consoleWrite, mouseIoctl
    <2> QED
      BY <1>2, <2>1, <2>2, <2>3
  <1>10. ASSUME NEW ds, NEW type, select(t, type, ds)
         PROVE  UNCHANGED <<portVars, pageVars, mouseAt>> /\ SameIn(ReadOps)
    <2>1. UNCHANGED <<portVars, pageVars, mouseAt>>
      BY <1>10 DEF select, portVars, serialVars, mouseVars, readerState, pageVars, consoleVars
    <2>2. call[t].op = "out"
      BY <1>10 DEF select, Idle
    <2>3. CASE Leave(t, 0) /\ asleep' = asleep
      BY <1>3, <2>1, <2>2, <2>3
    <2>4. CASE asleep' = asleep \cup {t} /\ \E on : Enter(t, [op |-> "select", type |-> type, on |-> on, at |-> "woken", got |-> 0])
      <3>1. PICK on : Enter(t, [op |-> "select", type |-> type, on |-> on, at |-> "woken", got |-> 0])
        BY <2>4
      <3> QED
        BY <1>4, <2>1, <2>2, <2>4, <3>1 DEF ReadOps, SerialOps
    <2> QED
      BY <1>10, <2>3, <2>4 DEF select
  <1>11. CASE selected(t)
    <2>1. UNCHANGED <<portVars, pageVars, mouseAt>>
      BY <1>11 DEF selected, portVars, serialVars, mouseVars, readerState, pageVars, consoleVars
    <2>2. call[t].op = "select" /\ Leave(t, 0) /\ asleep' = asleep
      BY <1>11 DEF selected, Runs
    <2> QED
      BY <1>3, <2>1, <2>2
  <1>12. ASSUME NEW d \in Ids, NEW n \in 1 .. 2, readDevice(t, d, n)
         PROVE  \/ /\ Serves(d, "serial") /\ PortFree(devices[d].unit)
                   /\ serialRead(t, devices[d].unit, n)
                   /\ UNCHANGED <<pageVars, mouseAt>>
                \/ Serves(d, "console") /\ consoleRead(t, devices[d].unit, n) /\ UNCHANGED <<portVars, mouseAt>>
                \/ UNCHANGED <<portVars, pageVars, mouseAt>> /\ SameIn(ReadOps)
    BY <1>5, <1>6, <1>7, <1>8, <1>12 DEF readDevice
  <1>13. ASSUME NEW d \in Ids, writeDevice(t, d, 1)
         PROVE  \/ /\ Serves(d, "serial") /\ PortFree(devices[d].unit)
                   /\ serialWrite(t, devices[d].unit, 1)
                   /\ UNCHANGED <<pageVars, mouseAt>>
                \/ UNCHANGED <<portVars, pageVars, mouseAt>> /\ SameIn(ReadOps)
    BY <1>5, <1>9, <1>13 DEF writeDevice
  <1>14. ASSUME NEW d \in Ids, openDevice(t, d) \/ ioctlDevice(t, d)
         PROVE  UNCHANGED <<portVars, pageVars, mouseAt>> /\ SameIn(ReadOps)
    BY <1>8, <1>9, <1>14 DEF openDevice, ioctlDevice
  <1> QED
    BY <1>1, <1>10, <1>11, <1>12, <1>13, <1>14

\* The client calls.
LEMMA ClientBytes ==
    ASSUME ~SharedPorts, Ready, linked' = linked, SelectLines, ByteInv, Client
    PROVE  ByteInv'
  <1>0. DOMAIN call = Tasks
    BY DEF Ready, CallsOK
  <1>1. SleepersStay /\ devices' = devices
    BY ClientSleepers
  <1>2. PICK t \in Tasks \ {MouseTask} :
            \/ \E d \in Ids : \E n :
                /\ Serves(d, "serial") /\ PortFree(devices[d].unit)
                /\ serialRead(t, devices[d].unit, n) \/ serialWrite(t, devices[d].unit, n)
                /\ UNCHANGED <<pageVars, mouseAt>>
            \/ \E d \in Ids : \E n : Serves(d, "console") /\ consoleRead(t, devices[d].unit, n) /\ UNCHANGED <<portVars, mouseAt>>
            \/ UNCHANGED <<portVars, pageVars, mouseAt>> /\ SameIn(ReadOps)
    BY ClientCalls
  <1>3. ASSUME NEW d \in Ids, NEW n, Serves(d, "serial"), PortFree(devices[d].unit), mouseAt' = mouseAt,
               serialRead(t, devices[d].unit, n) \/ serialWrite(t, devices[d].unit, n)
        PROVE  ByteInv'
    <2>1. PICK p \in Ports : p = devices[d].unit /\ serialTab[p] = d
      BY <1>3 DEF ByteInv, PortIds
    <2>2. Created(p) /\ (p = MousePort => "mouse" \notin linked.drivers)
      BY <1>3, <2>1, DevsAssumption DEF Created, Ids, PortFree
    <2>3. PICK op \in SerialOps :
            /\ Idle(t) /\ Alone(p, op) /\ Enter(t, [op |-> op, port |-> p, left |-> n, at |-> "test", got |-> 0])
            /\ UNCHANGED <<devices, asleep, serialVars>>
      BY <1>3, <2>1 DEF serialRead, serialWrite, SerialOps
    <2>4. UNCHANGED portVars
      BY <2>3 DEF portVars, serialVars
    <2>5. \A u \in Tasks : ~(call[u].op = op /\ call[u].port = p)
      BY <2>3 DEF Alone
    <2> QED
      BY <1>0, <1>3, <2>2, <2>3, <2>4, <2>5, PortBegins
  <1>4. EntriesOf("none") /\ "none" # "serial"
    BY <1>1 DEF EntriesOf
  <1>5. ASSUME UNCHANGED <<portVars, mouseAt>>, SameIn(SerialOps) PROVE ByteInv'
    BY <1>1, <1>4, <1>5, PortsAside
  <1>6. ASSUME NEW d, NEW n, consoleRead(t, d, n) PROVE SameIn(SerialOps)
    <2>1. call[t].op = "out" /\ asleep' = asleep /\ Enter(t, [op |-> "consoleRead", page |-> d, size |-> n, cnt |-> 0, at |-> "test", got |-> 0])
      BY <1>6 DEF consoleRead, Idle
    <2>2. call'[t].op = "consoleRead" /\ \A u \in Tasks \ {t} : call'[u] = call[u]
      BY <1>0, <2>1 DEF Enter
    <2> QED
      BY <2>1, <2>2 DEF SameIn, SerialOps
  <1>7. SameIn(ReadOps) => SameIn(SerialOps)
    BY DEF SameIn, ReadOps
  <1> QED
    BY <1>2, <1>3, <1>5, <1>6, <1>7

-----------------------------------------------------------------------------
(* The keys of the pages.                                                  *)

\* A task that found a key on page p, or was woken for one, is to take it
KeyTaking(p) == \E t \in Tasks : Runs(t, "consoleRead", "take") /\ call[t].page = p
KeyMet(p) == IF KeyTaking(p) THEN KeyBufSize ELSE 0

\* The last key that can be in a buffer
NewestKey == IF readerAt = "store" THEN pressed - 1 ELSE pressed

\* When the keys in the buffer of page p were pressed
KeyNumbers(p) == [i \in KeySlots |-> keyBuf[p][i].n]

\* Page p has no key, or so many that they look like none
KeysHidden(p) == keyHead[p] = keyTail[p] \/ p \in lapped

\* One task at a time reads a page that is there
PageCallers ==
    \A t \in Tasks : call[t].op = "consoleRead" =>
        /\ call[t].page \in Pages /\ consoleTab[call[t].page] >= 0
        /\ \A u \in Tasks : (call[u].op = "consoleRead" /\ call[u].page = call[t].page) => u = t

\* An id and the page it serves say the same of each other
PageIds ==
    /\ \A d \in Ids : Serves(d, "console") => devices[d].unit \in Pages /\ consoleTab[devices[d].unit] = d
    /\ \A p \in Pages : consoleTab[p] >= 0 => consoles

\* The keyboard task has the key pressed last
ReaderKey == pressed \in Nat /\ (readerAt = "store" => pressed > 0 /\ keyRead.n = pressed)

\* Every page has a buffer
KeyDomains ==
    /\ DOMAIN keyHead = Pages /\ DOMAIN keyTail = Pages /\ DOMAIN keyBuf = Pages /\ DOMAIN keyTaken = Pages
    /\ \A p \in Pages : DOMAIN keyBuf[p] = KeySlots

\* The keys in the buffer were pressed one after the other, after the one taken last
KeysAt(p) == Ringed(KeyBufSize, keyHead[p], keyTail[p], KeyNumbers(p), keyTaken[p], NewestKey, KeyMet(p))

\* A task is to take a key that is there, and none sleeps on page p for one
KeyLappedAt(p) ==
    /\ KeyTaking(p) /\ keyHead[p] = keyTail[p] => p \in lapped
    /\ keyTask[p] # NULL => KeysHidden(p)

\* Nobody sleeps in select() for a key that is there
KeySelectQuiet ==
    \A t \in Tasks, d \in Ids : (t \in asleep /\ call[t].op = "select" /\ call[t].type = "read" /\ d \in call[t].on
                                    /\ Serves(d, "console")) => KeysHidden(devices[d].unit)

\* What is in the key buffers of the pages, and who waits for it
KeyInv ==
    /\ PageCallers /\ PageIds /\ ReaderKey /\ KeyDomains
    /\ \A p \in Pages : KeysAt(p) /\ KeyLappedAt(p)
    /\ KeySelectQuiet

\* One less than a positive number is a number.
LEMMA Previous == \A k \in Nat : k > 0 => k - 1 \in Nat
  OBVIOUS

\* The newest key is a number, ...
LEMMA NewestKeyIs == (ReaderKey => NewestKey \in Nat) /\ (ReaderKey' => NewestKey' \in Nat)
  <1>1. ReaderKey => NewestKey \in Nat
    BY Previous DEF ReaderKey, NewestKey
  <1>2. ReaderKey' => NewestKey' \in Nat
    <2>1. ASSUME ReaderKey' PROVE NewestKey' \in Nat
      <3>1. CASE readerAt' = "store"
        <4>1. PICK k \in Nat : k = pressed' /\ k > 0
          BY <2>1, <3>1 DEF ReaderKey
        <4>2. NewestKey' = k - 1
          BY <3>1, <4>1 DEF NewestKey
        <4>3. k - 1 \in Nat
          BY <4>1, Previous
        <4> QED
          BY <4>2, <4>3
      <3>2. CASE readerAt' # "store"
        BY <2>1, <3>2 DEF ReaderKey, NewestKey
      <3> QED
        BY <3>1, <3>2
    <2> QED
      BY <2>1
  <1> QED
    BY <1>1, <1>2

\* ... and a buffer's size one of the two that KeyMet can be.
LEMMA KeyMetIs == ASSUME NEW p PROVE /\ KeyMet(p) \in {0, KeyBufSize} /\ KeyBufSize \in Nat /\ KeyBufSize > 0
                                    /\ (KeyTaking(p) => KeyMet(p) = KeyBufSize) /\ (~KeyTaking(p) => KeyMet(p) = 0)
  BY KeysAssumption DEF KeyMet

\* The calls of pages go on or end, on pages that stay.
LEMMA KeyCallersGoOn ==
    ASSUME PageCallers,
           \A t \in Tasks : call'[t].op = "consoleRead" =>
                call[t].op = "consoleRead" /\ call[t].page = call'[t].page /\ consoleTab'[call[t].page] >= 0
    PROVE  PageCallers'
  BY DEF PageCallers

\* A page stays as it is, while keys may be pressed.
PageStays(p) ==
    keyHead'[p] = keyHead[p] /\ keyTail'[p] = keyTail[p] /\ keyBuf'[p] = keyBuf[p] /\ keyTaken'[p] = keyTaken[p]

\* Its keys ...
LEMMA KeysStay ==
    ASSUME NEW p \in Pages, KeysAt(p), PageStays(p), KeyTaking(p)' <=> KeyTaking(p), ReaderKey, ReaderKey', NewestKey <= NewestKey'
    PROVE  KeysAt(p)'
  <1>1. NewestKey \in Nat /\ NewestKey' \in Nat
    BY NewestKeyIs
  <1>2. Ringed(KeyBufSize, keyHead[p], keyTail[p], KeyNumbers(p), keyTaken[p], NewestKey', KeyMet(p))
    BY <1>1, RingLater DEF KeysAt
  <1>3. KeyNumbers(p)' = KeyNumbers(p) /\ KeyMet(p)' = KeyMet(p)
    BY DEF PageStays, KeyNumbers, KeyMet
  <1> QED
    BY <1>2, <1>3 DEF KeysAt, PageStays

\* ... and who sleeps for them stay too.
LEMMA LappedStays ==
    ASSUME NEW p, KeyLappedAt(p), PageStays(p), KeyTaking(p)' <=> KeyTaking(p), p \in lapped' <=> p \in lapped,
           keyTask'[p] \in {NULL, keyTask[p]}
    PROVE  KeyLappedAt(p)'
  BY DEF KeyLappedAt, PageStays, KeysHidden

\* Those who select go on sleeping, or begin to, where no key was there.
LEMMA KeySelectStays ==
    ASSUME KeySelectQuiet, SelectLines, PageIds, SleepersStay, NEW drv, EntriesOf(drv),
           \A p \in Pages : keyHead[p] \in KeySlots /\ keyTail[p] \in KeySlots,
           \A p \in Pages : KeysHidden(p) =>
                \/ KeysHidden(p)'
                \/ \A d \in Ids : consoleTab[p] = d => \A t \in Sel(d)' : t \in asleep' => call'[t].type # "read"
    PROVE  KeySelectQuiet'
  <1> SUFFICES ASSUME NEW t \in Tasks, NEW d \in Ids, t \in asleep', call'[t].op = "select", call'[t].type = "read",
                      d \in call'[t].on, Serves(d, "console")'
               PROVE  KeysHidden(devices[d].unit)'
    BY DEF KeySelectQuiet
  <1>0. t \in Sel(d)'
    BY DEF Sel
  <1>1. CASE t \in asleep /\ call'[t] = call[t]
    <2>1. t \in Sel(d)
      BY <1>1 DEF Sel
    <2>2. devices[d] # NULL
      BY <2>1, NewId
    <2>3. devices'[d] = devices[d]
      BY <2>2 DEF EntriesOf, Serves, deviceError, EBADDEV, EDEVICEID
    <2>4. Serves(d, "console")
      BY <2>3 DEF Serves, deviceError
    <2>5. KeysHidden(devices[d].unit) /\ devices[d].unit \in Pages /\ consoleTab[devices[d].unit] = d
      BY <1>1, <2>4 DEF KeySelectQuiet, PageIds
    <2> QED
      BY <1>0, <2>3, <2>5
  <1>2. CASE devices' = devices /\ \A e \in call'[t].on : ~Readable(e)
    <2>1. Serves(d, "console") /\ ~Readable(d)
      BY <1>2 DEF Serves, deviceError
    <2>2. PICK p \in Pages : p = devices[d].unit /\ consoleNRead(p) = 0 /\ consoleTab[p] = d
      BY <2>1 DEF Readable, PageIds
    <2>3. keyHead[p] = keyTail[p]
      BY <2>2, KeysAssumption DEF consoleNRead, KeySlots
    <2>4. KeysHidden(p)
      BY <2>3 DEF KeysHidden
    <2>5. KeysHidden(p)'
      BY <1>0, <2>2, <2>4
    <2> QED
      BY <1>2, <2>2, <2>5
  <1> QED
    BY <1>1, <1>2 DEF SleepersStay

\* The ends of buffers are slots.
LEMMA KeyEnds == ASSUME KeyInv, NEW p \in Pages PROVE keyHead[p] \in KeySlots /\ keyTail[p] \in KeySlots
  BY DEF KeyInv, KeysAt, Ringed, KeySlots

\* Those who read a page go on to.
LEMMA KeyTakersStay ==
    ASSUME NEW p, SameIn({"consoleRead"})
    PROVE  KeyTaking(p)' <=> KeyTaking(p)
  <1>1. ASSUME NEW t \in Tasks, call[t].op = "consoleRead" \/ call'[t].op = "consoleRead"
        PROVE  call'[t] = call[t] /\ (t \in asleep' <=> t \in asleep)
    BY <1>1 DEF SameIn
  <1> QED
    BY <1>1 DEF KeyTaking, Runs

\* No page changes, though a key may be pressed.
KeysStill == UNCHANGED <<keyVars, keyTask, keyTaken, lapped>>
\* Nothing happens to the pages and their keys
PagesStill == UNCHANGED <<consoleTab, consoles>> /\ KeysStill

\* Then who reads them and their ids stay.
LEMMA PagesKeep ==
    ASSUME KeyInv, KeysStill, ReaderKey', NewestKey <= NewestKey', \A p \in Pages : KeyTaking(p)' <=> KeyTaking(p)
    PROVE  KeyDomains' /\ \A p \in Pages : KeysAt(p)' /\ KeyLappedAt(p)' /\ (KeysHidden(p) => KeysHidden(p)')
  <1>1. UNCHANGED <<keyHead, keyTail, keyBuf, keyTaken, keyTask, lapped>>
    BY DEF KeysStill, keyVars
  <1>2. KeyDomains'
    BY <1>1 DEF KeyInv, KeyDomains
  <1>3. ASSUME NEW p \in Pages PROVE KeysAt(p)' /\ KeyLappedAt(p)' /\ (KeysHidden(p) => KeysHidden(p)')
    <2>1. PageStays(p)
      BY <1>1 DEF PageStays
    <2>2. KeysAt(p) /\ KeyLappedAt(p) /\ ReaderKey /\ (KeyTaking(p)' <=> KeyTaking(p))
      BY DEF KeyInv
    <2>3. KeysAt(p)'
      BY <2>1, <2>2, KeysStay
    <2>4. KeyLappedAt(p)'
      BY <1>1, <2>1, <2>2, LappedStays
    <2> QED
      BY <1>1, <2>3, <2>4 DEF KeysHidden
  <1> QED
    BY <1>2, <1>3

\* The ids stay.
LEMMA PageIdsStay ==
    ASSUME PageIds, NEW drv, drv # "console", EntriesOf(drv), UNCHANGED <<consoleTab, consoles>>
    PROVE  PageIds'
  BY DEF PageIds, EntriesOf, Serves, deviceError, EBADDEV, EDEVICEID

\* Steps elsewhere, and keys that are pressed, leave the pages alone.
LEMMA PagesAside ==
    ASSUME KeyInv, SelectLines, PagesStill, ReaderKey', NewestKey <= NewestKey', SleepersStay,
           NEW drv, drv # "console", EntriesOf(drv), SameIn({"consoleRead"})
    PROVE  KeyInv'
  <1>1. UNCHANGED <<consoleTab, consoles>>
    BY DEF PagesStill
  <1>2. \A p \in Pages : KeyTaking(p)' <=> KeyTaking(p)
    BY KeyTakersStay
  <1>3. PageCallers'
    <2>1. \A t \in Tasks : call[t].op = "consoleRead" => consoleTab[call[t].page] >= 0
      BY DEF KeyInv, PageCallers
    <2>2. \A t \in Tasks : call'[t].op = "consoleRead" => call'[t] = call[t]
      BY DEF SameIn
    <2> QED
      BY <1>1, <2>1, <2>2, KeyCallersGoOn DEF KeyInv
  <1>4. PageIds'
    BY <1>1, PageIdsStay DEF KeyInv
  <1>5. KeyDomains' /\ \A p \in Pages : KeysAt(p)' /\ KeyLappedAt(p)' /\ (KeysHidden(p) => KeysHidden(p)')
    BY <1>2, PagesKeep DEF PagesStill
  <1>6. KeySelectQuiet'
    BY <1>5, KeySelectStays, KeyEnds DEF KeyInv
  <1> QED
    BY <1>3, <1>4, <1>5, <1>6 DEF KeyInv

\* A page is read.
LEMMA PageBegins ==
    ASSUME KeyInv, SelectLines, DOMAIN call = Tasks, UNCHANGED <<devices, asleep, pageVars>>,
           NEW t \in Tasks, Idle(t), NEW p \in Pages, consoleTab[p] >= 0, ~ConsoleBusy(p),
           NEW f, f.op = "consoleRead", f.page = p, f.at = "test", Enter(t, f)
    PROVE  KeyInv'
  <1>1. UNCHANGED <<consoleTab, consoles>> /\ PagesStill /\ ReaderKey' /\ NewestKey' = NewestKey
    BY DEF pageVars, readerVars, PagesStill, KeysStill, KeyInv, ReaderKey, NewestKey
  <1>2. call'[t] = f /\ \A u \in Tasks \ {t} : call'[u] = call[u]
    BY DEF Enter
  <1>3. PageCallers'
    <2>1. ASSUME NEW u \in Tasks, call'[u].op = "consoleRead"
          PROVE  /\ call'[u].page \in Pages /\ consoleTab[call'[u].page] >= 0
                 /\ \A v \in Tasks : (call'[v].op = "consoleRead" /\ call'[v].page = call'[u].page) => v = u
      <3>0. \A v \in Tasks : ~(call[v].op = "consoleRead" /\ call[v].page = p)
        BY DEF ConsoleBusy
      <3>1. CASE u = t
        BY <1>2, <3>0, <3>1
      <3>2. CASE u # t
        <4>1. call'[u] = call[u] /\ call[u].op = "consoleRead"
          BY <1>2, <2>1, <3>2
        <4> QED
          BY <1>2, <3>0, <4>1 DEF KeyInv, PageCallers
      <3> QED
        BY <3>1, <3>2
    <2> QED
      BY <1>1, <2>1 DEF PageCallers
  <1>4. PageIds'
    BY <1>1 DEF KeyInv, PageIds, Serves, deviceError
  <1>5. ASSUME NEW q \in Pages PROVE KeyTaking(q)' <=> KeyTaking(q)
    <2>1. \A u \in Tasks : (call'[u].op = "consoleRead" /\ call'[u].at = "take") => u # t
      BY <1>2
    <2>2. \A u \in Tasks : call[u].op = "consoleRead" => u # t
      BY DEF Idle
    <2> QED
      BY <1>2, <2>1, <2>2 DEF KeyTaking, Runs
  <1>6. KeyDomains' /\ \A q \in Pages : KeysAt(q)' /\ KeyLappedAt(q)' /\ (KeysHidden(q) => KeysHidden(q)')
    <2>1. PICK n \in Nat : n = NewestKey
      BY NewestKeyIs DEF KeyInv
    <2>2. NewestKey <= NewestKey'
      BY <1>1, <2>1
    <2> QED
      BY <1>1, <1>5, <2>2, PagesKeep DEF PagesStill
  <1>7. KeySelectQuiet'
    <2>1. \A u \in Tasks : call'[u].op = "select" => call'[u] = call[u]
      BY <1>2
    <2>2. SleepersStay /\ EntriesOf("none")
      BY <2>1 DEF SleepersStay, EntriesOf
    <2> QED
      BY <1>6, <2>2, KeySelectStays, KeyEnds DEF KeyInv
  <1> QED
    BY <1>1, <1>3, <1>4, <1>6, <1>7 DEF KeyInv

\* What a read becomes that goes on.
LEMMA KeyFurther ==
    ASSUME NEW t, NEW at, NEW n, Goto(t, at) \/ Enter(t, [call[t] EXCEPT !.cnt = n, !.at = at])
    PROVE  \E f : call' = [call EXCEPT ![t] = f] /\ f.op = call[t].op /\ f.page = call[t].page /\ f.at = at
  <1>1. PICK c : c = call[t]
    OBVIOUS
  <1>2. CASE Goto(t, at)
    <2>1. [c EXCEPT !.at = at].op = c.op /\ [c EXCEPT !.at = at].page = c.page /\ [c EXCEPT !.at = at].at = at
      OBVIOUS
    <2>2. call' = [call EXCEPT ![t] = [c EXCEPT !.at = at]]
      BY <1>1, <1>2 DEF Goto
    <2> QED
      BY <1>1, <2>1, <2>2
  <1>3. CASE Enter(t, [call[t] EXCEPT !.cnt = n, !.at = at])
    <2> DEFINE f == [c EXCEPT !.cnt = n, !.at = at]
    <2>1. f.op = c.op /\ f.page = c.page /\ f.at = at
      OBVIOUS
    <2>2. call' = [call EXCEPT ![t] = f]
      BY <1>1, <1>3 DEF Enter
    <2> QED
      BY <1>1, <2>1, <2>2
  <1> QED
    BY <1>2, <1>3

\* A read of a page goes on, and its page alone changes.
LEMMA PageGoesOn ==
    ASSUME KeyInv, SelectLines, DOMAIN call = Tasks, UNCHANGED <<devices, consoleTab, consoles>>,
           NEW t \in Tasks, call[t].op = "consoleRead", t \notin asleep,
           NEW f, call' = [call EXCEPT ![t] = f], f.op = "out" \/ (f.op = "consoleRead" /\ f.page = call[t].page),
           asleep' \in {asleep, asleep \cup {t}},
           \A p \in Pages : KeysHidden(p) => KeysHidden(p)'
    PROVE  PageCallers' /\ PageIds' /\ KeySelectQuiet' /\ \A p \in Pages \ {call[t].page} : KeyTaking(p)' <=> KeyTaking(p)
  <1>1. call'[t] = f /\ \A u \in Tasks \ {t} : call'[u] = call[u] /\ (u \in asleep' <=> u \in asleep)
    OBVIOUS
  <1>2. PageCallers'
    <2>1. \A u \in Tasks : call[u].op = "consoleRead" => consoleTab[call[u].page] >= 0
      BY DEF KeyInv, PageCallers
    <2>2. ASSUME NEW u \in Tasks, call'[u].op = "consoleRead"
          PROVE  call[u].op = "consoleRead" /\ call[u].page = call'[u].page /\ consoleTab'[call[u].page] >= 0
      BY <1>1, <2>1, <2>2
    <2> QED
      BY <2>2, KeyCallersGoOn DEF KeyInv
  <1>3. PageIds'
    BY DEF KeyInv, PageIds, Serves, deviceError
  <1>4. KeySelectQuiet'
    <2>1. \A u \in Tasks : call'[u].op = "select" => u # t
      BY <1>1
    <2>2. SleepersStay /\ EntriesOf("none")
      BY <1>1, <2>1 DEF SleepersStay, EntriesOf
    <2> QED
      BY <2>2, KeySelectStays, KeyEnds DEF KeyInv
  <1>5. ASSUME NEW p \in Pages \ {call[t].page} PROVE KeyTaking(p)' <=> KeyTaking(p)
    <2>1. ~(call[t].op = "consoleRead" /\ call[t].page = p) /\ ~(call'[t].op = "consoleRead" /\ call'[t].page = p)
      BY <1>1, <1>5
    <2> QED
      BY <1>1, <2>1 DEF KeyTaking, Runs
  <1> QED
    BY <1>2, <1>3, <1>4, <1>5

\* The caller alone takes from its page.
LEMMA OneKeyReader ==
    ASSUME PageCallers, NEW t \in Tasks, call[t].op = "consoleRead"
    PROVE  KeyTaking(call[t].page) <=> (t \notin asleep /\ call[t].at = "take")
  BY DEF PageCallers, KeyTaking, Runs

\* read() finds a key, or sleeps for one, or returns.
LEMMA KeyTests ==
    ASSUME KeyInv, SelectLines, PageNotes, DOMAIN call = Tasks, NEW t \in Tasks, keyTest(t)
    PROVE  KeyInv'
  <1>1. PICK p \in Pages :
            /\ call[t].op = "consoleRead" /\ t \notin asleep /\ call[t].at = "test" /\ call[t].page = p
            /\ \/ keyHead[p] # keyTail[p] /\ Goto(t, "take") /\ UNCHANGED <<asleep, keyTask>>
               \/ /\ keyHead[p] = keyTail[p]
                  /\ keyTask' = [keyTask EXCEPT ![p] = t]
                  /\ asleep' = asleep \cup {t} /\ Goto(t, "take")
               \/ keyHead[p] = keyTail[p] /\ Leave(t, 0) /\ UNCHANGED <<asleep, keyTask>>
            /\ UNCHANGED <<devices, consoleTab, consoles, readerVars, keyVars, keyTaken, lapped>>
    BY DEF keyTest, Runs
  <1>2. UNCHANGED <<keyHead, keyTail, keyBuf, keyTaken, readerAt, keyRead, pressed, consoleTab, consoles, devices, lapped>>
    BY <1>1 DEF readerVars, keyVars
  <1>3. PICK f : call' = [call EXCEPT ![t] = f] /\ (f.op = "out" \/ (f.op = "consoleRead" /\ f.page = p))
    <2>1. CASE \E v : Leave(t, v)
      <3>1. PICK f : call' = [call EXCEPT ![t] = f] /\ f.op = "out"
        BY <2>1, LeftFrame
      <3> QED
        BY <3>1
    <2>2. CASE Goto(t, "take")
      <3>1. PICK f : call' = [call EXCEPT ![t] = f] /\ f.op = call[t].op /\ f.page = call[t].page /\ f.at = "take"
        BY <2>2, KeyFurther, Zenon
      <3> QED
        BY <1>1, <3>1
    <2> QED
      BY <1>1, <2>1, <2>2
  <1>4. call'[t] = f /\ \A u \in Tasks \ {t} : call'[u] = call[u]
    BY <1>3
  <1>5. \A q \in Pages : KeysHidden(q)' <=> KeysHidden(q)
    BY <1>2 DEF KeysHidden
  <1>6. PageCallers' /\ PageIds' /\ KeySelectQuiet' /\ \A q \in Pages \ {p} : KeyTaking(q)' <=> KeyTaking(q)
    <2>1. asleep' \in {asleep, asleep \cup {t}}
      BY <1>1
    <2> QED
      BY <1>1, <1>2, <1>3, <1>5, <2>1, PageGoesOn
  <1>7. ~KeyTaking(p)
    BY <1>1, OneKeyReader DEF KeyInv
  <1>8. PageStays(p) /\ KeysAt(p) /\ KeyLappedAt(p)
    BY <1>2 DEF PageStays, KeyInv
  <1>9. keyHead[p] = keyTail[p] => ~KeyTaking(p)'
    <2>1. \A u \in Tasks \ {t} : ~(call[u].op = "consoleRead" /\ call[u].page = p)
      BY <1>1 DEF KeyInv, PageCallers
    <2>2. keyHead[p] = keyTail[p] => t \in asleep' \/ call'[t].op = "out"
      <3>1. Leave(t, 0) => call'[t].op = "out"
        BY DEF Leave
      <3> QED
        BY <1>1, <3>1
    <2> QED
      BY <1>4, <2>1, <2>2 DEF KeyTaking, Runs
  <1>10. ReaderKey /\ ReaderKey' /\ NewestKey' = NewestKey /\ NewestKey <= NewestKey'
    <2>1. ReaderKey /\ ReaderKey' /\ NewestKey' = NewestKey
      BY <1>2 DEF KeyInv, ReaderKey, NewestKey
    <2>2. PICK n \in Nat : n = NewestKey
      BY <2>1, NewestKeyIs
    <2> QED
      BY <2>1, <2>2
  <1>11. KeysAt(p)'
    <2>1. CASE keyHead[p] = keyTail[p]
      BY <1>7, <1>8, <1>9, <1>10, <2>1, KeysStay
    <2>2. CASE keyHead[p] # keyTail[p]
      <3>1. Ringed(KeyBufSize, keyHead[p], keyTail[p], KeyNumbers(p), keyTaken[p], NewestKey, KeyMet(p)')
        BY <1>8, <2>2, RingApart DEF KeysAt
      <3>2. KeyNumbers(p)' = KeyNumbers(p)
        BY <1>2 DEF KeyNumbers
      <3> QED
        BY <1>2, <1>10, <3>1, <3>2 DEF KeysAt
    <2> QED
      BY <2>1, <2>2
  <1>12. KeyLappedAt(p)'
    <2>1. CASE keyHead[p] = keyTail[p]
      BY <1>2, <1>8, <1>9, <2>1 DEF KeyLappedAt, KeysHidden
    <2>2. CASE keyHead[p] # keyTail[p]
      BY <1>1, <1>2, <1>5, <1>8, <2>2 DEF KeyLappedAt
    <2> QED
      BY <2>1, <2>2
  <1>13. ASSUME NEW q \in Pages \ {p} PROVE KeysAt(q)' /\ KeyLappedAt(q)'
    <2>1. PageStays(q) /\ KeysAt(q) /\ KeyLappedAt(q)
      BY <1>2 DEF PageStays, KeyInv
    <2>2. keyTask'[q] = keyTask[q]
      BY <1>1 DEF PageNotes
    <2>3. KeysAt(q)'
      BY <1>6, <1>10, <2>1, KeysStay
    <2> QED
      BY <1>2, <1>6, <2>1, <2>2, <2>3, LappedStays
  <1>14. KeyDomains'
    BY <1>2 DEF KeyInv, KeyDomains
  <1> QED
    BY <1>6, <1>10, <1>11, <1>12, <1>13, <1>14 DEF KeyInv

\* read() takes a key, that nobody took.
LEMMA KeyTakes ==
    ASSUME KeyInv, SelectLines, PageNotes, DOMAIN call = Tasks, NEW t \in Tasks, keyTake(t)
    PROVE  KeyInv'
  <1>1. PICK p \in Pages :
            /\ call[t].op = "consoleRead" /\ t \notin asleep /\ call[t].at = "take" /\ call[t].page = p
            /\ keyTail' = [keyTail EXCEPT ![p] = NextKey(@)]
            /\ keyTaken' = [keyTaken EXCEPT ![p] = keyBuf[p][keyTail[p]].n]
            /\ Leave(t, 0) \/ \E n : Enter(t, [call[t] EXCEPT !.cnt = n, !.at = "test"])
            /\ UNCHANGED <<devices, asleep, consoleTab, consoles, readerVars, keyBuf, keyHead, keyTask, lapped>>
    BY Zenon DEF keyTake, Runs
  <1>2. UNCHANGED <<keyHead, keyBuf, readerAt, keyRead, pressed, consoleTab, consoles, devices, lapped, keyTask, asleep>>
    BY <1>1, Zenon DEF readerVars
  <1>3. PICK f : /\ call' = [call EXCEPT ![t] = f]
                 /\ f.op = "out" \/ (f.op = "consoleRead" /\ f.page = p /\ f.at = "test")
    <2>1. CASE \E v : Leave(t, v)
      <3>1. PICK f : call' = [call EXCEPT ![t] = f] /\ f.op = "out"
        BY <2>1, LeftFrame
      <3> QED
        BY <3>1
    <2>2. ASSUME NEW n, Enter(t, [call[t] EXCEPT !.cnt = n, !.at = "test"])
          PROVE  \E f : call' = [call EXCEPT ![t] = f] /\ f.op = "consoleRead" /\ f.page = p /\ f.at = "test"
      <3>1. \E f : call' = [call EXCEPT ![t] = f] /\ f.op = call[t].op /\ f.page = call[t].page /\ f.at = "test"
        BY <2>2, KeyFurther, Zenon
      <3> QED
        BY <1>1, <3>1, Zenon
    <2> QED
      BY <1>1, <2>1, <2>2, Zenon
  <1>4. call'[t] = f /\ \A u \in Tasks \ {t} : call'[u] = call[u]
    BY <1>3
  <1>5. KeyTaking(p)
    BY <1>1, OneKeyReader, Zenon DEF KeyInv
  <1>6. ~KeyTaking(p)'
    <2>1. \A u \in Tasks \ {t} : ~(call[u].op = "consoleRead" /\ call[u].page = p)
      BY <1>1, Zenon DEF KeyInv, PageCallers
    <2>2. ~(call'[t].op = "consoleRead" /\ call'[t].at = "take")
      BY <1>3, <1>4
    <2> QED
      BY <1>4, <2>1, <2>2 DEF KeyTaking, Runs
  <1>7. KeysAt(p) /\ KeyLappedAt(p) /\ p \in DOMAIN keyTail /\ p \in DOMAIN keyTaken /\ ReaderKey
    BY DEF KeyInv, KeyDomains
  <1>8. keyTail'[p] = NextKey(keyTail[p]) /\ keyTaken'[p] = keyBuf[p][keyTail[p]].n
    BY <1>1, <1>7, Zenon
  <1>9. ReaderKey' /\ NewestKey' = NewestKey /\ NewestKey <= NewestKey'
    <2>1. ReaderKey' /\ NewestKey' = NewestKey
      BY <1>2, <1>7 DEF ReaderKey, NewestKey
    <2>2. PICK n \in Nat : n = NewestKey
      BY <1>7, NewestKeyIs
    <2> QED
      BY <2>1, <2>2
  <1>10. KeysAt(p)'
    <2>1. KeyMet(p) = KeyBufSize /\ KeyMet(p)' = 0 /\ KeyBufSize \in Nat /\ KeyBufSize > 0
      BY <1>5, <1>6, KeysAssumption DEF KeyMet
    <2>2. PICK n \in Nat : n = NewestKey
      BY <1>7, NewestKeyIs
    <2>3. Ringed(KeyBufSize, keyHead[p], (keyTail[p] + 1) % KeyBufSize, KeyNumbers(p), KeyNumbers(p)[keyTail[p]], n, 0)
      BY <1>7, <2>1, <2>2, RingTaken DEF KeysAt
    <2>4. KeyNumbers(p)' = KeyNumbers(p) /\ KeyNumbers(p)[keyTail[p]] = keyTaken'[p]
      BY <1>2, <1>7, <1>8 DEF KeyNumbers, KeysAt, Ringed, KeySlots
    <2> QED
      BY <1>2, <1>8, <1>9, <2>1, <2>2, <2>3, <2>4 DEF KeysAt, NextKey
  <1>11. KeysHidden(p) => p \in lapped
    BY <1>5, <1>7 DEF KeyLappedAt, KeysHidden
  <1>12. ASSUME NEW q \in Pages \ {p} PROVE PageStays(q) /\ KeysAt(q) /\ KeyLappedAt(q) /\ (KeysHidden(q)' <=> KeysHidden(q))
    BY <1>1, <1>2, Zenon DEF PageStays, KeyInv, KeyDomains, KeysHidden
  <1>13. \A q \in Pages : KeysHidden(q) => KeysHidden(q)'
    BY <1>2, <1>11, <1>12 DEF KeysHidden
  <1>14. PageCallers' /\ PageIds' /\ KeySelectQuiet' /\ \A q \in Pages \ {p} : KeyTaking(q)' <=> KeyTaking(q)
    BY <1>1, <1>2, <1>3, <1>13, PageGoesOn, Zenon
  <1>15. KeyLappedAt(p)'
    BY <1>2, <1>6, <1>7, <1>13 DEF KeyLappedAt
  <1>16. ASSUME NEW q \in Pages \ {p} PROVE KeysAt(q)' /\ KeyLappedAt(q)'
    <2>1. KeysAt(q)'
      BY <1>7, <1>9, <1>12, <1>14, KeysStay
    <2> QED
      BY <1>2, <1>12, <1>14, <2>1, LappedStays
  <1>17. KeyDomains'
    BY <1>1, <1>2, Zenon DEF KeyInv, KeyDomains
  <1> QED
    BY <1>9, <1>10, <1>14, <1>15, <1>16, <1>17 DEF KeyInv

\* A key is stored, with nobody to get it or ...
LEMMA KeyLost ==
    ASSUME KeyInv, SelectLines, UNCHANGED <<devices, call, asleep, consoleTab, consoles, keyVars, keyTask, keyTaken, lapped>>,
           ReaderKey', NewestKey <= NewestKey'
    PROVE  KeyInv'
  <1>1. PagesStill /\ SleepersStay /\ EntriesOf("none") /\ SameIn({"consoleRead"})
    BY DEF PagesStill, KeysStill, SleepersStay, EntriesOf, SameIn
  <1> QED
    BY <1>1, PagesAside

\* The number that a key adds.
LEMMA KeyStoredNumber ==
    ASSUME ReaderKey, readTaskStore
    PROVE  ReaderKey' /\ NewestKey' = pressed /\ NewestKey <= pressed /\ NewestKey <= NewestKey' /\ NewestKey < pressed
           /\ pressed \in Nat /\ keyRead.n = pressed
  <1>1. readerAt = "store" /\ readerAt' = "check" /\ pressed' = pressed
    BY DEF readTaskStore, Reader
  <1>2. pressed \in Nat /\ pressed > 0 /\ keyRead.n = pressed /\ NewestKey = pressed - 1 /\ NewestKey' = pressed
    BY <1>1 DEF ReaderKey, NewestKey
  <1>3. ReaderKey'
    BY <1>1, <1>2 DEF ReaderKey
  <1> QED
    BY <1>2, <1>3

\* ... with those who wait for it, and the ring keeps it in turn.
LEMMA KeyStored ==
    ASSUME KeyInv, NEW p \in Pages, readTaskStore, UNCHANGED <<keyTail, keyTaken>>,
           keyBuf' = [keyBuf EXCEPT ![p][keyHead[p]] = keyRead], keyHead' = [keyHead EXCEPT ![p] = NextKey(@)]
    PROVE  KeyDomains' /\ KeysAt(p)' /\ \A q \in Pages \ {p} : PageStays(q)
  <1>1. DOMAIN keyHead = Pages /\ DOMAIN keyBuf = Pages /\ DOMAIN keyBuf[p] = KeySlots
    BY DEF KeyInv, KeyDomains
  <1>2. keyBuf'[p] = [keyBuf[p] EXCEPT ![keyHead[p]] = keyRead] /\ keyHead'[p] = NextKey(keyHead[p])
    BY <1>1
  <1>3. \A q \in Pages \ {p} : PageStays(q)
    BY DEF PageStays
  <1>4. KeyDomains'
    <2>1. \A q \in Pages : DOMAIN keyBuf'[q] = KeySlots
      BY <1>1, <1>2, <1>3 DEF KeyInv, KeyDomains, PageStays
    <2>2. DOMAIN keyBuf' = Pages /\ DOMAIN keyHead' = Pages
      BY <1>1
    <2> QED
      BY <2>1, <2>2 DEF KeyInv, KeyDomains
  <1>5. PICK key \in Nat : key = pressed /\ key = keyRead.n /\ NewestKey' = key /\ NewestKey < key
    BY KeyStoredNumber DEF KeyInv
  <1>6. KeyNumbers(p)' = [KeyNumbers(p) EXCEPT ![keyHead[p]] = key]
    <2>1. KeyNumbers(p)' = [i \in KeySlots |-> keyBuf'[p][i].n]
      BY DEF KeyNumbers
    <2>2. \A i \in KeySlots : keyBuf'[p][i].n = IF i = keyHead[p] THEN key ELSE keyBuf[p][i].n
      BY <1>1, <1>2, <1>5
    <2> QED
      BY <2>1, <2>2 DEF KeyNumbers
  <1>7. PICK n \in Nat : n = NewestKey
    BY NewestKeyIs DEF KeyInv
  <1>8. PICK m1 \in {0, KeyBufSize}, m2 \in {0, KeyBufSize} : m1 = KeyMet(p) /\ m2 = KeyMet(p)'
    BY DEF KeyMet
  <1>9. Ringed(KeyBufSize, keyHead[p], keyTail[p], KeyNumbers(p), keyTaken[p], n, m1)
    BY <1>7, <1>8 DEF KeyInv, KeysAt
  <1>10. KeyBufSize \in Nat /\ KeyBufSize > 0 /\ key > n
    BY <1>5, <1>7, KeysAssumption
  <1>11. Ringed(KeyBufSize, (keyHead[p] + 1) % KeyBufSize, keyTail[p], [KeyNumbers(p) EXCEPT ![keyHead[p]] = key], keyTaken[p], key, m2)
    BY <1>9, <1>10, RingStored
  <1>12. KeysAt(p)'
    BY <1>2, <1>5, <1>6, <1>8, <1>11 DEF KeysAt, NextKey
  <1> QED
    BY <1>3, <1>4, <1>12

\* The keyboard task stores a key.
LEMMA KeyStores ==
    ASSUME IInv, Ready, Selecting, SelectLines, PageNotes, KeyInv, readTaskStore
    PROVE  KeyInv' /\ SleepersStay
  <1>0. PICK p \in Pages : p = focusDev
    BY DEF PageNotes
  <1>1. ReaderKey' /\ NewestKey <= NewestKey'
    BY KeyStoredNumber DEF KeyInv
  <1>2. UNCHANGED <<devices, consoleTab, consoles, keyTail, keyTaken>>
    BY DEF readTaskStore
  <1>3. CASE getDeviceData(consoleTab[p]) = NULL
    <2>1. UNCHANGED <<call, asleep, keyVars, keyTask, lapped>>
      BY <1>0, <1>2, <1>3 DEF readTaskStore, keyVars
    <2>2. SleepersStay
      BY <1>2, <2>1 DEF SleepersStay
    <2> QED
      BY <1>1, <1>2, <2>1, <2>2, KeyLost
  <1>4. CASE getDeviceData(consoleTab[p]) # NULL
    <2>1. /\ keyBuf' = [keyBuf EXCEPT ![p][keyHead[p]] = keyRead]
          /\ keyHead' = [keyHead EXCEPT ![p] = NextKey(@)]
          /\ Notify(wokenByKey(p), consoleTab[p], call)
          /\ keyTask' = [keyTask EXCEPT ![p] = NULL]
          /\ lapped' = IF keyHead'[p] = keyTail[p] THEN lapped \cup {p} ELSE lapped \ {p}
      BY <1>0, <1>4 DEF readTaskStore
    <2>2. consoleTab[p] \in Ids
      BY <1>4 DEF getDeviceData, deviceError, EDEVICEID
    <2>3. KeyDomains' /\ KeysAt(p)' /\ \A q \in Pages \ {p} : PageStays(q)
      BY <1>2, <2>1, KeyStored
    <2>4. Selectors(consoleTab[p]) = Sel(consoleTab[p])
      BY <2>2, ListsSay
    <2>5. ASSUME NEW t \in Tasks, t \in wokenByKey(p)
          PROVE  \/ t = keyTask[p] /\ call[t].op = "consoleRead" /\ call[t].page = p
                 \/ call[t].op = "select" /\ consoleTab[p] \in call[t].on
      <3>1. (t = keyTask[p] /\ t # NULL) \/ t \in Sel(consoleTab[p])
        BY <2>4, <2>5 DEF wokenByKey
      <3> QED
        BY <1>2, <3>1 DEF PageNotes, Sel
    <2>6. /\ \A e \in Ids : Sel(e)' = Sel(e)
          /\ asleep' = asleep \ wokenByKey(p)
          /\ \A t \in Tasks : call'[t].op = call[t].op /\ (call[t].op # "select" => call'[t] = call[t])
      <3>1. \A t \in wokenByKey(p) \cap Tasks : call[t].op = "select" => consoleTab[p] \in call[t].on
        BY <2>5
      <3> QED
        BY <2>1, <2>2, <3>1, SelectorsWoken
    <2>7. SleepersStay
      BY <2>1, SleepersNotified
    <2>8. PageCallers'
      <3>1. \A t \in Tasks : call[t].op = "consoleRead" => consoleTab[call[t].page] >= 0
        BY DEF KeyInv, PageCallers
      <3>2. ASSUME NEW t \in Tasks, call'[t].op = "consoleRead"
            PROVE  call[t].op = "consoleRead" /\ call[t].page = call'[t].page /\ consoleTab'[call[t].page] >= 0
        <4>1. call'[t] = call[t]
          BY <2>6, <3>2
        <4> QED
          BY <1>2, <3>1, <3>2, <4>1
      <3> QED
        BY <3>2, KeyCallersGoOn DEF KeyInv
    <2>9. PageIds'
      BY <1>2 DEF KeyInv, PageIds, Serves, deviceError
    <2>10. ASSUME NEW q \in Pages \ {p}
           PROVE  KeysAt(q)' /\ KeyLappedAt(q)' /\ (KeysHidden(q) => KeysHidden(q)')
      <3>1. PageStays(q) /\ KeysAt(q) /\ KeyLappedAt(q) /\ ReaderKey /\ (q \in lapped' <=> q \in lapped)
        BY <2>1, <2>3 DEF KeyInv
      <3>2. keyTask'[q] = keyTask[q]
        BY <2>1 DEF PageNotes
      <3>3. KeyTaking(q)' <=> KeyTaking(q)
        <4>1. ASSUME NEW t \in Tasks, call[t].op = "consoleRead" \/ call'[t].op = "consoleRead", call[t].page = q \/ call'[t].page = q
              PROVE  call'[t] = call[t] /\ (t \in asleep' <=> t \in asleep)
          <5>1. call[t].op = "consoleRead" /\ call'[t] = call[t] /\ call[t].page = q
            BY <2>6, <4>1
          <5>2. t \notin wokenByKey(p)
            BY <2>5, <5>1
          <5> QED
            BY <2>6, <5>1, <5>2
        <4> QED
          BY <4>1 DEF KeyTaking, Runs
      <3>4. KeysAt(q)'
        BY <1>1, <3>1, <3>3, KeysStay
      <3>5. KeyLappedAt(q)'
        BY <3>1, <3>2, <3>3, LappedStays
      <3> QED
        BY <3>1, <3>4, <3>5 DEF KeysHidden, PageStays
    <2>11. KeyLappedAt(p)'
      <3>1. keyTask'[p] = NULL
        BY <1>2, <2>1 DEF PageNotes
      <3>2. keyHead'[p] = keyTail'[p] => p \in lapped'
        BY <1>2, <2>1
      <3> QED
        BY <3>1, <3>2 DEF KeyLappedAt
    <2>12. KeySelectQuiet'
      <3>1. \A d \in Ids : consoleTab[p] = d => \A t \in Sel(d)' : t \notin asleep'
        BY <2>4, <2>6 DEF wokenByKey
      <3>2. \A q \in Pages : KeysHidden(q) =>
                \/ KeysHidden(q)'
                \/ \A d \in Ids : consoleTab[q] = d => \A t \in Sel(d)' : t \in asleep' => call'[t].type # "read"
        BY <2>10, <3>1
      <3>3. EntriesOf("none")
        BY <1>2 DEF EntriesOf
      <3> QED
        BY <2>7, <3>2, <3>3, KeySelectStays, KeyEnds DEF KeyInv
    <2> QED
      BY <1>1, <2>3, <2>7, <2>8, <2>9, <2>10, <2>11, <2>12 DEF KeyInv
  <1> QED
    BY <1>3, <1>4

\* Consoles that nobody uses are deleted, ...
LEMMA PagesDeleted ==
    ASSUME KeyInv, SelectLines, KeysStill, ReaderKey', NewestKey <= NewestKey', SleepersStay, SameIn({"consoleRead"}),
           NEW gone \in SUBSET Pages, \A p \in gone : ~ConsoleBusy(p),
           \A p \in Pages \ gone : consoleTab'[p] = consoleTab[p],
           \A d \in Ids : devices'[d] = IF \E p \in gone : consoleTab[p] = d THEN NULL ELSE devices[d],
           \A p \in Pages : consoleTab'[p] >= 0 => consoles'
    PROVE  KeyInv'
  <1>1. PageCallers'
    <2>1. \A u \in Tasks : call[u].op = "consoleRead" => call[u].page \in Pages \ gone /\ consoleTab[call[u].page] >= 0
      BY DEF KeyInv, PageCallers, ConsoleBusy
    <2>2. \A u \in Tasks : call'[u].op = "consoleRead" => call'[u] = call[u]
      BY DEF SameIn
    <2> QED
      BY <2>1, <2>2, KeyCallersGoOn DEF KeyInv
  <1>2. PageIds'
    <2>1. ASSUME NEW d \in Ids, Serves(d, "console")' PROVE devices'[d].unit \in Pages /\ consoleTab'[devices'[d].unit] = d
      <3>1. devices'[d] # NULL
        BY <2>1 DEF Serves, deviceError, EBADDEV, EDEVICEID
      <3>2. devices'[d] = devices[d] /\ \A p \in gone : consoleTab[p] # d
        BY <3>1
      <3>3. Serves(d, "console")
        BY <2>1, <3>2 DEF Serves, deviceError
      <3>4. devices[d].unit \in Pages /\ consoleTab[devices[d].unit] = d
        BY <3>3 DEF KeyInv, PageIds
      <3> QED
        BY <3>2, <3>4
    <2> QED
      BY <2>1 DEF PageIds
  <1>3. KeyDomains' /\ \A p \in Pages : KeysAt(p)' /\ KeyLappedAt(p)' /\ (KeysHidden(p) => KeysHidden(p)')
    BY KeyTakersStay, PagesKeep
  <1>4. KeySelectQuiet'
    <2>1. EntriesOf("console")
      BY DEF EntriesOf
    <2> QED
      BY <1>3, <2>1, KeySelectStays, KeyEnds DEF KeyInv
  <1> QED
    BY <1>1, <1>2, <1>3, <1>4 DEF KeyInv

\* ... and one is created, with an empty buffer.
LEMMA PageCreated ==
    ASSUME IInv, KeyInv, SelectLines, PageNotes, NEW t \in Tasks, NEW p \in Pages, createConsole(t, p)
    PROVE  KeyInv'
  <1>1. /\ consoles /\ consoleTab[p] < 0
        /\ newIOSysDevice(-1, Device("console", p)) /\ consoleTab' = [consoleTab EXCEPT ![p] = slot(-1)]
        /\ keyHead' = [keyHead EXCEPT ![p] = 0] /\ keyTail' = [keyTail EXCEPT ![p] = 0]
        /\ keyTask' = [keyTask EXCEPT ![p] = NULL]
        /\ keyBuf' = [keyBuf EXCEPT ![p] = [i \in KeySlots |-> NoKey]]
        /\ keyTaken' = [keyTaken EXCEPT ![p] = 0] /\ lapped' = lapped \ {p}
        /\ UNCHANGED <<call, asleep, consoles, readerAt, keyRead, pressed>>
    BY DEF createConsole, readerVars
  <1>2. /\ DOMAIN keyHead = Pages /\ DOMAIN keyTail = Pages /\ DOMAIN keyBuf = Pages /\ DOMAIN keyTaken = Pages
        /\ DOMAIN keyTask = Pages /\ consoleTab \in [Pages -> Int]
    BY DevsAssumption DEF KeyInv, KeyDomains, PageNotes, IInv, TypesOK, TablesOK, Ids
  <1>3. /\ \A d \in Ids : devices'[d] # devices[d] =>
                d = slot(-1) /\ devices[d] = NULL /\ devices'[d] = Device("console", p)
        /\ slot(-1) >= 0 => slot(-1) \in Ids /\ devices[slot(-1)] = NULL /\ devices'[slot(-1)] = Device("console", p)
    <2>1. "console" \in Drvs /\ p \in Units /\ TablesOK
      BY DEF Drvs, Units, IInv, TypesOK
    <2> QED
      BY <1>1, <2>1, NewDevice
  <1>4. ReaderKey /\ ReaderKey' /\ NewestKey' = NewestKey /\ NewestKey <= NewestKey'
    <2>1. ReaderKey /\ ReaderKey' /\ NewestKey' = NewestKey
      BY <1>1 DEF KeyInv, ReaderKey, NewestKey
    <2>2. PICK n \in Nat : n = NewestKey
      BY <2>1, NewestKeyIs
    <2> QED
      BY <2>1, <2>2
  <1>5. KeyDomains'
    <2>1. \A q \in Pages : DOMAIN keyBuf'[q] = KeySlots
      BY <1>1, <1>2 DEF KeyInv, KeyDomains
    <2> QED
      BY <1>1, <1>2, <2>1 DEF KeyDomains
  <1>6. \A u \in Tasks : call[u].op = "consoleRead" => call[u].page # p /\ call[u].page \in Pages /\ consoleTab[call[u].page] >= 0
    <2>1. ~(consoleTab[p] >= 0)
      BY <1>1, <1>2
    <2> QED
      BY <2>1 DEF KeyInv, PageCallers
  <1>7. PageCallers'
    <2>1. \A u \in Tasks : call[u].op = "consoleRead" => consoleTab'[call[u].page] >= 0
      BY <1>1, <1>2, <1>6
    <2> QED
      BY <1>1, <2>1, KeyCallersGoOn DEF KeyInv
  <1>8. PageIds'
    <2>1. ASSUME NEW d \in Ids, Serves(d, "console")' PROVE devices'[d].unit \in Pages /\ consoleTab'[devices'[d].unit] = d
      <3>1. CASE devices'[d] # devices[d]
        <4>1. d = slot(-1) /\ devices'[d] = Device("console", p)
          BY <1>3, <3>1
        <4> QED
          BY <1>1, <1>2, <4>1, DeviceParts
      <3>2. CASE devices'[d] = devices[d]
        <4>1. Serves(d, "console")
          BY <2>1, <3>2 DEF Serves, deviceError
        <4>2. devices[d].unit \in Pages /\ consoleTab[devices[d].unit] = d
          BY <4>1 DEF KeyInv, PageIds
        <4>3. d >= 0
          BY DevsAssumption DEF Ids
        <4>4. devices[d].unit # p
          BY <1>1, <1>2, <4>2, <4>3
        <4> QED
          BY <1>1, <1>2, <3>2, <4>2, <4>4
      <3> QED
        BY <3>1, <3>2
    <2> QED
      BY <1>1, <2>1 DEF PageIds
  <1>9. ASSUME NEW q \in Pages PROVE KeysAt(q)' /\ KeyLappedAt(q)' /\ (KeysHidden(q) => KeysHidden(q)')
    <2>1. KeysAt(q) /\ KeyLappedAt(q) /\ (KeyTaking(q)' <=> KeyTaking(q))
      BY <1>1 DEF KeyInv, KeyTaking, Runs
    <2>2. CASE q # p
      <3>1. PageStays(q) /\ keyTask'[q] = keyTask[q] /\ (q \in lapped' <=> q \in lapped)
        BY <1>1, <1>2, <2>2 DEF PageStays
      <3>2. KeysAt(q)'
        BY <1>4, <2>1, <3>1, KeysStay
      <3>3. KeyLappedAt(q)'
        BY <2>1, <3>1, LappedStays
      <3> QED
        BY <3>1, <3>2, <3>3 DEF KeysHidden, PageStays
    <2>3. CASE q = p
      <3>1. ~KeyTaking(p)' /\ keyHead'[p] = 0 /\ keyTail'[p] = 0 /\ keyTask'[p] = NULL /\ keyTaken'[p] = 0
        BY <1>1, <1>2, <1>6 DEF KeyTaking, Runs
      <3>2. KeyMet(p)' = 0 /\ KeyBufSize \in Nat /\ KeyBufSize > 0 /\ 0 \in 0 .. KeyBufSize - 1
        BY <3>1, KeysAssumption DEF KeyMet
      <3>3. PICK n \in Nat : n = NewestKey'
        BY <1>4, NewestKeyIs
      <3>4. PICK buf \in [0 .. KeyBufSize - 1 -> Nat] : buf = KeyNumbers(p)' /\ \A i \in 0 .. KeyBufSize - 1 : buf[i] <= n
        <4>1. \A i \in KeySlots : keyBuf'[p][i].n = 0
          BY <1>1, <1>2 DEF NoKey, Key
        <4>2. KeyNumbers(p)' = [i \in KeySlots |-> 0]
          BY <4>1 DEF KeyNumbers
        <4>3. \A i \in 0 .. KeyBufSize - 1 : [j \in KeySlots |-> 0][i] = 0
          BY DEF KeySlots
        <4>4. [i \in KeySlots |-> 0] \in [0 .. KeyBufSize - 1 -> Nat]
          BY DEF KeySlots
        <4>5. 0 <= n
          BY <3>3
        <4> QED
          BY <4>2, <4>3, <4>4, <4>5
      <3>5. Ringed(KeyBufSize, 0, 0, buf, 0, n, 0)
        BY <3>2, <3>3, <3>4, RingEmpty
      <3>6. KeysAt(p)'
        BY <3>1, <3>2, <3>3, <3>4, <3>5 DEF KeysAt
      <3>7. KeyLappedAt(p)' /\ KeysHidden(p)'
        BY <3>1 DEF KeyLappedAt, KeysHidden
      <3> QED
        BY <2>3, <3>6, <3>7
    <2> QED
      BY <2>2, <2>3
  <1>10. KeySelectQuiet'
    <2>1. SleepersStay
      BY <1>1 DEF SleepersStay
    <2>2. EntriesOf("console")
      BY <1>3, DeviceParts DEF EntriesOf
    <2> QED
      BY <1>9, <2>1, <2>2, KeySelectStays, KeyEnds DEF KeyInv
  <1> QED
    BY <1>4, <1>5, <1>7, <1>8, <1>9, <1>10 DEF KeyInv

\* A step that only moves the keyboard task, or another caller.
LEMMA ReaderMoves ==
    ASSUME KeyInv, SelectLines, PagesStill, UNCHANGED devices, SleepersStay, SameIn({"consoleRead"}), ReaderKey', NewestKey <= NewestKey'
    PROVE  KeyInv'
  <1>1. EntriesOf("none")
    BY DEF EntriesOf
  <1> QED
    BY <1>1, PagesAside

\* The keyboard task looks, waits, or reads a key.
LEMMA KeyboardMoves ==
    ASSUME KeyInv, SelectLines, readTaskCheck \/ (\E k \in Keys : readTaskKey(k)) \/ \E p \in Pages : readTaskFocus(p)
    PROVE  KeyInv' /\ SleepersStay
  <1>1. UNCHANGED <<devices, call, asleep, consoleTab, consoles, keyVars, keyTask, keyTaken, lapped>>
    BY DEF readTaskCheck, readTaskKey, readTaskFocus
  <1>2. PagesStill /\ SleepersStay /\ SameIn({"consoleRead"})
    BY <1>1 DEF PagesStill, KeysStill, SleepersStay, SameIn
  <1>3. ReaderKey' /\ NewestKey <= NewestKey'
    <2>1. PICK n \in Nat : n = pressed /\ (readerAt = "store" => n > 0)
      BY DEF KeyInv, ReaderKey
    <2>2. CASE readTaskCheck
      <3>1. readerAt = "check" /\ readerAt' \in {"poll", "ended"} /\ pressed' = n
        BY <2>1, <2>2 DEF readTaskCheck, Reader
      <3>2. NewestKey = n /\ NewestKey' = n
        BY <2>1, <3>1 DEF NewestKey
      <3> QED
        BY <2>1, <3>1, <3>2 DEF ReaderKey
    <2>3. CASE \E k \in Keys : readTaskKey(k)
      <3>1. PICK k : readTaskKey(k)
        BY <2>3
      <3>2. readerAt = "poll" /\ readerAt' = "store" /\ pressed' = n + 1 /\ keyRead' = Key(pressed', k)
        BY <2>1, <3>1 DEF readTaskKey, Reader
      <3>3. NewestKey = n /\ NewestKey' = n /\ keyRead'.n = n + 1
        BY <2>1, <3>2 DEF NewestKey, Key
      <3> QED
        BY <2>1, <3>2, <3>3 DEF ReaderKey
    <2>4. CASE \E p \in Pages : readTaskFocus(p)
      <3>1. readerAt = "poll" /\ readerAt' = "check" /\ pressed' = n + 1
        BY <2>1, <2>4 DEF readTaskFocus, Reader
      <3>2. NewestKey = n /\ NewestKey' = n + 1
        BY <2>1, <3>1 DEF NewestKey
      <3> QED
        BY <2>1, <3>1, <3>2 DEF ReaderKey
    <2> QED
      BY <2>2, <2>3, <2>4
  <1> QED
    BY <1>1, <1>2, <1>3, ReaderMoves

\* The driver is installed, or removed.
LEMMA ConsolesInstalled ==
    ASSUME IInv, Ready, KeyInv, SelectLines, NEW t \in Tasks,
           installConsole(t) \/ removeConsole(t) \/ removed(t) \/ \E p \in Pages : deleteConsole(t, p)
    PROVE  KeyInv'
  <1>1. UNCHANGED <<asleep, keyVars, keyTask, keyTaken, lapped, pressed, keyRead>>
    BY DEF installConsole, removeConsole, removed, deleteConsole, readerVars
  <1>2. KeysStill
    BY <1>1 DEF KeysStill
  <1>3. readerAt' = readerAt \/ readerAt' # "store"
    BY DEF installConsole, removeConsole, removed, deleteConsole, readerVars
  <1>4. ReaderKey' /\ NewestKey <= NewestKey'
    <2>1. PICK n \in Nat : n = pressed /\ (readerAt = "store" => n > 0 /\ keyRead.n = n)
      BY DEF KeyInv, ReaderKey
    <2>2. ReaderKey'
      BY <1>1, <1>3, <2>1 DEF ReaderKey
    <2>3. NewestKey \in {n, n - 1} /\ NewestKey' \in {n, NewestKey}
      BY <1>1, <1>3, <2>1 DEF NewestKey
    <2>4. NewestKey' = n \/ NewestKey' = NewestKey
      BY <2>3
    <2> QED
      BY <2>1, <2>2, <2>3, <2>4
  <1>5. DOMAIN call = Tasks /\ consoleTab \in [Pages -> Int]
    BY DevsAssumption DEF Ready, CallsOK, IInv, TypesOK, TablesOK, Ids
  <1>6. SleepersStay /\ SameIn({"consoleRead"})
    <2>1. CASE call' = call
      BY <1>1, <2>1 DEF SleepersStay, SameIn
    <2>2. ASSUME NEW f, call[t].op # "consoleRead", f.op \notin {"consoleRead", "select"}, call' = [call EXCEPT ![t] = f]
          PROVE  SleepersStay /\ SameIn({"consoleRead"})
      <3>1. call'[t] = f /\ \A u \in Tasks \ {t} : call'[u] = call[u]
        BY <1>5, <2>2
      <3> QED
        BY <1>1, <2>2, <3>1 DEF SleepersStay, SameIn
    <2>3. CASE removeConsole(t)
      <3>1. call[t].op = "out" /\ Enter(t, [op |-> "removeConsole", at |-> "wait", got |-> 0])
        BY <2>3 DEF removeConsole, Idle
      <3> QED
        BY <2>2, <3>1 DEF Enter
    <2>4. CASE removed(t)
      <3>1. call[t].op = "removeConsole" /\ Leave(t, 0)
        BY <2>4 DEF removed, Runs
      <3>2. PICK f : call' = [call EXCEPT ![t] = f] /\ f.op = "out"
        BY <3>1, LeftFrame
      <3> QED
        BY <2>2, <3>1, <3>2
    <2> QED
      BY <2>1, <2>3, <2>4 DEF installConsole, deleteConsole
  <1>7. CASE installConsole(t)
    <2>1. ~consoles /\ consoleTab' = [p \in Pages |-> -1] /\ devices' = devices
      BY <1>7 DEF installConsole
    <2>2. \A p \in Pages : ~(consoleTab[p] >= 0)
      BY <2>1 DEF KeyInv, PageIds
    <2>3. \A p \in Pages : ~ConsoleBusy(p)
      BY <2>2 DEF ConsoleBusy, KeyInv, PageCallers
    <2>4. \A d \in Ids : ~\E p \in Pages : consoleTab[p] = d
      BY <2>2, DevsAssumption DEF Ids
    <2>5. \A d \in Ids : devices'[d] = IF \E p \in Pages : consoleTab[p] = d THEN NULL ELSE devices[d]
      BY <2>1, <2>4
    <2>6. \A p \in Pages : ~(consoleTab'[p] >= 0)
      BY <2>1
    <2> QED
      BY <1>2, <1>4, <1>6, <2>3, <2>5, <2>6, PagesDeleted
  <1>8. CASE removeConsole(t)
    <2>1. /\ devices' = [d \in Ids |-> IF \E p \in Pages : consoleTab[p] = d THEN NULL ELSE devices[d]]
          /\ consoleTab' = [p \in Pages |-> IF consoleTab[p] >= 0 THEN -1 ELSE consoleTab[p]]
          /\ \A p \in Pages : ~ConsoleBusy(p)
      BY <1>8 DEF removeConsole
    <2>2. \A d \in Ids : devices'[d] = IF \E p \in Pages : consoleTab[p] = d THEN NULL ELSE devices[d]
      BY <2>1
    <2>3. \A p \in Pages : ~(consoleTab'[p] >= 0)
      BY <1>5, <2>1
    <2> QED
      BY <1>2, <1>4, <1>6, <2>1, <2>2, <2>3, PagesDeleted
  <1>9. CASE removed(t)
    <2>1. PagesStill /\ UNCHANGED devices
      BY <1>2, <1>9 DEF removed, PagesStill
    <2> QED
      BY <1>4, <1>6, <2>1, ReaderMoves
  <1>10. ASSUME NEW p \in Pages, deleteConsole(t, p) PROVE KeyInv'
    <2>1. /\ consoles /\ consoles' = consoles /\ consoleTab[p] >= 0 /\ ~ConsoleBusy(p)
          /\ consoleTab' = [consoleTab EXCEPT ![p] = -1] /\ deleteIOSysDevice(consoleTab[p])
      BY <1>10 DEF deleteConsole
    <2>2. \A d \in Ids : devices'[d] = IF d = consoleTab[p] THEN NULL ELSE devices[d]
      BY <2>1, OldDevice DEF IInv, TypesOK
    <2>3. \A d \in Ids : devices'[d] = IF \E q \in {p} : consoleTab[q] = d THEN NULL ELSE devices[d]
      BY <2>2
    <2>4. \A q \in Pages \ {p} : consoleTab'[q] = consoleTab[q]
      BY <1>5, <2>1
    <2> QED
      BY <1>2, <1>4, <1>6, <2>1, <2>3, <2>4, PagesDeleted
  <1> QED
    BY <1>7, <1>8, <1>9, <1>10

\* The serial driver, as the others see it, ...
LEMMA SerialAside ==
    ASSUME IInv, Ready, linked' = linked, SelectLines, Selecting, PortNotes, SerialStep
    PROVE  SleepersStay /\ EntriesOf("serial")
  <1>1. UNCHANGED <<mouseTab, readTask, mouseAt>> /\ TablesOK
    BY DEF SerialStep, mouseVars, readerState, IInv, TypesOK
  <1>2. \A ops : (Within(ops) /\ ops \in {SerialOps, {}}) => SleepersStay
    BY SleepersWithin DEF SerialOps
  <1>3. devices' = devices => EntriesOf("serial")
    BY DEF EntriesOf
  <1>4. CASE \E t \in Tasks : readTest(t) \/ readTake(t) \/ writeTest(t) \/ writeWoken(t) \/ writePut(t)
    <2>1. Within(SerialOps)
      BY <1>1, <1>4, PortCalls
    <2>2. devices' = devices
      BY <1>4 DEF readTest, readTake, writeTest, writeWoken, writePut
    <2> QED
      BY <1>2, <1>3, <2>1, <2>2
  <1>5. CASE \E p \in Ports : Arrives(p) \/ Transmitted(p) \/ ModemChanges(p)
    <2>1. UNCHANGED <<devices, call, asleep>>
      BY <1>5 DEF Arrives, Transmitted, ModemChanges
    <2> QED
      BY <1>3, <2>1 DEF SleepersStay
  <1>6. CASE \E p \in Ports : _serialTrap(p)
    <2>1. PICK p \in Ports : Notify(Woken(p), serialTab[p], call) /\ devices' = devices
      BY <1>6 DEF _serialTrap
    <2> QED
      BY <1>3, <2>1, SleepersNotified
  <1>7. CASE \E t \in Tasks : \/ removeSerial(t)
                              \/ \E p \in Ports, m \in {"BLK", "NBLK"} : createSerial(t, p, m) \/ deleteSerial(t, p)
    <2>1. Within({})
      BY <1>1, <1>7, PortsMade
    <2>2. ASSUME NEW t, removeSerial(t) PROVE EntriesOf("serial")
      BY <2>2 DEF removeSerial, EntriesOf
    <2>3. ASSUME NEW t, NEW p \in Ports, deleteSerial(t, p) PROVE EntriesOf("serial")
      <3>1. deleteIOSysDevice(serialTab[p])
        BY <2>3 DEF deleteSerial
      <3> QED
        BY <1>1, <3>1, OldDevice DEF EntriesOf
    <2>4. ASSUME NEW t, NEW p \in Ports, NEW m, createSerial(t, p, m) PROVE EntriesOf("serial")
      <3>1. newIOSysDevice(-1, Device("serial", p)) /\ "serial" \in Drvs /\ p \in Units
        BY <2>4 DEF createSerial, Drvs, Units
      <3>2. \A d \in Ids : devices'[d] # devices[d] => devices[d] = NULL /\ devices'[d] = Device("serial", p)
        BY <1>1, <3>1, NewDevice
      <3> QED
        BY <3>2, DeviceParts DEF EntriesOf
    <2>5. EntriesOf("serial")
      BY <1>7, <2>2, <2>3, <2>4
    <2> QED
      BY <1>2, <2>1, <2>5
  <1> QED
    BY <1>4, <1>5, <1>6, <1>7, ApplicationTasks DEF SerialStep

\* ... the mouse, ...
LEMMA MouseAside ==
    ASSUME IInv, Ready, linked' = linked, SelectLines, Selecting, MouseReading, PortNotes, MouseStep
    PROVE  SleepersStay /\ EntriesOf("mouse")
  <1>0. DOMAIN call = Tasks /\ MouseTask \in Tasks
    BY BytesAssumption DEF MouseStep, Ready, CallsOK
  <1>1. CASE \E t \in Applications : installMouse(t) \/ createMouse(t) \/ deleteMouse(t) \/ mouseDeleted(t)
    <2>1. PICK t \in Tasks \ {MouseTask} : installMouse(t) \/ createMouse(t) \/ deleteMouse(t) \/ mouseDeleted(t)
      BY <1>1, ApplicationTasks
    <2>2. EntriesOf("mouse")
      BY <2>1, MouseEntries
    <2>3. Within({"deleteMouse"})
      BY <2>1, MouseMade, QuietWithin
    <2> QED
      BY <2>2, <2>3, SleepersWithin
  <1>2. ASSUME UNCHANGED <<call, asleep, devices>> PROVE SleepersStay /\ EntriesOf("mouse")
    BY <1>2 DEF SleepersStay, EntriesOf
  <1>3. CASE mouseReaderOpen
    BY <1>2, <1>3 DEF mouseReaderOpen
  <1>4. CASE mouseReaderCheck
    <2>1. devices' = devices /\ asleep' = asleep
          /\ (call' = call \/ \E f : Enter(MouseTask, f) /\ f.op = "serialRead")
      BY <1>4 DEF mouseReaderCheck, serialVars
    <2>2. ASSUME NEW f, Enter(MouseTask, f), f.op = "serialRead" PROVE SleepersStay
      <3>1. call'[MouseTask].op = "serialRead" /\ \A u \in Tasks \ {MouseTask} : call'[u] = call[u]
        BY <1>0, <2>2 DEF Enter
      <3> QED
        BY <2>1, <3>1 DEF SleepersStay
    <2>3. EntriesOf("mouse")
      BY <2>1 DEF EntriesOf
    <2> QED
      BY <1>2, <2>1, <2>2, <2>3
  <1>5. CASE mouseReaderByte
    <2>1. devices' = devices /\ (UNCHANGED <<call, asleep>> \/ Notify(Selectors(mouseTab), mouseTab, call))
      BY <1>5 DEF mouseReaderByte, mouseDecode, serialVars
    <2>2. EntriesOf("mouse")
      BY <2>1 DEF EntriesOf
    <2> QED
      BY <1>2, <2>1, <2>2, SleepersNotified
  <1> QED
    BY <1>1, <1>3, <1>4, <1>5 DEF MouseStep

\* ... and the consoles, whose pages keep their keys.
LEMMA ConsoleEntries ==
    ASSUME IInv, ConsoleStep
    PROVE  EntriesOf("console")
  <1>1. TablesOK
    BY DEF IInv, TypesOK
  <1>2. ASSUME NEW t, NEW p \in Pages, deleteConsole(t, p) PROVE EntriesOf("console")
    <2>1. deleteIOSysDevice(consoleTab[p])
      BY <1>2 DEF deleteConsole
    <2> QED
      BY <1>1, <2>1, OldDevice DEF EntriesOf
  <1>3. ASSUME NEW t, NEW p \in Pages, createConsole(t, p) PROVE EntriesOf("console")
    <2>1. newIOSysDevice(-1, Device("console", p)) /\ "console" \in Drvs /\ p \in Units
      BY <1>3 DEF createConsole, Drvs, Units
    <2>2. \A d \in Ids : devices'[d] # devices[d] => devices[d] = NULL /\ devices'[d] = Device("console", p)
      BY <1>1, <2>1, NewDevice
    <2> QED
      BY <2>2, DeviceParts DEF EntriesOf
  <1>4. ASSUME NEW t, removeConsole(t) PROVE EntriesOf("console")
    BY <1>4 DEF removeConsole, EntriesOf
  <1>5. ASSUME \/ \E t : installConsole(t) \/ removed(t) \/ keyTest(t) \/ keyTake(t)
               \/ readTaskCheck \/ readTaskStore \/ (\E k : readTaskKey(k)) \/ \E p : readTaskFocus(p)
        PROVE  EntriesOf("console")
    <2>1. devices' = devices
      BY <1>5, Zenon DEF installConsole, removed, keyTest, keyTake, readTaskCheck, readTaskStore, readTaskKey, readTaskFocus
    <2> QED
      BY <2>1 DEF EntriesOf
  <1> QED
    BY <1>2, <1>3, <1>4, <1>5 DEF ConsoleStep

\* A step of the console driver keeps the keys.
LEMMA ConsoleKeys ==
    ASSUME IInv, Ready, linked' = linked, SelectLines, Selecting, PageNotes, KeyInv, ConsoleStep
    PROVE  KeyInv' /\ SleepersStay /\ EntriesOf("console")
  <1>1. UNCHANGED <<mouseTab, readTask, mouseAt>> /\ DOMAIN call = Tasks
    BY DEF ConsoleStep, mouseVars, readerState, Ready, CallsOK
  <1>2. EntriesOf("console")
    BY ConsoleEntries
  <1>3. CASE \E t \in Applications : keyTest(t) \/ keyTake(t)
    <2>1. PICK t \in Tasks \ {MouseTask} : keyTest(t) \/ keyTake(t)
      BY <1>3, ApplicationTasks
    <2>2. Within(ConsoleOps)
      BY <1>1, <2>1, KeysRead
    <2>3. SleepersStay
      BY <2>2, SleepersWithin DEF ConsoleOps
    <2>4. KeyInv'
      BY <1>1, <2>1, KeyTests, KeyTakes
    <2> QED
      BY <1>2, <2>3, <2>4
  <1>4. CASE \E t \in Applications : \/ \E p \in Pages : createConsole(t, p) \/ deleteConsole(t, p)
                                     \/ installConsole(t) \/ removeConsole(t) \/ removed(t)
    <2>1. PICK t \in Tasks \ {MouseTask} : \/ \E p \in Pages : createConsole(t, p) \/ deleteConsole(t, p)
                                           \/ installConsole(t) \/ removeConsole(t) \/ removed(t)
      BY <1>4, ApplicationTasks
    <2>2. Within({"removeConsole"})
      BY <1>1, <2>1, ConsolesMade
    <2>3. SleepersStay
      BY <2>2, SleepersWithin
    <2>4. KeyInv'
      BY <2>1, PageCreated, ConsolesInstalled
    <2> QED
      BY <1>2, <2>3, <2>4
  <1>5. CASE readTaskStore
    BY <1>2, <1>5, KeyStores
  <1>6. CASE readTaskCheck \/ (\E k \in Keys : readTaskKey(k)) \/ \E p \in Pages : readTaskFocus(p)
    BY <1>2, <1>6, KeyboardMoves
  <1> QED
    BY <1>3, <1>4, <1>5, <1>6 DEF ConsoleStep

\* The client calls.
LEMMA ClientKeys ==
    ASSUME ~SharedConsoles, Ready, SelectLines, KeyInv, Client
    PROVE  KeyInv'
  <1>0. DOMAIN call = Tasks
    BY DEF Ready, CallsOK
  <1>1. SleepersStay /\ devices' = devices
    BY ClientSleepers
  <1>2. PICK t \in Tasks \ {MouseTask} :
            \/ \E d \in Ids : \E n :
                /\ Serves(d, "serial") /\ PortFree(devices[d].unit)
                /\ serialRead(t, devices[d].unit, n) \/ serialWrite(t, devices[d].unit, n)
                /\ UNCHANGED <<pageVars, mouseAt>>
            \/ \E d \in Ids : \E n : Serves(d, "console") /\ consoleRead(t, devices[d].unit, n) /\ UNCHANGED <<portVars, mouseAt>>
            \/ UNCHANGED <<portVars, pageVars, mouseAt>> /\ SameIn(ReadOps)
    BY ClientCalls
  <1>3. ASSUME NEW d \in Ids, NEW n, Serves(d, "console"), consoleRead(t, devices[d].unit, n)
        PROVE  KeyInv'
    <2>1. PICK p \in Pages : p = devices[d].unit /\ consoleTab[p] = d
      BY <1>3 DEF KeyInv, PageIds
    <2>2. consoleTab[p] >= 0
      BY <2>1, DevsAssumption DEF Ids
    <2>3. PICK f : f.op = "consoleRead" /\ f.page = p /\ f.at = "test" /\ Enter(t, f)
      <3>1. consoleRead(t, p, n)
        BY <1>3, <2>1
      <3>2. PICK f : f = [op |-> "consoleRead", page |-> p, size |-> n, cnt |-> 0, at |-> "test", got |-> 0]
        OBVIOUS
      <3>3. Enter(t, f)
        BY <3>1, <3>2 DEF consoleRead
      <3> QED
        BY <3>2, <3>3
    <2>4. Idle(t) /\ ~ConsoleBusy(p) /\ UNCHANGED <<devices, asleep, pageVars>>
      BY <1>3, <2>1 DEF consoleRead, pageVars, consoleVars
    <2> QED
      BY <1>0, <2>2, <2>3, <2>4, PageBegins
  <1>4. ASSUME UNCHANGED pageVars, SameIn({"consoleRead"}) PROVE KeyInv'
    <2>1. PagesStill /\ ReaderKey' /\ NewestKey' = NewestKey
      BY <1>4 DEF pageVars, readerVars, PagesStill, KeysStill, KeyInv, ReaderKey, NewestKey
    <2>2. PICK n \in Nat : n = NewestKey
      BY NewestKeyIs DEF KeyInv
    <2>3. NewestKey <= NewestKey'
      BY <2>1, <2>2
    <2> QED
      BY <1>1, <1>4, <2>1, <2>3, ReaderMoves
  <1>5. ASSUME NEW p, NEW n, serialRead(t, p, n) \/ serialWrite(t, p, n) PROVE SameIn({"consoleRead"})
    <2>1. call[t].op = "out" /\ asleep' = asleep
          /\ \E op \in SerialOps : Enter(t, [op |-> op, port |-> p, left |-> n, at |-> "test", got |-> 0])
      BY <1>5 DEF serialRead, serialWrite, Idle, SerialOps
    <2>2. call'[t].op \in SerialOps /\ \A u \in Tasks \ {t} : call'[u] = call[u]
      BY <1>0, <2>1 DEF Enter
    <2> QED
      BY <2>1, <2>2 DEF SameIn, SerialOps
  <1>6. SameIn(ReadOps) => SameIn({"consoleRead"})
    BY DEF SameIn, ReadOps
  <1> QED
    BY <1>2, <1>3, <1>4, <1>5, <1>6

\* Steps elsewhere leave the pages alone.
LEMMA PagesUntouched ==
    ASSUME KeyInv, SelectLines, UNCHANGED pageVars, SleepersStay,
           NEW drv, drv # "console", EntriesOf(drv), SameIn({"consoleRead"})
    PROVE  KeyInv'
  <1>1. PagesStill /\ ReaderKey' /\ NewestKey' = NewestKey
    BY DEF pageVars, readerVars, PagesStill, KeysStill, KeyInv, ReaderKey, NewestKey
  <1>2. PICK n \in Nat : n = NewestKey
    BY NewestKeyIs DEF KeyInv
  <1>3. NewestKey <= NewestKey'
    BY <1>1, <1>2
  <1> QED
    BY <1>1, <1>3, PagesAside

\* Disks come and go without the others.
LEMMA DiskEntries ==
    ASSUME IInv, Ready, DiskStep
    PROVE  EntriesOf("disk")
  <1>1. TablesOK
    BY DEF IInv, TypesOK
  <1>2. ASSUME NEW t, NEW v \in Drives, deleteBIOSDisk(t, v) PROVE EntriesOf("disk")
    <2>1. deleteIOSysDevice(diskTab[v])
      BY <1>2 DEF deleteBIOSDisk
    <2> QED
      BY <1>1, <2>1, OldDevice DEF EntriesOf
  <1>3. ASSUME NEW t \in Tasks, diskAdd(t) PROVE EntriesOf("disk")
    <2>1. PICK v : v = call[t].drive /\ v \in Drives
      <3>1. call[t].op = "diskCreate" /\ "diskCreate" \in DiskOps
        BY <1>3 DEF diskAdd, Runs, DiskOps
      <3> QED
        BY <3>1, DiskCaller DEF DiskFrames
    <2>2. newIOSysDevice(-1, Device("disk", v)) /\ "disk" \in Drvs /\ v \in Units
      BY <1>3, <2>1 DEF diskAdd, Drvs, Units
    <2>3. \A d \in Ids : devices'[d] # devices[d] => devices[d] = NULL /\ devices'[d] = Device("disk", v)
      BY <1>1, <2>2, NewDevice
    <2> QED
      BY <2>3, DeviceParts DEF EntriesOf
  <1>4. ASSUME NEW t, removeBIOSDisk(t) PROVE EntriesOf("disk")
    BY <1>4 DEF removeBIOSDisk, EntriesOf
  <1>5. ASSUME \/ \E t : \/ \E v : createBIOSDisk(t, v)
                         \/ installBIOSDisk(t) \/ diskInstalled(t) \/ diskAsked(t)
                         \/ getBios(t) \/ diskOpenTimeout(t) \/ diskOpened(t) \/ diskSector(t)
               \/ \E v : MediaChanges(v)
        PROVE  EntriesOf("disk")
    <2>1. devices' = devices
      BY <1>5, Zenon DEF createBIOSDisk, installBIOSDisk, diskInstalled, diskAsked, getBios, diskOpenTimeout, diskOpened, diskSector, MediaChanges
    <2> QED
      BY <2>1 DEF EntriesOf
  <1> QED
    <2>1. CASE \E v \in Drives : MediaChanges(v)
      BY <1>5, <2>1
    <2>2. CASE ~\E v \in Drives : MediaChanges(v)
      <3>1. PICK t \in Tasks :
                \/ \E v \in Drives : createBIOSDisk(t, v) \/ deleteBIOSDisk(t, v)
                \/ installBIOSDisk(t) \/ diskInstalled(t) \/ removeBIOSDisk(t) \/ diskAsked(t) \/ diskAdd(t)
                \/ getBios(t) \/ diskOpenTimeout(t) \/ diskOpened(t) \/ diskSector(t)
        BY <2>2, ApplicationTasks DEF DiskStep
      <3>2. CASE \E v \in Drives : createBIOSDisk(t, v) \/ deleteBIOSDisk(t, v)
        BY <1>2, <1>5, <3>2
      <3>3. CASE \/ installBIOSDisk(t) \/ diskInstalled(t) \/ diskAsked(t)
                 \/ getBios(t) \/ diskOpenTimeout(t) \/ diskOpened(t) \/ diskSector(t)
        BY <1>5, <3>3
      <3> QED
        BY <1>3, <1>4, <3>1, <3>2, <3>3
    <2> QED
      BY <2>1, <2>2

\* What the drivers keep of bytes and keys.
Buffers == ByteInv /\ KeyInv

\* The steps of the drivers.
LEMMA DriverBuffers ==
    ASSUME ~SharedPorts, ~SharedConsoles, IInv, Ready, linked' = linked, SleepInv, Buffers, DriversStep
    PROVE  Buffers'
  <1>0. SelectLines /\ Selecting /\ MouseReading /\ PortNotes /\ PageNotes /\ ByteInv /\ KeyInv
    BY DEF SleepInv, Buffers
  <1>1. CASE Client
    BY <1>0, <1>1, ClientBytes, ClientKeys DEF Buffers
  <1>2. CASE SerialStep
    <2>1. ByteInv' /\ SleepersStay /\ EntriesOf("serial")
      BY <1>0, <1>2, SerialBytes, SerialAside
    <2>2. Within(SerialOps \cup {"select"})
      BY <1>0, <1>2, SerialSleeps
    <2>3. SameIn({"consoleRead"})
      BY <2>2, SameWithin DEF SerialOps
    <2>4. UNCHANGED pageVars
      BY <1>2 DEF SerialStep, consoleVars, pageVars
    <2> QED
      BY <1>0, <2>1, <2>3, <2>4, PagesUntouched DEF Buffers
  <1>3. CASE MouseStep
    <2>1. ByteInv' /\ SleepersStay /\ EntriesOf("mouse")
      BY <1>0, <1>3, MouseBytes, MouseAside
    <2>2. Within(MouseOps)
      BY <1>0, <1>3, MouseSleeps
    <2>3. SameIn({"consoleRead"})
      BY <2>2, SameWithin DEF MouseOps
    <2>4. UNCHANGED pageVars
      BY <1>3 DEF MouseStep, consoleVars, pageVars
    <2> QED
      BY <1>0, <2>1, <2>3, <2>4, PagesUntouched DEF Buffers
  <1>4. CASE ConsoleStep
    <2>1. KeyInv' /\ SleepersStay /\ EntriesOf("console")
      BY <1>0, <1>4, ConsoleKeys
    <2>2. Within(ConsoleOps \cup {"select"})
      BY <1>0, <1>4, ConsoleSleeps
    <2>3. SameIn(SerialOps)
      BY <2>2, SameWithin DEF ConsoleOps, SerialOps
    <2>4. UNCHANGED <<portVars, mouseAt>>
      BY <1>4 DEF ConsoleStep, serialVars, mouseVars, readerState, portVars
    <2> QED
      BY <1>0, <2>1, <2>3, <2>4, PortsAside DEF Buffers
  <1>5. CASE DiskStep
    <2>1. EntriesOf("disk")
      BY <1>5, DiskEntries
    <2>2. Within(DiskOps)
      BY <1>0, <1>5, DiskSleeps
    <2>3. SameIn(SerialOps) /\ SameIn({"consoleRead"}) /\ SleepersStay
      BY <2>2, SameWithin, SleepersWithin DEF DiskOps, SerialOps
    <2>4. UNCHANGED <<portVars, pageVars, mouseAt>>
      BY <1>5 DEF DiskStep, serialVars, mouseVars, readerState, consoleVars, portVars, pageVars
    <2> QED
      BY <1>0, <2>1, <2>3, <2>4, PortsAside, PagesUntouched DEF Buffers
  <1> QED
    BY <1>1, <1>2, <1>3, <1>4, <1>5 DEF DriversStep

\* Steps of the libraries leave the buffers alone.
LEMMA BuffersAside ==
    ASSUME Buffers, SelectLines, linked' = linked, UNCHANGED <<devices, serialVars, mouseVars, consoleVars>>,
           NEW ops, Within(ops), ops \cap DriverOps = {}
    PROVE  Buffers'
  <1>1. SameIn(SerialOps) /\ SameIn({"consoleRead"}) /\ SleepersStay
    <2>1. "select" \notin ops /\ "consoleRead" \notin ops /\ SerialOps \cap ops = {}
      BY DEF DriverOps, SerialOps, ConsoleOps
    <2>2. SerialOps \cap (ops \cup {"out"}) = {} /\ {"consoleRead"} \cap (ops \cup {"out"}) = {}
      BY <2>1 DEF SerialOps
    <2> QED
      BY <2>1, <2>2, SameWithin, SleepersWithin
  <1>2. EntriesOf("none")
    BY DEF EntriesOf
  <1>3. UNCHANGED <<portVars, pageVars, mouseAt>>
    BY DEF serialVars, mouseVars, readerState, consoleVars, portVars, pageVars
  <1> QED
    BY <1>1, <1>2, <1>3, PortsAside, PagesUntouched DEF Buffers

\* All steps.
LEMMA BuffersNext ==
    ASSUME ~SharedPorts, ~SharedConsoles, IInv, WindowsInv, SleepInv, Buffers, [Next]_vars
    PROVE  Buffers'
  <1>0. Ready /\ SelectLines
    BY DEF WindowsInv, SleepInv
  <1>1. ASSUME NEW ops \in {{}, {"fat"}}, MovesOnly(ops),
               UNCHANGED <<asleep, linked, devices, serialVars, mouseVars, consoleVars>>
        PROVE  Buffers'
    <2>1. Within(ops) /\ ops \cap DriverOps = {}
      BY <1>1, QuietWithin DEF DriverOps, SerialOps, ConsoleOps, DiskOps
    <2> QED
      BY <1>0, <1>1, <2>1, BuffersAside
  <1>2. CASE UNCHANGED vars \/ LoaderStep
    <2>1. UNCHANGED <<asleep, linked, devices, serialVars, mouseVars, consoleVars>> /\ call' = call
      <3>1. CASE UNCHANGED vars
        BY <3>1 DEF vars, driversVars
      <3>2. CASE LoaderStep
        BY <3>2 DEF LoaderStep, driversVars
      <3> QED
        BY <1>2, <3>1, <3>2
    <2>2. MovesOnly({})
      BY <1>0, <2>1, NoCall
    <2> QED
      BY <1>1, <2>1, <2>2
  <1>3. CASE DriverStep
    BY <1>0, <1>3, DriverBuffers DEF DriverStep
  <1>4. CASE X11Step
    <2>1. UNCHANGED <<linked, serialVars, mouseVars, consoleVars>>
      BY <1>4 DEF X11Step
    <2>2. Within(XOps) /\ devices' = devices
      BY <1>4, X11Sleeps
    <2>3. XOps \cap DriverOps = {}
      BY DEF XOps, DriverOps, SerialOps, ConsoleOps, DiskOps
    <2> QED
      BY <1>0, <2>1, <2>2, <2>3, BuffersAside
  <1>5. CASE DrawingStep
    <2>1. UNCHANGED <<asleep, linked, devices, serialVars, mouseVars, consoleVars>>
      BY <1>5 DEF DrawingStep
    <2>2. MovesOnly({})
      BY <1>0, <1>5, DrawingMoves
    <2> QED
      BY <1>1, <2>1, <2>2
  <1>6. CASE KernelStep
    <2>1. UNCHANGED <<asleep, linked, devices, serialVars, mouseVars, consoleVars>>
      BY <1>6 DEF KernelStep
    <2>2. MovesOnly({}) \/ MovesOnly({"fat"})
      BY <1>0, <1>6, KernelMoves
    <2> QED
      BY <1>1, <2>1, <2>2
  <1>7. CASE IdleStep
    <2>1. UNCHANGED <<linked, devices, serialVars, mouseVars, consoleVars>>
      BY <1>7 DEF IdleStep
    <2>2. Within(HookOps)
      BY <1>0, <1>7, HookSleeps DEF SleepInv
    <2>3. HookOps \cap DriverOps = {}
      BY DEF DriverOps, SerialOps, ConsoleOps, DiskOps, HookOps
    <2> QED
      BY <1>0, <2>1, <2>2, <2>3, BuffersAside
  <1> QED
    BY <1>2, <1>3, <1>4, <1>5, <1>6, <1>7 DEF Next

\* At first they are empty.
LEMMA BuffersInitial == ASSUME Init PROVE Buffers
  <1>1. /\ call = [t \in Tasks |-> Out] /\ asleep = {} /\ mouseAt = "none"
        /\ devices = [d \in Ids |-> IF d \in linked.others THEN Device("other", d) ELSE NULL]
        /\ SerialInit /\ ConsoleInit
    BY DEF Init, DriversInit, MouseInit
  <1>2. \A t \in Tasks : call[t].op = "out"
    BY <1>1 DEF Out
  <1>3. ASSUME NEW d \in Ids, Serves(d, "serial") \/ Serves(d, "console") PROVE FALSE
    <2>1. devices[d] # NULL /\ devices[d].drv \in {"serial", "console"}
      BY <1>3 DEF Serves, deviceError, EDEVICEID, EBADDEV
    <2>2. devices[d] = Device("other", d)
      BY <1>1, <2>1
    <2> QED
      BY <2>1, <2>2 DEF Device
  <1>4. PortCallers /\ PageCallers
    BY <1>2 DEF PortCallers, PageCallers, SerialOps
  <1>5. PortIds /\ PageIds
    BY <1>1, <1>3 DEF PortIds, PageIds, ConsoleInit
  <1>6. RingDomains /\ KeyDomains
    BY <1>1 DEF RingDomains, KeyDomains, SerialInit, ConsoleInit
  <1>7. SelectQuiet /\ KeySelectQuiet
    BY <1>1 DEF SelectQuiet, KeySelectQuiet
  <1>8. Transmitters /\ ReaderPort /\ ReaderKey
    BY <1>1, <1>2 DEF Transmitters, ReaderPort, ReaderKey, SerialInit, ConsoleInit
  <1>9. ASSUME NEW p \in Ports PROVE RingAt(p) /\ QuietAt(p)
    <2>1. ~Taking(p)
      BY <1>2 DEF Taking, Runs
    <2>2. /\ head[p] = 0 /\ tail[p] = 0 /\ ring[p] = [i \in Slots |-> 0] /\ taken[p] = 0 /\ arrived[p] = 0 /\ rbr[p] = 0
          /\ pendTask[p] = NULL /\ pendWhy[p] = "read"
      BY <1>1 DEF SerialInit
    <2>3. Met(p) = 0 /\ NewestByte(p) = 0
      BY <2>1, <2>2 DEF Met, NewestByte
    <2>4. PICK b : b = [i \in 0 .. RingSize - 1 |-> 0]
      OBVIOUS
    <2>5. b \in [0 .. RingSize - 1 -> Nat] /\ (\A i \in 0 .. RingSize - 1 : b[i] <= 0) /\ 0 \in 0 .. RingSize - 1
      BY <2>4, RingAssumption
    <2>6. Ringed(RingSize, 0, 0, b, 0, 0, 0)
      BY <2>5, RingEmpty, RingAssumption
    <2>7. ring[p] = b
      BY <2>2, <2>4 DEF Slots
    <2> QED
      BY <2>1, <2>2, <2>3, <2>6, <2>7 DEF RingAt, QuietAt
  <1>10. ASSUME NEW p \in Pages PROVE KeysAt(p) /\ KeyLappedAt(p)
    <2>1. ~KeyTaking(p)
      BY <1>2 DEF KeyTaking, Runs
    <2>2. /\ keyHead[p] = 0 /\ keyTail[p] = 0 /\ keyBuf[p] = [i \in KeySlots |-> NoKey] /\ keyTaken[p] = 0
          /\ keyTask[p] = NULL /\ pressed = 0 /\ readerAt = "none"
      BY <1>1 DEF ConsoleInit
    <2>3. KeyMet(p) = 0 /\ NewestKey = 0
      BY <2>1, <2>2 DEF KeyMet, NewestKey
    <2>4. PICK b : b = [i \in 0 .. KeyBufSize - 1 |-> 0]
      OBVIOUS
    <2>5. b \in [0 .. KeyBufSize - 1 -> Nat] /\ (\A i \in 0 .. KeyBufSize - 1 : b[i] <= 0) /\ 0 \in 0 .. KeyBufSize - 1
      BY <2>4, KeysAssumption
    <2>6. Ringed(KeyBufSize, 0, 0, b, 0, 0, 0)
      BY <2>5, RingEmpty, KeysAssumption
    <2>7. KeyNumbers(p) = b
      <3>1. \A i \in KeySlots : keyBuf[p][i].n = 0
        BY <2>2 DEF NoKey, Key
      <3> QED
        BY <2>4, <3>1 DEF KeySlots, KeyNumbers
    <2> QED
      BY <2>1, <2>2, <2>3, <2>6, <2>7 DEF KeysAt, KeyLappedAt
  <1> QED
    BY <1>4, <1>5, <1>6, <1>7, <1>8, <1>9, <1>10 DEF Buffers, ByteInv, KeyInv

-----------------------------------------------------------------------------
(* Events and buffers in all steps.                                        *)

\* A library that has no events leaves them alone.
LEMMA EventsAside ==
    ASSUME EventInv, NEW ops, Within(ops), "event" \notin ops, UNCHANGED <<displays, lapped11>>
    PROVE  EventInv'
  <1>1. ASSUME NEW t \in Tasks PROVE EventAt(t)'
    <2>1. ASSUME call[t].op = "event" \/ call'[t].op = "event" PROVE call'[t] = call[t] /\ (t \in asleep' <=> t \in asleep)
      <3>1. CASE call[t].op = "event"
        BY <3>1, OthersStay
      <3>2. CASE call'[t].op = "event"
        BY <3>2, OthersNew
      <3> QED
        BY <2>1, <3>1, <3>2
    <2> QED
      BY <2>1, EventStays DEF EventInv
  <1> QED
    BY <1>1 DEF EventInv

\* All steps.
LEMMA EventsNext ==
    ASSUME IInv, WindowsInv, SleepInv, EventInv, [Next]_vars
    PROVE  EventInv'
  <1>0. Ready /\ DisplayNotes
    BY DEF WindowsInv, SleepInv
  <1>1. ASSUME NEW ops \in {{}, {"fat"}}, MovesOnly(ops), UNCHANGED <<asleep, displays, lapped11>>
        PROVE  EventInv'
    <2>1. Within(ops) /\ "event" \notin ops
      BY <1>1, QuietWithin
    <2> QED
      BY <1>1, <2>1, EventsAside
  <1>2. CASE UNCHANGED vars \/ LoaderStep
    <2>1. UNCHANGED <<asleep, linked, displays, lapped11>> /\ call' = call
      <3>1. CASE UNCHANGED vars
        BY <3>1 DEF vars, driversVars, windowVars
      <3>2. CASE LoaderStep
        BY <3>2 DEF LoaderStep, driversVars, windowVars
      <3> QED
        BY <1>2, <3>1, <3>2
    <2>2. MovesOnly({})
      BY <1>0, <2>1, NoCall
    <2> QED
      BY <1>1, <2>1, <2>2
  <1>3. CASE DriverStep
    <2>1. UNCHANGED <<displays, lapped11>>
      BY <1>3 DEF DriverStep, windowVars
    <2>2. PICK ops : Within(ops) /\ ops \subseteq DriverOps
      BY <1>0, <1>3, DriverSleeps
    <2>3. "event" \notin ops
      BY <2>2 DEF DriverOps, SerialOps, ConsoleOps, DiskOps
    <2> QED
      BY <2>1, <2>2, <2>3, EventsAside
  <1>4. CASE X11Step
    <2>1. PICK t \in Tasks \ {MouseTask} : InstallXWindows(t) \/ RemoveXWindows(t) \/ WindowStep(t) \/ ColorStep(t)
      BY <1>0, <1>4, ApplicationTasks DEF X11Step
    <2>2. CASE WindowStep(t)
      BY <1>0, <2>2, WindowEvents
    <2>3. CASE InstallXWindows(t) \/ RemoveXWindows(t) \/ ColorStep(t)
      <3>1. UNCHANGED <<asleep, displays, lapped11>>
        BY <2>3 DEF InstallXWindows, RemoveXWindows, ColorStep, XAllocColorCells, XAllocColor, XStoreColor, XStoreColors,
                    windowVars
      <3>2. Idle(t) /\ \E value : Leave(t, value)
        BY <2>3 DEF InstallXWindows, RemoveXWindows, ColorStep, XAllocColorCells, XAllocColor, XStoreColor, XStoreColors
      <3>3. MovesOnly({})
        BY <1>0, <1>4, <3>2, OutMoves DEF X11Step
      <3> QED
        BY <1>1, <3>1, <3>3
    <2> QED
      BY <2>1, <2>2, <2>3
  <1>5. CASE DrawingStep
    <2>1. UNCHANGED <<asleep, displays, lapped11>>
      BY <1>5 DEF DrawingStep, windowVars
    <2>2. MovesOnly({})
      BY <1>0, <1>5, DrawingMoves
    <2> QED
      BY <1>1, <2>1, <2>2
  <1>6. CASE KernelStep
    <2>1. UNCHANGED <<asleep, displays, lapped11>>
      BY <1>6 DEF KernelStep, windowVars
    <2>2. MovesOnly({}) \/ MovesOnly({"fat"})
      BY <1>0, <1>6, KernelMoves
    <2> QED
      BY <1>1, <2>1, <2>2
  <1>7. CASE IdleStep
    <2>1. UNCHANGED <<displays, lapped11>>
      BY <1>7 DEF IdleStep, windowVars
    <2>2. Within(HookOps) /\ "event" \notin HookOps
      BY <1>0, <1>7, HookSleeps DEF SleepInv, HookOps
    <2> QED
      BY <2>1, <2>2, EventsAside
  <1> QED
    BY <1>2, <1>3, <1>4, <1>5, <1>6, <1>7 DEF Next

\* A step of the system keeps the pool.
LEMMA PoolNext ==
    ASSUME Ready, PoolInv, [Next]_vars
    PROVE  PoolInv'
  <1>1. ASSUME UNCHANGED poolVars PROVE PoolInv'
    BY <1>1 DEF poolVars, PoolInv
  <1>2. CASE KernelStep
    <2>1. PICK t \in Tasks : PoolStep(t) \/ UNCHANGED poolVars
      BY <1>2, ApplicationTasks DEF KernelStep
    <2> QED
      BY <1>1, <2>1, PoolKept
  <1>3. CASE ~KernelStep
    <2>1. UNCHANGED poolVars
      BY <1>3 DEF Next, DriverStep, X11Step, DrawingStep, LoaderStep, IdleStep, libraryVars, vars
    <2> QED
      BY <1>1, <2>1
  <1> QED
    BY <1>2, <1>3

\* At first there is no event, and no pool.
LEMMA EventsInitial == ASSUME Init PROVE EventInv /\ PoolInv
  <1>1. call = [t \in Tasks |-> Out] /\ displays = [t \in Tasks |-> NULL] /\ lapped11 = {} /\ asleep = {}
        /\ pool = NULL /\ held = [t \in Tasks |-> {}]
    BY DEF Init, DriversInit, WindowsInit, PoolInit
  <1>2. \A t \in Tasks : call[t].op = "out" /\ displays[t] = NULL /\ t \notin lapped11
    BY <1>1 DEF Out
  <1> QED
    BY <1>1, <1>2 DEF EventInv, EventAt, PoolInv

-----------------------------------------------------------------------------
(* What the mouse hears.                                                   *)

\* What the task of the mouse hears are bytes that arrived: it has read one when it decodes it
HeardInv ==
    /\ \A p \in Ports : arrived[p] <= MaxBytes
    /\ taken[MousePort] <= MaxBytes
    /\ (mouseAt = "byte" /\ Idle(MouseTask) /\ call[MouseTask].got = 1) => taken[MousePort] > 0

\* The packets, and what they are made of
MouseInv == HeardInv /\ PacketsInv

\* Nothing is heard, and no packet goes on.
LEMMA HeardStays ==
    ASSUME MouseInv, UNCHANGED <<taken, mseData, spoilt, lastByte>>, \A p \in Ports : arrived'[p] <= MaxBytes,
           \/ mouseAt' # "byte"
           \/ call'[MouseTask].op # "out"
           \/ mouseAt' = mouseAt /\ call'[MouseTask] = call[MouseTask]
    PROVE  MouseInv'
  BY DEF MouseInv, HeardInv, PacketsInv, Idle

\* Other libraries and drivers let the task of the mouse be.
LEMMA MouseAlone ==
    ASSUME MouseInv, Ready, NEW ops, MovesOnly(ops), "serialRead" \notin ops,
           UNCHANGED <<arrived, taken, mouseAt, mseData, spoilt, lastByte>>
    PROVE  MouseInv'
  <1>1. MouseTask \in Tasks /\ call[MouseTask].op \in {"out", "serialRead"}
    BY BytesAssumption DEF Ready
  <1>2. call'[MouseTask] = call[MouseTask]
    <2>1. call'[MouseTask] = call[MouseTask] \/ {call[MouseTask].op, call'[MouseTask].op} \subseteq ops \cup {"out"}
      BY <1>1 DEF MovesOnly
    <2>2. call'[MouseTask].op \in {"out", "serialRead"}
      BY DEF MovesOnly, Ready
    <2>3. (call[MouseTask].op = "out" /\ call'[MouseTask].op = "out") => call'[MouseTask] = call[MouseTask]
      BY DEF MovesOnly
    <2> QED
      BY <1>1, <2>1, <2>2, <2>3
  <1> QED
    BY <1>2, HeardStays DEF MouseInv, HeardInv

\* The calls of applications are not the mouse's.
LEMMA ClientHeard ==
    ASSUME Ready, MouseInv, Client
    PROVE  MouseInv'
  <1>1. PICK t \in Tasks \ {MouseTask} :
            \/ \E d \in Ids : \/ \E n \in 1 .. 2 : readDevice(t, d, n)
                              \/ writeDevice(t, d, 1)
                              \/ openDevice(t, d)
                              \/ ioctlDevice(t, d)
            \/ \E ds \in SUBSET Ids, type \in {"read", "write"} : select(t, type, ds)
            \/ selected(t)
    BY ApplicationTasks DEF Client
  <1>2. call' = call \/ \E f : call' = [call EXCEPT ![t] = f]
    BY <1>1 DEF readDevice, serialRead, consoleRead, mouseRead, diskTransfer, writeDevice, openDevice, ioctlDevice,
                serialWrite, consoleWrite, diskOpen, serialIoctl, consoleIoctl, mouseIoctl, select, selected, Enter, Leave
  <1>3. call'[MouseTask] = call[MouseTask]
    BY <1>2, BytesAssumption DEF Ready, CallsOK
  <1>4. UNCHANGED <<arrived, taken, mouseAt, mseData, spoilt, lastByte>>
    BY <1>1, ZenonT(60) DEF readDevice, serialRead, consoleRead, mouseRead, diskTransfer, writeDevice, openDevice, ioctlDevice,
                serialWrite, consoleWrite, diskOpen, serialIoctl, consoleIoctl, mouseIoctl, select, selected,
                serialVars, rxVars, mouseVars, readerState
  <1> QED
    BY <1>3, <1>4, HeardStays DEF MouseInv, HeardInv

\* A byte is taken from a port.
LEMMA TakenHeard ==
    ASSUME Ready, ByteInv, MouseReading, MouseInv, NEW t \in Tasks, readTake(t),
           UNCHANGED <<mouseAt, mseData, spoilt, lastByte>>
    PROVE  MouseInv'
  <1>1. PICK p \in Ports :
            /\ Runs(t, "serialRead", "take") /\ call[t].port = p
            /\ taken' = [taken EXCEPT ![p] = ring[p][tail[p]]] /\ arrived' = arrived
            /\ Enter(t, [call[t] EXCEPT !.left = @ - 1, !.at = "test"]) \/ Leave(t, 1)
    BY DEF readTake, rxVars
  <1>2. RingAt(p) /\ Met(p) = RingSize /\ DOMAIN taken = Ports
    BY <1>1 DEF ByteInv, RingDomains, Met, Taking
  <1>3. PICK k \in Nat : k = arrived[p] /\ NewestByte(p) \in Nat /\ NewestByte(p) <= k /\ k <= MaxBytes
    BY <1>2 DEF RingAt, NewestByte, MouseInv, HeardInv
  <1>4. PICK byte \in Nat : byte = ring[p][tail[p]] /\ byte > 0 /\ byte <= MaxBytes
    <2>1. Ringed(RingSize, head[p], tail[p], ring[p], taken[p], NewestByte(p), RingSize)
      BY <1>2 DEF RingAt
    <2>2. ring[p][tail[p]] > taken[p]
      BY <1>3, <2>1, RingTaken, RingAssumption
    <2>3. ring[p][tail[p]] \in Nat /\ taken[p] \in Nat /\ ring[p][tail[p]] <= NewestByte(p)
      BY <2>1 DEF Ringed
    <2> QED
      BY <1>3, <2>2, <2>3, RingAssumption
  <1>5. CASE p = MousePort
    <2>1. taken'[MousePort] = byte
      BY <1>1, <1>2, <1>4, <1>5
    <2> QED
      BY <1>1, <1>4, <2>1 DEF MouseInv, HeardInv, PacketsInv
  <1>6. CASE p # MousePort
    <2>1. taken'[MousePort] = taken[MousePort] /\ t # MouseTask
      BY <1>1, <1>2, <1>6, BytesAssumption DEF MouseReading, Runs
    <2>2. call'[MouseTask] = call[MouseTask]
      BY <1>1, <2>1, BytesAssumption DEF Ready, CallsOK, Enter, Leave
    <2> QED
      BY <1>1, <2>1, <2>2 DEF MouseInv, HeardInv, PacketsInv, Idle
  <1> QED
    BY <1>5, <1>6

\* The steps of the ports.
LEMMA SerialHeard ==
    ASSUME Ready, linked' = linked, ByteInv, MouseReading, MouseInv, SerialStep
    PROVE  MouseInv'
  <1>1. UNCHANGED <<mouseAt, mseData, spoilt, lastByte>> /\ MouseTask \in Tasks /\ DOMAIN call = Tasks
    BY BytesAssumption DEF SerialStep, mouseVars, readerState, Ready, CallsOK
  <1>2. ASSUME NEW t \in Tasks, readTest(t) PROVE MouseInv'
    <2>1. UNCHANGED <<arrived, taken>>
      BY <1>2 DEF readTest, rxVars
    <2>2. (\E at : Goto(t, at)) \/ Leave(t, 0)
      BY <1>2 DEF readTest
    <2>3. CASE t # MouseTask
      <3>1. call'[MouseTask] = call[MouseTask]
        BY <1>1, <2>2, <2>3 DEF Goto, Leave
      <3> QED
        BY <1>1, <2>1, <3>1, HeardStays DEF MouseInv, HeardInv
    <2>4. CASE t = MouseTask /\ Leave(t, 0)
      <3>1. call'[MouseTask].got = 0
        BY <1>1, <2>4 DEF Leave
      <3> QED
        BY <1>1, <2>1, <3>1 DEF MouseInv, HeardInv, PacketsInv
    <2>5. CASE t = MouseTask /\ \E at : Goto(t, at)
      <3>1. call'[MouseTask].op = "serialRead"
        <4>1. PICK at : call' = [call EXCEPT ![t].at = at]
          BY <2>5 DEF Goto
        <4>2. call[t].op = "serialRead"
          BY <1>2 DEF readTest, Runs
        <4> QED
          BY <1>1, <2>5, <4>1, <4>2
      <3> QED
        BY <1>1, <2>1, <3>1, HeardStays DEF MouseInv, HeardInv
    <2> QED
      BY <2>2, <2>3, <2>4, <2>5
  <1>3. ASSUME NEW t \in Tasks, writeTest(t) \/ writeWoken(t) \/ writePut(t) PROVE MouseInv'
    <2>1. t # MouseTask
      BY <1>3 DEF writeTest, writeWoken, writePut, Runs, Ready
    <2>2. call'[MouseTask] = call[MouseTask]
      BY <1>1, <1>3, <2>1 DEF writeTest, writeWoken, writePut, Goto, Leave, Enter
    <2>3. UNCHANGED <<arrived, taken>>
      BY <1>3 DEF writeTest, writeWoken, writePut, rxVars
    <2> QED
      BY <1>1, <2>2, <2>3, HeardStays DEF MouseInv, HeardInv
  <1>4. ASSUME call'[MouseTask] = call[MouseTask], taken' = taken, \A p \in Ports : arrived'[p] <= MaxBytes
        PROVE  MouseInv'
    BY <1>1, <1>4, HeardStays
  <1>5. ASSUME NEW t, NEW p, NEW m, createSerial(t, p, m) \/ deleteSerial(t, p) \/ removeSerial(t) PROVE MouseInv'
    <2>1. UNCHANGED <<call, taken, arrived>>
      BY <1>5 DEF createSerial, deleteSerial, removeSerial, rxVars
    <2> QED
      BY <1>4, <2>1 DEF MouseInv, HeardInv
  <1>6. ASSUME NEW p \in Ports, Arrives(p) \/ Transmitted(p) \/ ModemChanges(p) \/ _serialTrap(p) PROVE MouseInv'
    <2>1. call'[MouseTask] = call[MouseTask] /\ taken' = taken
      <3>1. call[MouseTask].op # "select"
        BY DEF Ready
      <3> QED
        BY <1>1, <1>6, <3>1 DEF Arrives, Transmitted, ModemChanges, _serialTrap, Notify
    <2>2. DOMAIN arrived = Ports /\ \A q \in Ports : arrived[q] <= MaxBytes
      BY DEF MouseInv, HeardInv, ByteInv, RingDomains
    <2>3. \A q \in Ports : arrived'[q] <= MaxBytes
      <3>1. CASE Arrives(p)
        <4>1. arrived' = [arrived EXCEPT ![p] = @ + 1] /\ arrived[p] < MaxBytes
          BY <3>1 DEF Arrives
        <4>2. arrived[p] + 1 <= MaxBytes
          BY <4>1, RingAssumption DEF ByteInv, RingAt
        <4> QED
          BY <2>2, <4>1, <4>2
      <3>2. CASE Transmitted(p) \/ ModemChanges(p)
        <4>1. arrived' = arrived
          BY <3>2 DEF Transmitted, ModemChanges, rxVars
        <4> QED
          BY <2>2, <4>1
      <3>3. CASE _serialTrap(p)
        <4>1. PICK n : arrived' = [arrived EXCEPT ![p] = n] /\ (n = arrived[p] \/ n <= MaxBytes)
          BY <3>3 DEF _serialTrap
        <4> QED
          BY <2>2, <4>1
      <3> QED
        BY <1>6, <3>1, <3>2, <3>3
    <2> QED
      BY <1>4, <2>1, <2>3
  <1> QED
    BY <1>1, <1>2, <1>3, <1>5, <1>6, TakenHeard DEF SerialStep

\* The steps of the mouse.
LEMMA MouseHeard ==
    ASSUME MouseType = "MICROSOFT", Movements \in Seq(MicrosoftMoves), MaxBytes <= 3 * Len(Movements),
           Ready, ByteInv, MouseInv, MouseStep
    PROVE  MouseInv'
  <1>0. MouseTask \in Tasks /\ DOMAIN call = Tasks
    BY BytesAssumption DEF Ready, CallsOK
  <1>1. ASSUME NEW t \in Tasks \ {MouseTask}, installMouse(t) \/ createMouse(t) \/ deleteMouse(t) \/ mouseDeleted(t)
        PROVE  MouseInv'
    <2>1. call'[MouseTask] = call[MouseTask] /\ UNCHANGED <<arrived, taken>>
      BY <1>0, <1>1 DEF installMouse, createMouse, deleteMouse, mouseDeleted, Enter, Leave, serialVars, rxVars
    <2>2. CASE createMouse(t)
      <3>1. mouseAt' = "open" /\ mseData' = <<>> /\ spoilt' = 0 /\ lastByte' = lastByte
        BY <2>2 DEF createMouse
      <3> QED
        BY <2>1, <3>1 DEF MouseInv, HeardInv, PacketsInv
    <2>3. CASE ~createMouse(t)
      <3>1. UNCHANGED <<mouseAt, mseData, spoilt, lastByte>>
        BY <1>1, <2>3 DEF installMouse, deleteMouse, mouseDeleted, mouseVars, readerState
      <3> QED
        BY <2>1, <3>1, HeardStays DEF MouseInv, HeardInv
    <2> QED
      BY <2>2, <2>3
  <1>2. CASE mouseReaderOpen \/ mouseReaderCheck
    <2>1. UNCHANGED <<arrived, taken, mseData, spoilt, lastByte>>
      BY <1>2 DEF mouseReaderOpen, mouseReaderCheck, serialVars, rxVars
    <2>2. mouseAt' # "byte" \/ call'[MouseTask].op # "out"
      BY <1>0, <1>2 DEF mouseReaderOpen, mouseReaderCheck, Mouse, Enter
    <2> QED
      BY <2>1, <2>2, HeardStays DEF MouseInv, HeardInv
  <1>3. CASE mouseReaderByte
    <2>1. mouseAt = "byte" /\ Idle(MouseTask) /\ mouseAt' # "byte" /\ UNCHANGED <<arrived, taken>>
      BY <1>3 DEF mouseReaderByte, serialVars, rxVars
    <2>2. taken[MousePort] \in Nat
      BY BytesAssumption DEF ByteInv, RingAt, Ringed
    <2>3. call[MouseTask].got = 1 => taken[MousePort] \in 1 .. MaxBytes
      BY <2>1, <2>2, RingAssumption DEF MouseInv, HeardInv
    <2>4. PacketsInv'
      BY <1>3, <2>3, PacketsGoOn DEF MouseInv
    <2> QED
      BY <2>1, <2>4 DEF MouseInv, HeardInv
  <1> QED
    BY <1>1, <1>2, <1>3, ApplicationTasks DEF MouseStep

\* All steps.
LEMMA MouseNext ==
    ASSUME MouseType = "MICROSOFT", Movements \in Seq(MicrosoftMoves), MaxBytes <= 3 * Len(Movements),
           IInv, WindowsInv, SleepInv, ByteInv, MouseInv, [Next]_vars
    PROVE  MouseInv'
  <1>0. Ready /\ MouseReading
    BY DEF WindowsInv, SleepInv
  <1>1. ASSUME UNCHANGED <<serialVars, mouseVars>>, NEW ops, MovesOnly(ops), "serialRead" \notin ops
        PROVE  MouseInv'
    <2>1. UNCHANGED <<arrived, taken, mouseAt, mseData, spoilt, lastByte>>
      BY <1>1 DEF serialVars, rxVars, mouseVars, readerState
    <2> QED
      BY <1>0, <1>1, <2>1, MouseAlone
  <1>2. CASE UNCHANGED vars \/ LoaderStep
    <2>1. UNCHANGED <<serialVars, mouseVars, call, linked>>
      <3>1. CASE UNCHANGED vars
        BY <3>1 DEF vars, driversVars
      <3>2. CASE LoaderStep
        BY <3>2 DEF LoaderStep, driversVars
      <3> QED
        BY <1>2, <3>1, <3>2
    <2>2. MovesOnly({})
      BY <1>0, <2>1, NoCall
    <2> QED
      BY <1>1, <2>1, <2>2
  <1>3. CASE DriverStep
    <2>0. linked' = linked /\ DriversStep
      BY <1>3 DEF DriverStep
    <2>1. CASE ConsoleStep \/ DiskStep
      <3>1. UNCHANGED <<serialVars, mouseVars>>
        BY <2>1 DEF ConsoleStep, DiskStep
      <3>2. MovesOnly(ConsoleOps \cup {"select"}) \/ MovesOnly(DiskOps)
        BY <1>0, <2>0, <2>1, ConsoleMoves, DiskOwnMoves
      <3>3. "serialRead" \notin ConsoleOps \cup {"select"} /\ "serialRead" \notin DiskOps
        BY DEF ConsoleOps, DiskOps
      <3> QED
        BY <1>1, <3>1, <3>2, <3>3
    <2> QED
      BY <1>0, <2>0, <2>1, ClientHeard, SerialHeard, MouseHeard DEF DriversStep
  <1>4. CASE X11Step \/ DrawingStep \/ KernelStep \/ IdleStep
    <2>1. UNCHANGED <<serialVars, mouseVars>>
      BY <1>4 DEF X11Step, DrawingStep, KernelStep, IdleStep
    <2>2. PICK ops \in {XOps, {}, {"fat"}, HookOps} : MovesOnly(ops)
      BY <1>0, <1>4, X11Moves, DrawingMoves, KernelMoves, IdleMoves
    <2>3. "serialRead" \notin ops
      BY DEF XOps, HookOps
    <2> QED
      BY <1>1, <2>1, <2>2, <2>3
  <1> QED
    BY <1>2, <1>3, <1>4 DEF Next

\* At first nothing was heard.
LEMMA MouseInitial == ASSUME Init PROVE MouseInv
  BY RingAssumption, BytesAssumption DEF Init, DriversInit, SerialInit, MouseInit, MouseInv, HeardInv, PacketsInv

-----------------------------------------------------------------------------
(* The theorems.                                                           *)

\* Each task takes what is there.
LEMMA TakesOnce ==
    ASSUME ByteInv, KeyInv, EventInv, PoolInv, \A t \in Tasks : call[t].op = "event" => displays[t] \in Displays
    PROVE  EachByteOnce
  <1>1. ASSUME NEW t \in Tasks, Runs(t, "serialRead", "take"), NEW p, p = call[t].port PROVE ring[p][tail[p]] > taken[p]
    <2>1. p \in Ports /\ Taking(p)
      BY <1>1 DEF ByteInv, PortCallers, SerialOps, Runs, Taking
    <2>2. RingAt(p) /\ Met(p) = RingSize
      BY <2>1 DEF ByteInv, Met
    <2>3. Ringed(RingSize, head[p], tail[p], ring[p], taken[p], NewestByte(p), RingSize) /\ NewestByte(p) \in Nat
      BY <2>2, NewestIs DEF RingAt
    <2> QED
      BY <2>3, RingTaken, RingAssumption
  <1>2. ASSUME NEW t \in Tasks, Runs(t, "consoleRead", "take"), NEW p, p = call[t].page
        PROVE  keyBuf[p][keyTail[p]].n > keyTaken[p]
    <2>1. p \in Pages /\ KeyTaking(p)
      BY <1>2 DEF KeyInv, PageCallers, Runs, KeyTaking
    <2>2. KeysAt(p) /\ KeyMet(p) = KeyBufSize /\ ReaderKey
      BY <2>1 DEF KeyInv, KeyMet
    <2>3. Ringed(KeyBufSize, keyHead[p], keyTail[p], KeyNumbers(p), keyTaken[p], NewestKey, KeyBufSize) /\ NewestKey \in Nat
      BY <2>2, NewestKeyIs DEF KeysAt
    <2>4. KeyNumbers(p)[keyTail[p]] > keyTaken[p]
      BY <2>3, RingTaken, KeysAssumption
    <2>5. keyTail[p] \in KeySlots
      BY <2>3 DEF Ringed, KeySlots
    <2> QED
      BY <2>4, <2>5 DEF KeyNumbers
  <1>3. ASSUME NEW t \in Tasks, Runs(t, "serialWrite", "put") PROVE call[t].port \in thre
    BY <1>3 DEF ByteInv, Transmitters, Runs
  <1>4. ASSUME NEW t \in Tasks, Runs(t, "event", "take"), NEW x, x = displays[t] PROVE x.queue[x.tail]
    <2>1. PICK d \in Displays : d = displays[t]
      BY <1>4 DEF Runs
    <2>2. EventRing(d, QueueSize)
      BY <1>4, <2>1, NoInfo DEF EventInv, EventAt, EventMet
    <2>3. PICK n \in Nat : n = QueueSize /\ n > 0
      BY XAssumption
    <2>4. d.head \in 0 .. n - 1 /\ d.tail \in 0 .. n - 1
      BY <2>3 DEF Displays
    <2>5. HoldUpTo(n, EventsIn(d), d.tail, Fill(n, d.head, d.tail, n))
      BY <2>2, <2>3 DEF EventRing
    <2>6. d.tail \in EventsIn(d)
      BY <2>3, <2>4, <2>5, EventTaken
    <2> QED
      BY <1>4, <2>1, <2>6 DEF EventsIn
  <1>5. ASSUME NEW t \in Tasks, NEW u \in Tasks \ {t} PROVE held[t] \cap held[u] = {}
    BY DEF PoolInv, HeldBeside
  <1>6. ASSUME NEW t \in Tasks, held[t] # {} PROVE held[t] \subseteq DOMAIN pool.next
    <2>1. PICK n \in PoolSizes : \E k \in Nat : \E L : FreeList(pool, n, k, L) /\ HeldBeside(held, n, k, L)
      BY <1>6 DEF PoolInv
    <2>2. held[t] \subseteq 1 .. n /\ pool \in Pools(n)
      BY <2>1 DEF FreeList, HeldBeside
    <2>3. DOMAIN pool.next = 1 .. n
      BY <2>2, PoolParts
    <2> QED
      BY <2>2, <2>3
  <1> QED
    BY <1>1, <1>2, <1>3, <1>4, <1>5, <1>6 DEF EachByteOnce

\* Nobody sleeps for what is there.
LEMMA NobodySleepsOn ==
    ASSUME asleep \subseteq Tasks, ByteInv, KeyInv, EventInv, Selecting,
           \A t \in Tasks : call[t].op = "event" => displays[t] \in Displays
    PROVE  NoLostWakeup
  <1>1. ASSUME NEW t \in Tasks, NEW p \in Ports, pendTask[p] = t, pendWhy[p] = "read" PROVE head[p] = tail[p] \/ p \in quiet
    BY <1>1, NoTask DEF ByteInv, QuietAt, Announced
  <1>2. ASSUME NEW t \in Tasks, NEW p \in Pages, keyTask[p] = t PROVE keyHead[p] = keyTail[p] \/ p \in lapped
    BY <1>2, NoTask DEF KeyInv, KeyLappedAt, KeysHidden
  <1>3. ASSUME NEW t \in asleep, call[t].op = "event", t \notin lapped11, NEW i \in 0 .. QueueSize - 1
        PROVE  ~displays[t].queue[i]
    <2>1. PICK d \in Displays : d = displays[t]
      BY <1>3
    <2>2. d.head = d.tail /\ EventOnly(d, EventMet(t)) /\ EventMet(t) = 0
      BY <1>3, <2>1, NoInfo DEF EventInv, EventAt, EventMet, Runs
    <2>3. PICK n \in Nat : n = QueueSize /\ n > 0
      BY XAssumption
    <2>4. d.tail \in 0 .. n - 1 /\ i \in 0 .. n - 1
      BY <2>3 DEF Displays
    <2>5. Fill(n, d.head, d.tail, 0) = 0
      BY <2>2 DEF Fill
    <2>6. Ahead(n, d.tail, i) \in 0 .. n - 1
      BY <2>3, <2>4, AheadIs
    <2>7. i \notin EventsIn(d)
      BY <2>2, <2>3, <2>4, <2>5, <2>6 DEF EventOnly, HoldNoMore
    <2> QED
      BY <2>1, <2>7 DEF EventsIn
  <1>4. ASSUME NEW t \in asleep, call[t].op = "select", call[t].type = "read", NEW d \in call[t].on, Readable(d)
        PROVE  \/ Serves(d, "serial") /\ devices[d].unit \in quiet
               \/ Serves(d, "console") /\ devices[d].unit \in lapped
    <2>1. d \in Ids
      BY <1>4 DEF Selecting, SelectFrames
    <2>2. CASE Serves(d, "serial") /\ serialNRead(devices[d].unit) # 0
      <3>1. PICK p : p = devices[d].unit
        OBVIOUS
      <3>2. p \in Ports /\ Announced(p)
        BY <1>4, <2>1, <2>2, <3>1 DEF ByteInv, PortIds, SelectQuiet
      <3>3. RingAt(p)
        BY <3>2 DEF ByteInv
      <3>4. head[p] \in Nat /\ tail[p] \in Nat
        BY <3>3, RingAssumption DEF RingAt, Ringed
      <3>5. head[p] # tail[p]
        BY <2>2, <3>1, <3>4 DEF serialNRead
      <3> QED
        BY <2>2, <3>1, <3>2, <3>5 DEF Announced
    <2>3. CASE Serves(d, "console") /\ consoleNRead(devices[d].unit) # 0
      <3>1. PICK p : p = devices[d].unit
        OBVIOUS
      <3>2. p \in Pages /\ KeysHidden(p)
        BY <1>4, <2>1, <2>3, <3>1 DEF KeyInv, PageIds, KeySelectQuiet
      <3>3. KeysAt(p)
        BY <3>2 DEF KeyInv
      <3>4. keyHead[p] \in Nat /\ keyTail[p] \in Nat
        BY <3>3, KeysAssumption DEF KeysAt, Ringed
      <3>5. keyHead[p] # keyTail[p]
        BY <2>3, <3>1, <3>4 DEF consoleNRead
      <3> QED
        BY <2>3, <3>1, <3>2, <3>5 DEF KeysHidden
    <2> QED
      BY <1>4, <2>2, <2>3 DEF Readable, mouseNRead
  <1>5. asleep \subseteq Tasks
    OBVIOUS
  <1> QED
    BY <1>1, <1>2, <1>3, <1>4, <1>5 DEF NoLostWakeup

\* Only tasks fall asleep.
LEMMA DriverSleepers ==
    ASSUME Ready, linked' = linked, DriversStep
    PROVE  asleep' \subseteq asleep \cup Tasks
  <1>1. CASE Client
    <2>1. PICK t \in Tasks :
              \/ \E d \in Ids : \/ \E n \in 1 .. 2 : readDevice(t, d, n)
                                \/ writeDevice(t, d, 1) \/ openDevice(t, d) \/ ioctlDevice(t, d)
              \/ \E ds \in SUBSET Ids : \E type \in {"read", "write"} : select(t, type, ds)
              \/ selected(t)
      BY <1>1, ApplicationTasks DEF Client
    <2>2. CASE \E d \in Ids : \/ \E n \in 1 .. 2 : readDevice(t, d, n)
                              \/ writeDevice(t, d, 1) \/ openDevice(t, d) \/ ioctlDevice(t, d)
      <3>1. asleep' = asleep
        BY <2>2 DEF readDevice, writeDevice, openDevice, ioctlDevice, serialRead, consoleRead, mouseRead, diskTransfer,
                    serialWrite, consoleWrite, diskOpen, serialIoctl, consoleIoctl, mouseIoctl
      <3> QED
        BY <3>1
    <2>3. CASE \E ds \in SUBSET Ids : \E type \in {"read", "write"} : select(t, type, ds)
      BY <2>3 DEF select
    <2>4. CASE selected(t)
      BY <2>4 DEF selected
    <2> QED
      BY <2>1, <2>2, <2>3, <2>4
  <1>2. CASE SerialStep
    <2>1. CASE \E p \in Ports : _serialTrap(p)
      BY <2>1 DEF _serialTrap, Notify, Resume
    <2>2. CASE \E p \in Ports : Arrives(p) \/ Transmitted(p) \/ ModemChanges(p)
      BY <2>2 DEF Arrives, Transmitted, ModemChanges
    <2>3. CASE \E t \in Tasks : readTest(t) \/ readTake(t) \/ writeTest(t) \/ writeWoken(t) \/ writePut(t)
      BY <2>3 DEF readTest, readTake, writeTest, writeWoken, writePut
    <2>4. CASE \/ \E t \in Applications, p \in Ports : (\E m \in {"BLK", "NBLK"} : createSerial(t, p, m)) \/ deleteSerial(t, p)
               \/ \E t \in Applications : removeSerial(t)
      BY <2>4 DEF createSerial, deleteSerial, removeSerial
    <2> QED
      BY <1>2, <2>1, <2>2, <2>3, <2>4 DEF SerialStep
  <1>3. CASE MouseStep
    BY <1>3 DEF MouseStep, installMouse, createMouse, deleteMouse, mouseDeleted, mouseReaderOpen, mouseReaderCheck,
                mouseReaderByte, mouseDecode, Notify, Resume
  <1>4. CASE ConsoleStep
    <2>1. CASE \E t \in Applications : keyTest(t)
      <3>1. PICK t \in Tasks : keyTest(t)
        BY <2>1, ApplicationTasks
      <3> QED
        BY <3>1 DEF keyTest
    <2>2. CASE readTaskStore
      BY <2>2 DEF readTaskStore, Notify, Resume
    <2>3. CASE \/ \E t \in Applications, p \in Pages : createConsole(t, p) \/ deleteConsole(t, p)
               \/ \E t \in Applications : installConsole(t) \/ removeConsole(t) \/ removed(t) \/ keyTake(t)
               \/ readTaskCheck \/ (\E k \in Keys : readTaskKey(k)) \/ \E p \in Pages : readTaskFocus(p)
      BY <2>3, Zenon DEF createConsole, deleteConsole, installConsole, removeConsole, removed, keyTake, readTaskCheck,
                  readTaskKey, readTaskFocus
    <2> QED
      BY <1>4, <2>1, <2>2, <2>3 DEF ConsoleStep
  <1>5. CASE DiskStep
    BY <1>5, Zenon DEF DiskStep, createBIOSDisk, deleteBIOSDisk, installBIOSDisk, diskInstalled, removeBIOSDisk, diskAsked, diskAdd,
                getBios, diskOpenTimeout, diskOpened, diskSector, MediaChanges
  <1> QED
    BY <1>1, <1>2, <1>3, <1>4, <1>5 DEF DriversStep

\* A step puts only tasks to sleep.
LEMMA SleepersNext ==
    ASSUME Ready, [Next]_vars
    PROVE  asleep' \subseteq asleep \cup Tasks
  <1>1. CASE DriverStep
    BY <1>1, DriverSleepers DEF DriverStep
  <1>2. CASE X11Step
    <2>1. PICK t \in Tasks : InstallXWindows(t) \/ RemoveXWindows(t) \/ WindowStep(t) \/ ColorStep(t)
      BY <1>2, ApplicationTasks DEF X11Step
    <2>2. CASE InstallXWindows(t) \/ RemoveXWindows(t) \/ ColorStep(t)
      BY <2>2 DEF InstallXWindows, RemoveXWindows, ColorStep, XAllocColorCells, XAllocColor, XStoreColor, XStoreColors
    <2>3. CASE XNextEvent(t) \/ eventTake(t)
      BY <2>3 DEF XNextEvent, eventTake
    <2>4. ASSUME NEW w, XIQueueEvent(w) PROVE asleep' \subseteq asleep
      BY <2>4 DEF XIQueueEvent, Resume
    <2>5. CASE walk(t) \/ \E w \in Windows : XMapWindow(t, w) \/ XSendEvent(t, w)
      BY <2>4, <2>5 DEF walk, XMapWindow, XSendEvent
    <2>6. CASE \/ XOpenDisplay(t) \/ destroyUnhook(t) \/ closeNext(t) \/ XCloseDisplay(t)
               \/ \E w \in Windows : \/ XUnmapWindow(t, w) \/ XDestroyWindow(t, w) \/ XSelectInput(t, w, TRUE)
                                     \/ \E parent, area : XCreateSimpleWindow(t, w, parent, area)
      BY <2>6, Zenon DEF XOpenDisplay, destroyUnhook, closeNext, XCloseDisplay, XUnmapWindow, XDestroyWindow, XSelectInput,
                  XCreateSimpleWindow
    <2>7. CASE WindowStep(t)
      BY <2>3, <2>5, <2>6, <2>7 DEF WindowStep
    <2> QED
      BY <2>1, <2>2, <2>7
  <1>3. CASE DrawingStep \/ LoaderStep \/ KernelStep \/ UNCHANGED vars
    BY <1>3 DEF DrawingStep, LoaderStep, KernelStep, vars, driversVars
  <1>4. CASE IdleStep
    <2>1. ASSUME putIdleSem PROVE asleep' \subseteq asleep
      BY <2>1 DEF putIdleSem, Resume
    <2>2. ASSUME NEW t \in Tasks, NEW frame, getIdleSem(t, frame) PROVE asleep' \subseteq asleep \cup Tasks
      BY <2>2 DEF getIdleSem
    <2>3. CASE \E t \in Applications, f \in Hooks \cup {NULL} : setIdleHook(t, f) \/ clearIdleHook(t, f)
      BY <2>2, <2>3, ApplicationTasks DEF setIdleHook, clearIdleHook
    <2>4. CASE HookStep
      BY <2>1, <2>4 DEF HookStep, idleGet, idleTest, idleCall, hookFind, hookStore
    <2> QED
      BY <1>4, <2>3, <2>4 DEF IdleStep
  <1> QED
    BY <1>1, <1>2, <1>3, <1>4 DEF Next

\* What is in the buffers, and who sleeps for it
Contents == Buffers /\ EventInv /\ PoolInv /\ asleep \subseteq Tasks

\* The four invariants together hold of every program that uses the libraries as they expect.
LEMMA ContentsNext ==
    ASSUME ~SharedPorts, ~SharedConsoles, IInv, WindowsInv, SleepInv, Contents, [Next]_vars
    PROVE  Contents'
  <1>1. Ready /\ Buffers /\ EventInv /\ PoolInv /\ asleep \subseteq Tasks
    BY DEF WindowsInv, Contents
  <1>2. Buffers' /\ EventInv' /\ PoolInv'
    BY <1>1, BuffersNext, EventsNext, PoolNext
  <1>3. asleep' \subseteq Tasks
    BY <1>1, SleepersNext
  <1> QED
    BY <1>2, <1>3 DEF Contents

\* At first nothing is in the buffers.
LEMMA ContentsInitial == ASSUME Init PROVE Contents
  <1>1. asleep = {}
    BY DEF Init, DriversInit
  <1> QED
    BY <1>1, BuffersInitial, EventsInitial DEF Contents

\* What is there is taken once, and nobody sleeps for it.
LEMMA ContentsSay == ASSUME WindowsInv, SleepInv, Contents PROVE EachByteOnce /\ NoLostWakeup
  <1>1. ASSUME NEW t \in Tasks, call[t].op = "event" PROVE displays[t] \in Displays
    BY <1>1 DEF WindowsInv, CallSound, Structure
  <1> QED
    BY <1>1, TakesOnce, NobodySleepsOn DEF Contents, Buffers, SleepInv

\* A task that has found a byte, a key or an event takes one that is there and that nobody took.
THEOREM BytesHold ==
    ASSUME ~SharedPorts, ~SharedConsoles, ~Recreates, "reinstall" \notin Misuses, "walk" \notin Misuses
    PROVE  Spec => []EachByteOnce
  <1>1. Init => WindowsInv /\ SleepInv /\ Contents
    BY WindowsInitial, SleepInitial, ContentsInitial
  <1>2. WindowsInv /\ [Next]_vars => WindowsInv'
    BY WindowsNext
  <1>3. IInv /\ WindowsInv /\ SleepInv /\ [Next]_vars => SleepInv'
    BY SleepNext
  <1>4. IInv /\ WindowsInv /\ SleepInv /\ Contents /\ [Next]_vars => Contents'
    BY ContentsNext
  <1>5. WindowsInv /\ SleepInv /\ Contents => EachByteOnce
    BY ContentsSay
  <1>6. Spec => []IInv
    BY Invariant
  <1> QED
    BY <1>1, <1>2, <1>3, <1>4, <1>5, <1>6, PTL DEF Spec

\* No task sleeps on for a byte, a key or an event that is there.
THEOREM WakeupsHold ==
    ASSUME ~SharedPorts, ~SharedConsoles, ~Recreates, "reinstall" \notin Misuses, "walk" \notin Misuses
    PROVE  Spec => []NoLostWakeup
  <1>1. Init => WindowsInv /\ SleepInv /\ Contents
    BY WindowsInitial, SleepInitial, ContentsInitial
  <1>2. WindowsInv /\ [Next]_vars => WindowsInv'
    BY WindowsNext
  <1>3. IInv /\ WindowsInv /\ SleepInv /\ [Next]_vars => SleepInv'
    BY SleepNext
  <1>4. IInv /\ WindowsInv /\ SleepInv /\ Contents /\ [Next]_vars => Contents'
    BY ContentsNext
  <1>5. WindowsInv /\ SleepInv /\ Contents => NoLostWakeup
    BY ContentsSay
  <1>6. Spec => []IInv
    BY Invariant
  <1> QED
    BY <1>1, <1>2, <1>3, <1>4, <1>5, <1>6, PTL DEF Spec

\* The reader of a Microsoft mouse is back in step one packet after each loss, and what it decodes is what the mouse said.
THEOREM MouseHolds ==
    ASSUME ~SharedPorts, ~SharedConsoles, ~Recreates, "reinstall" \notin Misuses, "walk" \notin Misuses,
           MouseType = "MICROSOFT", Movements \in Seq(MicrosoftMoves), MaxBytes <= 3 * Len(Movements)
    PROVE  Spec => []MouseResyncs
  <1>1. Init => WindowsInv /\ SleepInv /\ Contents /\ MouseInv
    BY WindowsInitial, SleepInitial, ContentsInitial, MouseInitial
  <1>2. WindowsInv /\ [Next]_vars => WindowsInv'
    BY WindowsNext
  <1>3. IInv /\ WindowsInv /\ SleepInv /\ [Next]_vars => SleepInv'
    BY SleepNext
  <1>4. IInv /\ WindowsInv /\ SleepInv /\ Contents /\ [Next]_vars => Contents'
    BY ContentsNext
  <1>5. IInv /\ WindowsInv /\ SleepInv /\ Contents /\ MouseInv /\ [Next]_vars => MouseInv'
    BY MouseNext DEF Contents, Buffers
  <1>6. MouseInv => MouseResyncs
    BY PacketDecoded DEF MouseInv, PacketsInv, MouseResyncs
  <1>7. Spec => []IInv
    BY Invariant
  <1> QED
    BY <1>1, <1>2, <1>3, <1>4, <1>5, <1>6, <1>7, PTL DEF Spec
=============================================================================
