------------------------------ MODULE BufPool -------------------------------
(***************************************************************************)
(* The buffer pools of litetask, kernel/clib/bufpool.c: buffers of one     *)
(* size in one block of memory, given out and taken back in constant time  *)
(* by tasks and interrupt handlers.                                        *)
(*                                                                         *)
(* Buffer i of a pool of n is the number i, and n + 1 is the address       *)
(* behind the last.  getBuffer() and putBuffer() run with interrupts off.  *)
(***************************************************************************)
EXTENDS IOSys

CONSTANT PoolSizes      \* bound: the buffers of a pool

\* What a pool of n buffers can look like; the null pointer is none, and no buffer
Pools(n) == [free : Nat, head : Nat \cup {NULL}, tail : Nat \cup {NULL}, next : [1 .. n -> Nat]]

ASSUME PoolAssumption == PoolSizes \subseteq Nat /\ NULL \notin Nat /\ \A n \in PoolSizes : NULL \notin Pools(n)

VARIABLES
    pool,           \* NULL, or the pool: its count, its list and the links of the buffers
    held            \* history: per task, the buffers it was given and has not put back

poolVars == <<pool, held>>

PoolInit == pool = NULL /\ held = [t \in Tasks |-> {}]

\* Every buffer is linked to the address behind it, the last one too: no NULL
\* ends the list.  A pool of no buffers is refused
createBufPool(t, n) ==
    /\ Idle(t) /\ pool = NULL
    /\ pool' = IF n = 0 THEN NULL
               ELSE [free |-> n, head |-> 1, tail |-> n, next |-> [i \in 1 .. n |-> i + 1]]
    /\ Leave(t, 0)
    /\ UNCHANGED held

\* By callers that have put every buffer back
deleteBufPool(t) ==
    /\ Idle(t) /\ pool # NULL /\ \A u \in Tasks : held[u] = {}
    /\ pool' = NULL
    /\ Leave(t, 0)
    /\ UNCHANGED held

\* The tail is forgotten with the last buffer, and what is then the head with it
getBuffer(t) ==
    /\ Idle(t) /\ pool # NULL
    /\ IF pool.free = 0
       THEN UNCHANGED poolVars /\ Leave(t, 0)
       ELSE /\ held' = [held EXCEPT ![t] = @ \cup {pool.head}]
            /\ pool' = [pool EXCEPT !.free = @ - 1, !.tail = IF pool.free = 1 THEN NULL ELSE @,
                                    !.head = IF @ \in DOMAIN pool.next THEN pool.next[@] ELSE NULL]
            /\ Leave(t, pool.head)

\* Task t puts back buffer b, which u was given
putBuffer(t, u, b) ==
    /\ Idle(t) /\ pool # NULL /\ b \in held[u]
    /\ held' = [held EXCEPT ![u] = @ \ {b}]
    /\ pool' = IF pool.tail = NULL
               THEN [pool EXCEPT !.free = @ + 1, !.tail = b, !.head = b]
               ELSE [pool EXCEPT !.free = @ + 1, !.tail = b, !.next[pool.tail] = b]
    /\ Leave(t, 0)

PoolStep(t) ==
    \/ \E n \in PoolSizes : createBufPool(t, n)
    \/ deleteBufPool(t) \/ getBuffer(t)
    \/ \E u \in Tasks : \E b \in held[u] : putBuffer(t, u, b)
=============================================================================
