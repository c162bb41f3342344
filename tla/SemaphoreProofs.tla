-------------------------- MODULE SemaphoreProofs ---------------------------
(***************************************************************************)
(* Proofs about Semaphore, for every set of tasks and semaphores, with or  *)
(* without the race to start the timer.                                    *)
(***************************************************************************)
EXTENDS SemaphoreTime, LinkedLists, WellFoundedInduction, TLAPS

Waiting(t, s) == pc[t] = "suspended" /\ psem[t] = s

\* A wait is a wait for a semaphore, and a call of the timer is one of its
\* tick's.
TypeInv ==
    /\ TypeOK
    /\ \A t \in Tasks : pc[t] \in {"suspended", "SEM_AQUIRED"} => psem[t] \in Sems
    /\ walking => firing # 0

\* Who owns a lock knows it, or is just being told.
OwnInv ==
    /\ \A t \in Tasks : \A s \in held[t] : s \in Mutexes /\ owner[s] = t
    /\ \A t \in Tasks : (pc[t] = "SEM_AQUIRED" /\ psem[t] \in Mutexes) => owner[psem[t]] = t
    /\ OwnerKnows
    /\ \A s \in Sems : owner[s] # NULL => s \in valid

\* The links of a queue, stated about each entry and its neighbours.
QueueInv ==
    /\ \A s \in Sems :
         /\ qhead[s] # NULL => Waiting(qhead[s], s) /\ qprev[qhead[s]] = NULL
         /\ qtail[s] # NULL => Waiting(qtail[s], s) /\ qnext[qtail[s]] = NULL
         /\ qhead[s] = NULL <=> qtail[s] = NULL
    /\ \A t \in Tasks : pc[t] = "suspended" =>
         /\ IF qprev[t] = NULL THEN qhead[psem[t]] = t
            ELSE Waiting(qprev[t], psem[t]) /\ qnext[qprev[t]] = t
         /\ IF qnext[t] = NULL THEN qtail[psem[t]] = t
            ELSE Waiting(qnext[t], psem[t]) /\ qprev[qnext[t]] = t

\* The links run in no circle: entries can be ranked along them.
Ranked(rank) ==
    \A t \in Tasks : (pc[t] = "suspended" /\ qprev[t] # NULL) => rank[qprev[t]] < rank[t]
RankInv == \E rank \in [Tasks -> Nat] : Ranked(rank)

IInv == TypeInv /\ OwnInv /\ QueueInv /\ RankInv /\ WaitersBlocked

\* If anybody waits for a semaphore, its queue has a head: the waiter of the
\* least rank.
LEMMA WaiterHasHead ==
    ASSUME TypeInv, QueueInv, RankInv, NEW s \in Sems, NEW t \in Tasks, Waiting(t, s)
    PROVE  qhead[s] # NULL
  <1>1. PICK rank \in [Tasks -> Nat] : Ranked(rank)
    BY DEF RankInv
  <1> DEFINE R == {rank[u] : u \in {v \in Tasks : Waiting(v, s)}}
             Less == OpToRel(<, Nat)
  <1>2. R \subseteq Nat /\ R # {}
    BY <1>1
  <1>3. PICK n \in R : \A m \in R : <<m, n>> \notin Less
    BY <1>2, NatLessThanWellFounded, WFMin
  <1>4. \A m \in R : ~(m < n)
    BY <1>2, <1>3 DEF OpToRel
  <1>5. PICK u \in Tasks : Waiting(u, s) /\ rank[u] = n
    BY <1>3
  <1>6. qprev[u] = NULL
    <2> SUFFICES ASSUME qprev[u] # NULL PROVE FALSE
      OBVIOUS
    <2>1. qprev[u] \in Tasks /\ Waiting(qprev[u], s)
      BY <1>5 DEF TypeInv, TypeOK, Ptr, QueueInv, Waiting
    <2>2. rank[qprev[u]] < rank[u]
      BY <1>1, <1>5 DEF Ranked, Waiting
    <2> QED
      BY <1>4, <1>5, <2>1, <2>2
  <1> QED
    BY <1>5, <1>6, NamesAssumption DEF QueueInv, Waiting

\* An entry leaves its queue, from its front or from anywhere in it.
LEMMA Unqueue ==
    ASSUME TypeInv, QueueInv, RankInv, NEW e \in Tasks, pc[e] = "suspended",
           unqueue(e, qprev[e]), UNCHANGED psem,
           NEW point \in {"SEM_AQUIRED", "SEM_TIMEOUT"}, GoTo(e, point)
    PROVE  /\ QueueInv' /\ RankInv'
           /\ qhead' \in [Sems -> Ptr] /\ qtail' \in [Sems -> Ptr]
           /\ qnext' \in [Tasks -> Ptr] /\ qprev' \in [Tasks -> Ptr]
           /\ pc' \in [Tasks -> {"out", "starting", "suspended", "SEM_AQUIRED", "SEM_TIMEOUT"}]
  <1> USE NamesAssumption
  <1>1. /\ qhead' \in [Sems -> Ptr] /\ qtail' \in [Sems -> Ptr]
        /\ qnext' \in [Tasks -> Ptr] /\ qprev' \in [Tasks -> Ptr]
        /\ pc' \in [Tasks -> {"out", "starting", "suspended", "SEM_AQUIRED", "SEM_TIMEOUT"}]
    BY DEF TypeInv, TypeOK, unqueue, GoTo, Ptr
  <1>2. ASSUME NEW s \in Sems
        PROVE  /\ (qhead[s] # NULL => Waiting(qhead[s], s) /\ qprev[qhead[s]] = NULL)'
               /\ (qtail[s] # NULL => Waiting(qtail[s], s) /\ qnext[qtail[s]] = NULL)'
               /\ (qhead[s] = NULL <=> qtail[s] = NULL)'
    BY <1>2 DEF TypeInv, TypeOK, unqueue, GoTo, Ptr, QueueInv, Waiting
  <1>3. ASSUME NEW t \in Tasks, pc'[t] = "suspended"
        PROVE  /\ (IF qprev[t] = NULL THEN qhead[psem[t]] = t
                   ELSE Waiting(qprev[t], psem[t]) /\ qnext[qprev[t]] = t)'
               /\ (IF qnext[t] = NULL THEN qtail[psem[t]] = t
                   ELSE Waiting(qnext[t], psem[t]) /\ qprev[qnext[t]] = t)'
    BY <1>3 DEF TypeInv, TypeOK, unqueue, GoTo, Ptr, QueueInv, Waiting
  <1>4. RankInv'
    <2>1. PICK rank \in [Tasks -> Nat] : Ranked(rank)
      BY DEF RankInv
    <2>2. ASSUME NEW t \in Tasks, pc'[t] = "suspended", qprev'[t] # NULL
          PROVE  rank[qprev'[t]] < rank[t]
      <3>1. pc[t] = "suspended" /\ t # e
        BY <2>2 DEF TypeInv, TypeOK, GoTo
      <3>2. CASE t = qnext[e]
        <4>1. qprev'[t] = qprev[e]
          BY <3>2 DEF TypeInv, TypeOK, unqueue
        <4>2. qprev[t] = e
          BY <3>2 DEF QueueInv, Waiting
        <4>3. qprev[e] \in Tasks
          BY <2>2, <4>1 DEF TypeInv, TypeOK, Ptr
        <4>4. rank[qprev[e]] < rank[e] /\ rank[e] < rank[t]
          BY <2>1, <2>2, <3>1, <4>1, <4>2 DEF Ranked
        <4> QED
          BY <4>1, <4>3, <4>4
      <3>3. CASE t # qnext[e]
        <4>1. qprev'[t] = qprev[t]
          BY <3>3 DEF TypeInv, TypeOK, unqueue
        <4> QED
          BY <2>1, <2>2, <3>1, <4>1 DEF Ranked
      <3> QED
        BY <3>2, <3>3
    <2> QED
      BY <2>1, <2>2 DEF RankInv, Ranked
  <1> QED
    BY <1>1, <1>2, <1>3, <1>4 DEF QueueInv

\* An entry joins the queue: it ranks above the one that was last.
LEMMA Enqueue ==
    ASSUME TypeInv, QueueInv, RankInv, NEW t \in Tasks, NEW s \in Sems,
           pc[t] = "out", enqueue(t, s), GoTo(t, "suspended")
    PROVE  /\ QueueInv' /\ RankInv'
           /\ qhead' \in [Sems -> Ptr] /\ qtail' \in [Sems -> Ptr]
           /\ qnext' \in [Tasks -> Ptr] /\ qprev' \in [Tasks -> Ptr]
           /\ psem' \in [Tasks -> Sems \cup {NULL}]
           /\ pc' \in [Tasks -> {"out", "starting", "suspended", "SEM_AQUIRED", "SEM_TIMEOUT"}]
  <1> USE NamesAssumption
  <1>1. /\ qhead' \in [Sems -> Ptr] /\ qtail' \in [Sems -> Ptr]
        /\ qnext' \in [Tasks -> Ptr] /\ qprev' \in [Tasks -> Ptr]
        /\ psem' \in [Tasks -> Sems \cup {NULL}]
        /\ pc' \in [Tasks -> {"out", "starting", "suspended", "SEM_AQUIRED", "SEM_TIMEOUT"}]
    BY DEF TypeInv, TypeOK, enqueue, GoTo, Ptr
  <1>2. ASSUME NEW r \in Sems
        PROVE  /\ (qhead[r] # NULL => Waiting(qhead[r], r) /\ qprev[qhead[r]] = NULL)'
               /\ (qtail[r] # NULL => Waiting(qtail[r], r) /\ qnext[qtail[r]] = NULL)'
               /\ (qhead[r] = NULL <=> qtail[r] = NULL)'
    BY <1>2 DEF TypeInv, TypeOK, enqueue, GoTo, Ptr, QueueInv, Waiting
  <1>3. ASSUME NEW u \in Tasks, pc'[u] = "suspended"
        PROVE  /\ (IF qprev[u] = NULL THEN qhead[psem[u]] = u
                   ELSE Waiting(qprev[u], psem[u]) /\ qnext[qprev[u]] = u)'
               /\ (IF qnext[u] = NULL THEN qtail[psem[u]] = u
                   ELSE Waiting(qnext[u], psem[u]) /\ qprev[qnext[u]] = u)'
    BY <1>3 DEF TypeInv, TypeOK, enqueue, GoTo, Ptr, QueueInv, Waiting
  <1>4. RankInv'
    <2>1. PICK rank \in [Tasks -> Nat] : Ranked(rank)
      BY DEF RankInv
    <2> DEFINE last == qtail[s]
               above == [rank EXCEPT ![t] = IF last = NULL THEN 0 ELSE rank[last] + 1]
    <2>2. last \in Ptr /\ above \in [Tasks -> Nat]
      BY DEF TypeInv, TypeOK, Ptr
    <2>3. ASSUME NEW u \in Tasks, pc'[u] = "suspended", qprev'[u] # NULL
          PROVE  above[qprev'[u]] < above[u]
      <3>1. CASE u = t
        <4>1. qprev'[u] = last /\ last \in Tasks /\ last # t
          BY <2>2, <2>3, <3>1 DEF TypeInv, TypeOK, Ptr, enqueue, QueueInv, Waiting
        <4> QED
          BY <3>1, <4>1
      <3>2. CASE u # t
        <4>1. pc[u] = "suspended" /\ qprev'[u] = qprev[u]
          BY <2>3, <3>2 DEF TypeInv, TypeOK, enqueue, GoTo
        <4>2. qprev[u] \in Tasks /\ qprev[u] # t
          BY <2>3, <4>1 DEF TypeInv, TypeOK, Ptr, QueueInv, Waiting
        <4>3. rank[qprev[u]] < rank[u]
          BY <2>1, <2>3, <4>1 DEF Ranked
        <4> QED
          BY <3>2, <4>1, <4>2, <4>3
      <3> QED
        BY <3>1, <3>2
    <2> HIDE DEF above
    <2> QED
      BY <2>2, <2>3 DEF RankInv, Ranked
  <1> QED
    BY <1>1, <1>2, <1>3, <1>4 DEF QueueInv

\* What a step does to entries that are not queued does not matter.
LEMMA QueueFrame ==
    ASSUME TypeInv, QueueInv, RankInv, UNCHANGED <<qhead, qtail>>,
           \A t \in Tasks : pc'[t] = "suspended" <=> pc[t] = "suspended",
           \A t \in Tasks : pc[t] = "suspended" =>
               qnext'[t] = qnext[t] /\ qprev'[t] = qprev[t] /\ psem'[t] = psem[t]
    PROVE  QueueInv' /\ RankInv'
  <1> USE NamesAssumption
  <1>1. QueueInv'
    BY DEF TypeInv, TypeOK, Ptr, QueueInv, Waiting
  <1>2. RankInv'
    BY DEF TypeInv, TypeOK, Ptr, RankInv, Ranked
  <1> QED
    BY <1>1, <1>2

\* Nobody waits in the beginning.
LEMMA InitInv == Init => IInv
  <1> SUFFICES ASSUME Init PROVE IInv
    OBVIOUS
  <1>1. TypeInv
    <2>1. /\ pc \in [Tasks -> {"out", "starting", "suspended", "SEM_AQUIRED", "SEM_TIMEOUT"}]
          /\ held \in [Tasks -> SUBSET Sems]
      BY DEF Init
    <2>2. \A t \in Tasks : pc[t] \notin {"suspended", "SEM_AQUIRED"}
      BY DEF Init
    <2>3. /\ valid \subseteq Sems
          /\ owner \in [Sems -> Ptr] /\ qhead \in [Sems -> Ptr] /\ qtail \in [Sems -> Ptr]
          /\ qnext \in [Tasks -> Ptr] /\ qprev \in [Tasks -> Ptr]
          /\ tnext \in [Tasks -> Ptr] /\ tprev \in [Tasks -> Ptr]
          /\ psem \in [Tasks -> Sems \cup {NULL}]
      BY DEF Init, Ptr
    <2>4. /\ timeout \in [Tasks -> Int] /\ remaining \in [Tasks -> Nat]
          /\ timeoutList \in Ptr /\ next \in Ptr
          /\ timerRunning = FALSE /\ timers = 0 /\ firing = 0 /\ walking = FALSE
      BY DEF Init, Ptr
    <2> QED
      BY <2>1, <2>2, <2>3, <2>4 DEF TypeInv, TypeOK
  <1>2. OwnInv
    BY DEF Init, OwnInv, OwnerKnows, Mutexes
  <1>3. QueueInv /\ WaitersBlocked
    BY DEF Init, QueueInv, WaitersBlocked
  <1>4. RankInv
    <2>1. [t \in Tasks |-> 0] \in [Tasks -> Nat]
      OBVIOUS
    <2>2. Ranked([t \in Tasks |-> 0])
      BY DEF Init, Ranked
    <2> QED
      BY <2>1, <2>2 DEF RankInv
  <1> QED
    BY <1>1, <1>2, <1>3, <1>4 DEF IInv

\* The calls.
LEMMA InitSemaphoreInv ==
    ASSUME IInv, NEW t \in Tasks, NEW s \in Sems, initSemaphore(t, s)
    PROVE  IInv'
  <1> USE NamesAssumption DEF initSemaphore, entryVars, timeVars, timerVars, tickVars, taskVars
  <1>1. owner[s] = NULL
    BY DEF IInv, OwnInv
  <1>2. qhead[s] = NULL /\ qtail[s] = NULL
    BY <1>1 DEF IInv, TypeInv, TypeOK, Ptr, QueueInv, WaitersBlocked, Waiting
  <1>3. qhead' = qhead /\ qtail' = qtail /\ owner' = owner
    BY <1>1, <1>2 DEF IInv, TypeInv, TypeOK
  <1>4. TypeInv'
    BY <1>3 DEF IInv, TypeInv, TypeOK
  <1>5. OwnInv'
    BY <1>3 DEF IInv, OwnInv, OwnerKnows
  <1>6. QueueInv' /\ RankInv'
    BY <1>3, QueueFrame DEF IInv
  <1>7. WaitersBlocked'
    BY <1>3 DEF IInv, WaitersBlocked
  <1> QED
    BY <1>4, <1>5, <1>6, <1>7 DEF IInv

\* getSemaphore() that does not have to wait keeps the invariant.
LEMMA GetSemaphoreInv ==
    ASSUME IInv, NEW t \in Tasks, NEW s \in Sems, getSemaphore(t, s)
    PROVE  IInv'
  <1> USE NamesAssumption
      DEF getSemaphore, Calls, At, entryVars, timeVars, timerVars, tickVars
  <1>1. TypeInv'
    BY DEF IInv, TypeInv, TypeOK, Ptr
  <1>2. OwnInv'
    BY DEF IInv, TypeInv, TypeOK, Ptr, OwnInv, OwnerKnows, Mutexes
  <1>3. QueueInv' /\ RankInv'
    BY QueueFrame DEF IInv
  <1>4. WaitersBlocked'
    BY DEF IInv, TypeInv, TypeOK, Ptr, WaitersBlocked
  <1> QED
    BY <1>1, <1>2, <1>3, <1>4 DEF IInv

\* A task that queues up keeps the invariant.
LEMMA WaitInv ==
    ASSUME IInv, NEW t \in Tasks, NEW s \in Sems, NEW n \in Timeouts \cup {NOTIMEOUT}, Wait(t, s, n)
    PROVE  IInv'
  <1> USE NamesAssumption DEF Wait, Calls, At, timerVars, tickVars
  <1>1. /\ QueueInv' /\ RankInv'
        /\ qhead' \in [Sems -> Ptr] /\ qtail' \in [Sems -> Ptr]
        /\ qnext' \in [Tasks -> Ptr] /\ qprev' \in [Tasks -> Ptr]
        /\ psem' \in [Tasks -> Sems \cup {NULL}]
        /\ pc' \in [Tasks -> {"out", "starting", "suspended", "SEM_AQUIRED", "SEM_TIMEOUT"}]
    BY Enqueue DEF IInv
  <1>2. n \in Int /\ (n > 0 => n \in Nat)
    <2>1. NOTIMEOUT \in Int /\ ~(NOTIMEOUT > 0)
      BY DEF NOTIMEOUT
    <2>2. CASE n = NOTIMEOUT
      BY <2>1, <2>2
    <2>3. CASE n \in Timeouts
      BY <2>3
    <2> QED
      BY <2>2, <2>3
  <1>3. TypeInv'
    <2>1. /\ timeout' \in [Tasks -> Int] /\ remaining' \in [Tasks -> Nat]
          /\ tnext' \in [Tasks -> Ptr] /\ tprev' \in [Tasks -> Ptr] /\ timeoutList' \in Ptr
      BY <1>2 DEF IInv, TypeInv, TypeOK, Ptr, addTimeout
    <2>2. \A u \in Tasks : pc'[u] \in {"suspended", "SEM_AQUIRED"} => psem'[u] \in Sems
      BY DEF IInv, TypeInv, TypeOK, enqueue, GoTo
    <2> QED
      BY <1>1, <2>1, <2>2 DEF IInv, TypeInv, TypeOK
  <1>4. OwnInv'
    BY DEF IInv, TypeInv, TypeOK, OwnInv, OwnerKnows, Mutexes, enqueue, GoTo, Ptr
  <1>5. WaitersBlocked'
    BY DEF IInv, TypeInv, TypeOK, WaitersBlocked, enqueue, GoTo
  <1> QED
    BY <1>1, <1>3, <1>4, <1>5 DEF IInv

\* A waiter that was given the lock keeps the invariant.
LEMMA AquiredInv ==
    ASSUME IInv, NEW t \in Tasks, Aquired(t)
    PROVE  IInv'
  <1> USE NamesAssumption DEF Aquired, Return, GoTo, At, semVars, timerVars, tickVars
  <1>1. TypeInv'
    <2>1. tnext' \in [Tasks -> Ptr] /\ tprev' \in [Tasks -> Ptr] /\ timeoutList' \in Ptr
      BY DEF IInv, TypeInv, TypeOK, Ptr, tnextWithout, tprevWithout, listWithout
    <2>2. /\ pc' \in [Tasks -> {"out", "starting", "suspended", "SEM_AQUIRED", "SEM_TIMEOUT"}]
          /\ psem' \in [Tasks -> Sems \cup {NULL}] /\ held' \in [Tasks -> SUBSET Sems]
          /\ \A u \in Tasks : pc'[u] \in {"suspended", "SEM_AQUIRED"} => psem'[u] \in Sems
      BY DEF IInv, TypeInv, TypeOK
    <2>3. /\ qnext' \in [Tasks -> Ptr] /\ qprev' \in [Tasks -> Ptr]
          /\ timeout' \in [Tasks -> Int] /\ remaining' \in [Tasks -> Nat]
      BY DEF IInv, TypeInv, TypeOK, Ptr
    <2> QED
      BY <2>1, <2>2, <2>3 DEF IInv, TypeInv, TypeOK
  <1>2. OwnInv'
    BY DEF IInv, TypeInv, TypeOK, Ptr, OwnInv, OwnerKnows, Mutexes
  <1>3. QueueInv' /\ RankInv'
    BY QueueFrame DEF IInv, TypeInv, TypeOK
  <1>4. WaitersBlocked'
    BY DEF IInv, TypeInv, TypeOK, WaitersBlocked
  <1> QED
    BY <1>1, <1>2, <1>3, <1>4 DEF IInv

\* A waiter whose wait timed out keeps the invariant.
LEMMA TimedOutInv ==
    ASSUME IInv, NEW t \in Tasks, TimedOut(t)
    PROVE  IInv'
  <1> USE NamesAssumption DEF TimedOut, Return, GoTo, At, semVars, timerVars, tickVars
  <1>1. TypeInv'
    BY DEF IInv, TypeInv, TypeOK, Ptr
  <1>2. OwnInv'
    BY DEF IInv, TypeInv, TypeOK, Ptr, OwnInv, OwnerKnows, Mutexes
  <1>3. QueueInv' /\ RankInv'
    BY QueueFrame DEF IInv, TypeInv, TypeOK
  <1>4. WaitersBlocked'
    BY DEF IInv, TypeInv, TypeOK, WaitersBlocked
  <1> QED
    BY <1>1, <1>2, <1>3, <1>4 DEF IInv

\* What putSemaphore() does to the queue and the types, whoever calls it.
LEMMA PutKeeps ==
    ASSUME IInv, NEW s \in Sems, putSemaphore(s), held' \in [Tasks -> SUBSET Sems]
    PROVE  TypeInv' /\ QueueInv' /\ RankInv' /\ WaitersBlocked'
  <1> USE NamesAssumption DEF putSemaphore, timeVars, timerVars, tickVars
  <1>1. CASE qhead[s] # NULL
    <2> DEFINE e == qhead[s]
    <2>1. /\ e \in Tasks /\ pc[e] = "suspended" /\ psem[e] = s /\ qprev[e] = NULL
      BY <1>1 DEF IInv, TypeInv, TypeOK, Ptr, QueueInv, Waiting
    <2>2. GoTo(e, "SEM_AQUIRED") /\ unqueue(e, qprev[e]) /\ UNCHANGED psem
      BY <1>1, <2>1
    <2>3. /\ QueueInv' /\ RankInv'
          /\ qhead' \in [Sems -> Ptr] /\ qtail' \in [Sems -> Ptr]
          /\ qnext' \in [Tasks -> Ptr] /\ qprev' \in [Tasks -> Ptr]
          /\ pc' \in [Tasks -> {"out", "starting", "suspended", "SEM_AQUIRED", "SEM_TIMEOUT"}]
      <3> HIDE DEF e
      <3> QED BY <2>1, <2>2, Unqueue DEF IInv
    <2>4. owner' = [owner EXCEPT ![s] = e] /\ pc' = [pc EXCEPT ![e] = "SEM_AQUIRED"]
      BY <1>1 DEF GoTo
    <2> HIDE DEF e
    <2>5. TypeInv'
      BY <2>1, <2>3, <2>4 DEF IInv, TypeInv, TypeOK, Ptr
    <2>6. WaitersBlocked'
      BY <2>1, <2>4 DEF IInv, TypeInv, TypeOK, WaitersBlocked
    <2> QED
      BY <2>3, <2>5, <2>6
  <1>2. CASE qhead[s] = NULL
    <2>1. owner' = [owner EXCEPT ![s] = NULL] /\ UNCHANGED <<pc, qhead, qtail, qnext, qprev>>
      BY <1>2
    <2>2. TypeInv'
      BY <2>1 DEF IInv, TypeInv, TypeOK, Ptr
    <2>3. QueueInv' /\ RankInv'
      BY <2>1, QueueFrame DEF IInv
    <2>4. \A t \in Tasks : pc[t] = "suspended" => psem[t] \in Sems /\ psem[t] # s
      BY <1>2, WaiterHasHead DEF IInv, TypeInv, Waiting
    <2>5. WaitersBlocked'
      BY <2>1, <2>4 DEF IInv, TypeInv, TypeOK, WaitersBlocked
    <2> QED
      BY <2>2, <2>3, <2>5
  <1> QED
    BY <1>1, <1>2

\* The parts of a hand-over that ownership depends on.
LEMMA PutOwner ==
    ASSUME IInv, NEW s \in Sems, putSemaphore(s)
    PROVE  /\ valid' = valid /\ psem' = psem /\ s \in valid
           /\ \/ /\ qhead[s] \in Tasks /\ pc[qhead[s]] = "suspended" /\ psem[qhead[s]] = s
                 /\ owner' = [owner EXCEPT ![s] = qhead[s]]
                 /\ pc' = [pc EXCEPT ![qhead[s]] = "SEM_AQUIRED"]
              \/ owner' = [owner EXCEPT ![s] = NULL] /\ pc' = pc
  BY NamesAssumption
  DEF putSemaphore, GoTo, IInv, TypeInv, TypeOK, Ptr, QueueInv, Waiting

\* putSemaphore() keeps the invariant.
LEMMA PutInv ==
    ASSUME IInv, NEW t \in Tasks, NEW s \in Sems, Put(t, s)
    PROVE  IInv'
  <1> USE NamesAssumption
  <1>1. /\ pc[t] = "out" /\ s \in held[t] /\ putSemaphore(s)
        /\ held' = [held EXCEPT ![t] = @ \ {s}] /\ held' \in [Tasks -> SUBSET Sems]
    BY DEF Put, At, IInv, TypeInv, TypeOK
  <1>2. TypeInv' /\ QueueInv' /\ RankInv' /\ WaitersBlocked'
    BY <1>1, PutKeeps
  <1>3. s \in Mutexes /\ owner[s] = t
    BY <1>1 DEF IInv, OwnInv
  <1>4. OwnInv'
    <2>1. CASE /\ qhead[s] \in Tasks /\ pc[qhead[s]] = "suspended" /\ psem[qhead[s]] = s
               /\ owner' = [owner EXCEPT ![s] = qhead[s]]
               /\ pc' = [pc EXCEPT ![qhead[s]] = "SEM_AQUIRED"]
      <3> DEFINE e == qhead[s]
      <3>1. /\ e \in Tasks /\ pc[e] = "suspended" /\ psem[e] = s /\ e # t
            /\ owner' = [owner EXCEPT ![s] = e] /\ pc' = [pc EXCEPT ![e] = "SEM_AQUIRED"]
            /\ valid' = valid /\ psem' = psem /\ s \in valid
        BY <1>1, <2>1, PutOwner
      <3> HIDE DEF e
      <3> QED
        BY <1>1, <1>3, <3>1
        DEF IInv, TypeInv, TypeOK, Ptr, OwnInv, OwnerKnows, Mutexes
    <2>2. CASE owner' = [owner EXCEPT ![s] = NULL] /\ pc' = pc
      <3>1. valid' = valid /\ psem' = psem
        BY <1>1, PutOwner
      <3> QED
        BY <1>1, <1>3, <2>2, <3>1
        DEF IInv, TypeInv, TypeOK, Ptr, OwnInv, OwnerKnows, Mutexes
    <2> QED
      BY <1>1, <2>1, <2>2, PutOwner
  <1> QED
    BY <1>2, <1>4 DEF IInv

\* A signal keeps the invariant.
LEMMA SignalInv ==
    ASSUME IInv, NEW t \in Tasks, NEW s \in Sems, Signal(t, s)
    PROVE  IInv'
  <1> USE NamesAssumption
  <1>1. s \in Signals /\ s \notin Mutexes /\ putSemaphore(s) /\ held' = held
    BY DEF Signal, Mutexes
  <1>2. TypeInv' /\ QueueInv' /\ RankInv' /\ WaitersBlocked'
    BY <1>1, PutKeeps DEF IInv, TypeInv, TypeOK
  <1>3. OwnInv'
    BY <1>1, PutOwner DEF IInv, TypeInv, TypeOK, Ptr, OwnInv, OwnerKnows, Mutexes
  <1> QED
    BY <1>2, <1>3 DEF IInv

\* The timer.
LEMMA TimeOutInv ==
    ASSUME IInv, NEW e \in Tasks, TimeOut(e)
    PROVE  IInv'
  <1> USE NamesAssumption
  <1>1. /\ pc[e] = "suspended" /\ GoTo(e, "SEM_TIMEOUT") /\ unqueue(e, qprev[e])
        /\ UNCHANGED <<valid, owner, psem, held, timeout, timerRunning, timers, firing, walking>>
        /\ walking /\ next' = tnext[e]
        /\ remaining' = [remaining EXCEPT ![e] = IF @ > 0 THEN @ - 1 ELSE 0]
        /\ tnext' = tnextWithout(e) /\ tprev' = tprevWithout(e)
        /\ timeoutList' = listWithout(e)
    BY DEF TimeOut, Visits, timerVars
  <1>2. /\ QueueInv' /\ RankInv'
        /\ qhead' \in [Sems -> Ptr] /\ qtail' \in [Sems -> Ptr]
        /\ qnext' \in [Tasks -> Ptr] /\ qprev' \in [Tasks -> Ptr]
        /\ pc' \in [Tasks -> {"out", "starting", "suspended", "SEM_AQUIRED", "SEM_TIMEOUT"}]
    BY <1>1, Unqueue DEF IInv
  <1>3. TypeInv'
    <2>1. /\ tnext' \in [Tasks -> Ptr] /\ tprev' \in [Tasks -> Ptr] /\ timeoutList' \in Ptr
          /\ remaining' \in [Tasks -> Nat] /\ next' \in Ptr
      BY <1>1 DEF IInv, TypeInv, TypeOK, Ptr, tnextWithout, tprevWithout, listWithout
    <2> QED
      BY <1>1, <1>2, <2>1 DEF IInv, TypeInv, TypeOK, GoTo
  <1>4. OwnInv'
    BY <1>1 DEF IInv, TypeInv, TypeOK, Ptr, OwnInv, OwnerKnows, Mutexes, GoTo
  <1>5. WaitersBlocked'
    BY <1>1 DEF IInv, TypeInv, TypeOK, WaitersBlocked, GoTo
  <1> QED
    BY <1>2, <1>3, <1>4, <1>5 DEF IInv

\* All other steps leave owners, queues and waits alone.
LEMMA FrameInv ==
    ASSUME IInv, UNCHANGED <<valid, owner, qhead, qtail, qnext, qprev, psem, held>>,
           TypeInv',
           \A t \in Tasks : pc'[t] = "suspended" <=> pc[t] = "suspended",
           \A t \in Tasks : pc'[t] = "SEM_AQUIRED" <=> pc[t] = "SEM_AQUIRED"
    PROVE  IInv'
  <1>1. OwnInv'
    BY DEF IInv, TypeInv, TypeOK, Ptr, OwnInv, OwnerKnows, Mutexes
  <1>2. QueueInv' /\ RankInv'
    BY QueueFrame DEF IInv
  <1>3. WaitersBlocked'
    BY DEF IInv, WaitersBlocked
  <1> QED
    BY <1>1, <1>2, <1>3 DEF IInv

\* The first calls, which install the timer, keep the invariant.
LEMMA StartInv ==
    ASSUME IInv, NEW t \in Tasks, StartTimer(t) \/ RunTimer(t)
    PROVE  IInv'
  <1> USE DEF GoTo, At, semVars, entryVars, timeVars, timerVars, tickVars
  <1>1. CASE StartTimer(t)
    <2>1. TypeInv'
      BY <1>1 DEF StartTimer, IInv, TypeInv, TypeOK
    <2> QED
      BY <1>1, <2>1, FrameInv DEF StartTimer, IInv, TypeInv, TypeOK
  <1>2. CASE RunTimer(t)
    <2>1. timers \in Nat /\ timers' \in Nat /\ timerRunning' \in BOOLEAN
      <3>1. timers \in Nat /\ timerRunning \in BOOLEAN
        BY DEF IInv, TypeInv, TypeOK
      <3>2. \/ timers' = timers + 1 /\ timerRunning' = TRUE
            \/ timers' = timers /\ timerRunning' = timerRunning
        BY <1>2 DEF RunTimer
      <3>3. timers' \in Nat
        BY <3>1, <3>2
      <3>4. timerRunning' \in BOOLEAN
        <4>1. timerRunning' = TRUE \/ timerRunning' = timerRunning
          BY <3>2, Zenon
        <4> QED
          BY <3>1, <4>1, Zenon
      <3> QED
        BY <3>1, <3>3, <3>4
    <2>2. /\ pc' \in [Tasks -> {"out", "starting", "suspended", "SEM_AQUIRED", "SEM_TIMEOUT"}]
          /\ \A u \in Tasks : pc'[u] \in {"suspended", "SEM_AQUIRED"} => psem[u] \in Sems
      BY <1>2 DEF RunTimer, IInv, TypeInv, TypeOK
    <2>3. /\ UNCHANGED <<valid, owner, qhead, qtail, qnext, qprev, psem, held>>
          /\ UNCHANGED <<tnext, tprev, timeout, timeoutList, remaining, firing, walking, next>>
      BY <1>2 DEF RunTimer
    <2>4. TypeInv'
      BY <2>1, <2>2, <2>3 DEF IInv, TypeInv, TypeOK
    <2> QED
      BY <1>2, <2>3, <2>4, FrameInv DEF RunTimer, IInv, TypeInv, TypeOK
  <1> QED
    BY <1>1, <1>2

\* A tick, and the calls of timerFunction() in it, keep the invariant.
LEMMA ClockInv ==
    ASSUME IInv, clockTick \/ TimerCall \/ TimerDone
    PROVE  IInv'
  <1> USE DEF semVars, entryVars, timeVars, timerVars, taskVars
  <1>1. TypeInv'
    <2>1. CASE clockTick
      BY <2>1 DEF clockTick, IInv, TypeInv, TypeOK
    <2>2. CASE TimerCall
      BY <2>2 DEF TimerCall, IInv, TypeInv, TypeOK
    <2>3. CASE TimerDone
      <3>1. /\ firing \in Nat /\ firing # 0 /\ firing' = firing - 1 /\ walking' = FALSE
            /\ UNCHANGED <<semVars, entryVars, timeVars, remaining, timerVars, next, taskVars>>
        BY <2>3 DEF TimerDone, IInv, TypeInv, TypeOK
      <3>2. firing' \in Nat
        BY <3>1
      <3> QED
        BY <3>1, <3>2 DEF IInv, TypeInv, TypeOK
    <2> QED
      BY <2>1, <2>2, <2>3
  <1> QED
    BY <1>1, FrameInv DEF clockTick, TimerCall, TimerDone

\* The walk along timeoutList keeps the invariant.
LEMMA WalkInv ==
    ASSUME IInv, NEW e \in Tasks, CountDown(e) \/ TooLate(e)
    PROVE  IInv'
  <1>1. /\ Visits(e)
        /\ UNCHANGED <<qhead, qtail, qnext, qprev, tnext, tprev, timeoutList, pc>>
    BY DEF CountDown, TooLate
  <1>2. TypeInv'
    BY <1>1 DEF Visits, timerVars, IInv, TypeInv, TypeOK, Ptr
  <1> QED
    BY <1>1, <1>2, FrameInv DEF Visits

\* Every step keeps the invariant.
LEMMA NextInv == IInv /\ [Next]_vars => IInv'
  <1> SUFFICES ASSUME IInv, [Next]_vars PROVE IInv'
    OBVIOUS
  <1>1. ASSUME NEW t \in Tasks, TaskStep(t) PROVE IInv'
    <2>1. CASE StartTimer(t) \/ RunTimer(t)
      BY <2>1, StartInv
    <2>2. CASE Aquired(t)
      BY <2>2, AquiredInv
    <2>3. CASE TimedOut(t)
      BY <2>3, TimedOutInv
    <2>4. ASSUME NEW s \in Sems, initSemaphore(t, s) PROVE IInv'
      BY <2>4, InitSemaphoreInv
    <2>5. ASSUME NEW s \in Sems, getSemaphore(t, s) PROVE IInv'
      BY <2>5, GetSemaphoreInv
    <2>6. ASSUME NEW s \in Sems, Put(t, s) PROVE IInv'
      BY <2>6, PutInv
    <2>7. ASSUME NEW s \in Sems, Signal(t, s) PROVE IInv'
      BY <2>7, SignalInv
    <2>8. ASSUME NEW s \in Sems, NEW n \in Timeouts \cup {NOTIMEOUT}, Wait(t, s, n) PROVE IInv'
      BY <2>8, WaitInv
    <2> QED
      BY <1>1, <2>1, <2>2, <2>3, <2>4, <2>5, <2>6, <2>7, <2>8 DEF TaskStep
  <1>2. CASE Clock
    <2>1. ASSUME NEW e \in Tasks, CountDown(e) \/ TooLate(e) PROVE IInv'
      BY <2>1, WalkInv
    <2>2. ASSUME NEW e \in Tasks, TimeOut(e) PROVE IInv'
      BY <2>2, TimeOutInv
    <2>3. CASE clockTick \/ TimerCall \/ TimerDone
      BY <2>3, ClockInv
    <2> QED
      BY <1>2, <2>1, <2>2, <2>3 DEF Clock
  <1>3. CASE UNCHANGED vars
    <2>1. TypeInv'
      BY <1>3 DEF vars, semVars, entryVars, timeVars, timerVars, tickVars, taskVars,
                  IInv, TypeInv, TypeOK, Ptr
    <2> QED
      BY <1>3, <2>1, FrameInv DEF vars, semVars, entryVars, taskVars
  <1> QED
    BY <1>1, <1>2, <1>3 DEF Next

\* The invariant holds throughout.
THEOREM Invariant == Spec => []IInv
  BY InitInv, NextInv, PTL DEF Spec

\* Every variable keeps its type.
THEOREM TypeCorrect == Spec => []TypeOK
  <1>1. IInv => TypeOK
    BY DEF IInv, TypeInv
  <1> QED
    BY Invariant, <1>1, PTL

\* getSemaphore() returns 0 to one task at a time, for any number of tasks,
\* semaphores and signals, whatever times out when.
THEOREM Exclusion == Spec => []MutualExclusion
  <1>1. IInv => MutualExclusion
    BY DEF IInv, OwnInv, MutualExclusion
  <1> QED
    BY Invariant, <1>1, PTL

\* A lock never belongs to a task that does not know of it: hand-over and
\* timeout never both claim a wait.
THEOREM NoStrayOwner == Spec => []OwnerKnows
  <1>1. IInv => OwnerKnows
    BY DEF IInv, OwnInv
  <1> QED
    BY Invariant, <1>1, PTL

\* A task never waits for a free semaphore: putSemaphore() finds a waiter
\* whenever there is one.
THEOREM NoForgottenWaiter == Spec => []WaitersBlocked
  <1>1. IInv => WaitersBlocked
    BY DEF IInv
  <1> QED
    BY Invariant, <1>1, PTL

\* putSemaphore() passes every semaphore from one owner to one waiter, and leaves it
\* free only when nobody waits.
THEOREM Passing == Spec => []LocksPassed
  BY Exclusion, NoForgottenWaiter, PTL DEF LocksPassed

-----------------------------------------------------------------------------
(* The lists: the queue of a semaphore stands for a sequence of tasks, and *)
(* timeoutList for another through the same entries.                       *)

Lined(s, l) ==
    /\ IsList(l, qhead[s], qnext, qprev, NULL)
    /\ qtail[s] = LastOf(l, NULL)
    /\ Elements(l) = {t \in Tasks : Waiting(t, s)}

\* Walking a list along its links visits its entries, in order.
LEMMA WalkChain ==
    ASSUME NEW l \in Seq(Tasks), NEW head, NEW links, Forward(l, head, links, NULL)
    PROVE  Chain(head, links) = l
  <1> DEFINE N == Cardinality(Tasks)
             f == [i \in 0..N |-> IF i < Len(l) THEN l[i + 1] ELSE NULL]
  <1>0. NULL \notin Tasks /\ IsFiniteSet(Tasks)
    BY NamesAssumption, FiniteAssumption
  <1>1. Len(l) <= N /\ N \in Nat
    BY <1>0, FewElements DEF Forward
  <1> HIDE DEF N
  <1>2. (CHOOSE w : w = [i \in 0..N |-> IF i = 0 THEN head
                                         ELSE IF w[i-1] = NULL THEN NULL ELSE links[w[i-1]]]) = f
    BY <1>0, <1>1, OneWalk
  <1>3. Cardinality({i \in DOMAIN f : f[i] # NULL}) = Len(l) /\ [i \in 1..Len(l) |-> f[i-1]] = l
    <2>1. PICK g : g = f
      OBVIOUS
    <2>2. Cardinality({i \in DOMAIN g : g[i] # NULL}) = Len(l) /\ [i \in 1..Len(l) |-> g[i-1]] = l
      <3>1. g = [i \in 0..N |-> IF i < Len(l) THEN l[i + 1] ELSE NULL]
        BY <2>1
      <3> HIDE DEF f
      <3> QED
        BY <1>0, <1>1, <3>1, WalkedList
    <2> HIDE DEF f
    <2> QED
      BY <2>1, <2>2
  <1> HIDE DEF f
  <1> QED
    BY <1>2, <1>3 DEF Chain, N

\* The sequence that is read off a queue is the one it stands for.
LEMMA WalkLine ==
    ASSUME NEW s \in Sems, NEW l \in Seq(Tasks), Lined(s, l)
    PROVE  Queue(s) = l
  <1> DEFINE hd == qhead[s]
  <1>1. Forward(l, hd, qnext, NULL)
    BY DEF Lined, IsList
  <1> HIDE DEF hd
  <1>2. Chain(hd, qnext) = l
    BY <1>1, WalkChain
  <1> QED
    BY <1>2 DEF Queue, hd

\* Joining one queue, the step leaves the others alone.
LEMMA QueueJoins ==
    ASSUME TypeInv, NEW t \in Tasks, NEW s \in Sems, pc[t] = "out", enqueue(t, s), GoTo(t, "suspended"),
           NEW r \in Sems, NEW l \in Seq(Tasks), Lined(r, l), NEW last \in Seq(Tasks), Lined(s, last)
    PROVE  IF r = s THEN Append(l, t) \in Seq(Tasks) /\ Lined(r, Append(l, t))' ELSE Lined(r, l)'
  <1> DEFINE end == qtail[s]
  <1>0. /\ NULL \notin Tasks /\ end \in Ptr
        /\ qnext \in [Tasks -> Ptr] /\ qprev \in [Tasks -> Ptr] /\ psem \in [Tasks -> Sems \cup {NULL}]
        /\ qhead \in [Sems -> Ptr] /\ qtail \in [Sems -> Ptr]
        /\ pc \in [Tasks -> {"out", "starting", "suspended", "SEM_AQUIRED", "SEM_TIMEOUT"}]
    BY NamesAssumption DEF TypeInv, TypeOK, Ptr
  <1>1. /\ \A u \in Tasks : qnext'[u] = IF u = t THEN (IF end = t THEN t ELSE NULL)
                                        ELSE IF u = end THEN t ELSE qnext[u]
        /\ \A u \in Tasks : qprev'[u] = IF u = t THEN end ELSE qprev[u]
        /\ qhead'[r] = IF r = s /\ end = NULL THEN t ELSE qhead[r]
        /\ qtail'[r] = IF r = s THEN t ELSE qtail[r]
    BY <1>0 DEF enqueue
  <1>2. \A u \in Tasks : Waiting(u, r)' <=> Waiting(u, r) \/ (u = t /\ r = s)
    BY <1>0 DEF enqueue, GoTo, Waiting
  <1>3. t \notin Elements(l) /\ t \notin Elements(last) /\ Elements(l) \subseteq Tasks
    BY DEF Lined, Waiting
  <1>4. end \in Elements(last) \cup {NULL}
    <2> DEFINE hd == qhead[s]
    <2>1. IsList(last, hd, qnext, qprev, NULL) /\ end = LastOf(last, NULL)
      BY DEF Lined
    <2> HIDE DEF hd, end
    <2> QED
      BY <2>1, Neighbours
  <1>5. CASE r = s
    <2> DEFINE hd == qhead[s]
    <2>1. IsList(l, hd, qnext, qprev, NULL) /\ end = LastOf(l, NULL)
      BY <1>5 DEF Lined
    <2>2. end # t
      BY <1>0, <1>3, <1>4
    <2>3. /\ qnext'[t] = NULL /\ (LastOf(l, NULL) # NULL => qnext'[LastOf(l, NULL)] = t)
          /\ \A u \in Tasks \ {t, LastOf(l, NULL)} : qnext'[u] = qnext[u]
          /\ qprev'[t] = LastOf(l, NULL) /\ \A u \in Tasks \ {t} : qprev'[u] = qprev[u]
      BY <1>0, <1>1, <2>1, <2>2 DEF Ptr
    <2> HIDE DEF hd
    <2>4. /\ IsList(Append(l, t), IF LastOf(l, NULL) # NULL THEN hd ELSE t, qnext', qprev', NULL)
          /\ LastOf(Append(l, t), NULL) = t
      <3> DEFINE nx == qnext
                 pv == qprev
                 nx2 == qnext'
                 pv2 == qprev'
      <3>1. /\ IsList(l, hd, nx, pv, NULL) /\ t \notin Elements(l)
            /\ nx2[t] = NULL /\ (LastOf(l, NULL) # NULL => nx2[LastOf(l, NULL)] = t)
            /\ \A u \in Tasks \ {t, LastOf(l, NULL)} : nx2[u] = nx[u]
            /\ pv2[t] = LastOf(l, NULL) /\ \A u \in Tasks \ {t} : pv2[u] = pv[u]
        BY <1>3, <2>1, <2>3
      <3> HIDE DEF nx, pv, nx2, pv2
      <3>2. /\ IsList(Append(l, t), IF LastOf(l, NULL) # NULL THEN hd ELSE t, nx2, pv2, NULL)
            /\ LastOf(Append(l, t), NULL) = t
        BY <1>0, <3>1, AppendedList
      <3> QED
        BY <3>2 DEF nx2, pv2
    <2>5. Append(l, t) \in Seq(Tasks) /\ Elements(Append(l, t)) = Elements(l) \cup {t}
      BY AppendElements
    <2>6. Elements(l) \cup {t} = {u \in Tasks : Waiting(u, r)'}
      BY <1>2, <1>5 DEF Lined
    <2> QED
      BY <1>0, <1>1, <1>5, <2>1, <2>4, <2>5, <2>6 DEF Lined, hd
  <1>6. CASE r # s
    <2>1. \A u \in Elements(l) : u # t /\ u # end
      BY <1>0, <1>3, <1>4, <1>6 DEF Lined, Waiting
    <2>2. \A u \in Elements(l) : qnext'[u] = qnext[u] /\ qprev'[u] = qprev[u]
      BY <1>1, <1>3, <2>1
    <2> DEFINE hd == qhead[r]
    <2>3. IsList(l, hd, qnext, qprev, NULL)
      BY DEF Lined
    <2> HIDE DEF hd
    <2>4. IsList(l, hd, qnext', qprev', NULL)
      BY <2>2, <2>3, SameList
    <2> QED
      BY <1>1, <1>2, <1>6, <2>4 DEF Lined, hd
  <1> QED
    BY <1>5, <1>6

\* Leaving one queue, from its front or from anywhere in it, ditto.
LEMMA QueueLeaves ==
    ASSUME TypeInv, NEW e \in Tasks, NEW s \in Sems, Waiting(e, s),
           unqueue(e, qprev[e]), UNCHANGED psem,
           NEW point \in {"SEM_AQUIRED", "SEM_TIMEOUT"}, GoTo(e, point),
           NEW r \in Sems, NEW l \in Seq(Tasks), Lined(r, l), NEW line \in Seq(Tasks), Lined(s, line)
    PROVE  IF r = s THEN \E k \in 1..Len(l) : l[k] = e /\ Without(l, k) \in Seq(Tasks) /\ Lined(r, Without(l, k))'
                    ELSE Lined(r, l)'
  <1> DEFINE before == qprev[e]
             after == qnext[e]
  <1>0. /\ NULL \notin Tasks /\ psem[e] = s
        /\ qnext \in [Tasks -> Ptr] /\ qprev \in [Tasks -> Ptr] /\ psem \in [Tasks -> Sems \cup {NULL}]
        /\ qhead \in [Sems -> Ptr] /\ qtail \in [Sems -> Ptr]
        /\ pc \in [Tasks -> {"out", "starting", "suspended", "SEM_AQUIRED", "SEM_TIMEOUT"}]
    BY NamesAssumption DEF TypeInv, TypeOK, Ptr, Waiting
  <1>1. /\ \A u \in Tasks : qnext'[u] = IF u = before THEN after ELSE qnext[u]
        /\ \A u \in Tasks : qprev'[u] = IF u = after THEN before ELSE qprev[u]
        /\ qhead'[r] = IF r = s /\ before = NULL THEN after ELSE qhead[r]
        /\ qtail'[r] = IF r = s /\ after = NULL THEN before ELSE qtail[r]
    BY <1>0 DEF unqueue
  <1>2. \A u \in Tasks : Waiting(u, r)' <=> Waiting(u, r) /\ u # e
    BY <1>0 DEF GoTo, Waiting
  <1>3. CASE r = s
    <2> DEFINE hd == qhead[s]
    <2>1. IsList(l, hd, qnext, qprev, NULL) /\ qtail[s] = LastOf(l, NULL)
      BY <1>3 DEF Lined
    <2>2. PICK k \in 1..Len(l) : l[k] = e
      BY <1>3 DEF Lined, Elements
    <2>3. /\ \A u \in Tasks \ {l[k]} : qnext'[u] = IF u = qprev[l[k]] THEN qnext[l[k]] ELSE qnext[u]
          /\ \A u \in Tasks \ {l[k]} : qprev'[u] = IF u = qnext[l[k]] THEN qprev[l[k]] ELSE qprev[u]
      BY <1>1, <2>2
    <2> HIDE DEF hd
    <2>4. /\ IsList(Without(l, k), IF qprev[l[k]] # NULL THEN hd ELSE qnext[l[k]], qnext', qprev', NULL)
          /\ LastOf(Without(l, k), NULL) = IF qnext[l[k]] # NULL THEN LastOf(l, NULL) ELSE qprev[l[k]]
      <3> DEFINE nx == qnext
                 pv == qprev
                 nx2 == qnext'
                 pv2 == qprev'
      <3>1. /\ IsList(l, hd, nx, pv, NULL)
            /\ \A u \in Tasks \ {l[k]} : nx2[u] = IF u = pv[l[k]] THEN nx[l[k]] ELSE nx[u]
            /\ \A u \in Tasks \ {l[k]} : pv2[u] = IF u = nx[l[k]] THEN pv[l[k]] ELSE pv[u]
        BY <2>1, <2>3
      <3> HIDE DEF nx, pv, nx2, pv2
      <3>2. /\ IsList(Without(l, k), IF pv[l[k]] # NULL THEN hd ELSE nx[l[k]], nx2, pv2, NULL)
            /\ LastOf(Without(l, k), NULL) = IF nx[l[k]] # NULL THEN LastOf(l, NULL) ELSE pv[l[k]]
        <4>1. NULL \notin Tasks
          BY <1>0
        <4> QED
          BY <3>1, <4>1, UnlinkedList
      <3> QED
        BY <3>2 DEF nx, pv, nx2, pv2
    <2>5. Without(l, k) \in Seq(Tasks) /\ Elements(Without(l, k)) = Elements(l) \ {l[k]}
      <3>1. \A i, j \in 1..Len(l) : l[i] = l[j] => i = j
        BY <2>1 DEF IsList, Forward
      <3> QED
        BY <3>1, WithoutElements
    <2>6. Elements(l) \ {e} = {u \in Tasks : Waiting(u, r)'}
      BY <1>2 DEF Lined
    <2>7. Lined(r, Without(l, k))'
      BY <1>1, <1>3, <2>1, <2>2, <2>4, <2>5, <2>6 DEF Lined, hd
    <2> QED
      BY <1>3, <2>2, <2>5, <2>7
  <1>4. CASE r # s
    <2>1. before \in Elements(line) \cup {NULL} /\ after \in Elements(line) \cup {NULL}
      <3> DEFINE hd == qhead[s]
      <3>1. IsList(line, hd, qnext, qprev, NULL) /\ e \in Elements(line)
        BY DEF Lined
      <3> HIDE DEF hd
      <3> QED
        BY <3>1, Neighbours
    <2>2. \A u \in Elements(l) : u \in Tasks /\ u # before /\ u # after
      BY <1>0, <1>4, <2>1 DEF Lined, Waiting
    <2>3. \A u \in Elements(l) : qnext'[u] = qnext[u] /\ qprev'[u] = qprev[u]
      BY <1>1, <2>2
    <2> DEFINE hd == qhead[r]
    <2>4. IsList(l, hd, qnext, qprev, NULL)
      BY DEF Lined
    <2> HIDE DEF hd
    <2>5. IsList(l, hd, qnext', qprev', NULL)
      BY <2>3, <2>4, SameList
    <2>6. {u \in Tasks : Waiting(u, r)} = {u \in Tasks : Waiting(u, r)'}
      BY <1>0, <1>2, <1>4 DEF Waiting
    <2> QED
      BY <1>1, <1>4, <2>5, <2>6 DEF Lined, hd
  <1> QED
    BY <1>3, <1>4

InLines(line) == \A s \in Sems : Lined(s, line[s])

\* A step of SemaphoreAbs, the lines being line before it and line2 after it
Moved(line, line2) ==
    \/ line2 = line /\ UNCHANGED owner
    \/ \E s \in Sems, t \in Tasks :
         owner[s] = NULL /\ line[s] = <<>> /\ owner' = [owner EXCEPT ![s] = t] /\ line2 = line
    \/ \E s \in Sems, t \in Tasks :
         /\ owner[s] # NULL /\ UNCHANGED owner
         /\ \A r \in Sems : t \notin Elements(line[r])
         /\ line2 = [line EXCEPT ![s] = Append(line[s], t)]
    \/ \E s \in Sems : \E k \in 1..Len(line[s]) :
         UNCHANGED owner /\ line2 = [line EXCEPT ![s] = Without(line[s], k)]
    \/ \E s \in Sems :
         IF line[s] = <<>> THEN owner' = [owner EXCEPT ![s] = NULL] /\ line2 = line
         ELSE /\ owner' = [owner EXCEPT ![s] = Head(line[s])]
              /\ line2 = [line EXCEPT ![s] = Tail(line[s])]

MovedOn(line) == \E line2 \in [Sems -> Seq(Tasks)] : InLines(line2)' /\ Moved(line, line2)

\* What a step does to entries that are not queued does not matter.
LEMMA LinesStay ==
    ASSUME NEW line \in [Sems -> Seq(Tasks)], InLines(line), UNCHANGED <<qhead, qtail>>,
           \A t \in Tasks : pc'[t] = "suspended" <=> pc[t] = "suspended",
           \A t \in Tasks : pc[t] = "suspended" =>
               qnext'[t] = qnext[t] /\ qprev'[t] = qprev[t] /\ psem'[t] = psem[t]
    PROVE  InLines(line)'
  <1> SUFFICES ASSUME NEW s \in Sems PROVE Lined(s, line[s])'
    BY DEF InLines
  <1>0. PICK l \in Seq(Tasks) : l = line[s]
    OBVIOUS
  <1> DEFINE hd == qhead[s]
  <1>1. /\ IsList(l, hd, qnext, qprev, NULL) /\ qtail[s] = LastOf(l, NULL)
        /\ Elements(l) = {t \in Tasks : Waiting(t, s)}
    BY <1>0 DEF InLines, Lined
  <1>2. \A t \in Elements(l) : qnext'[t] = qnext[t] /\ qprev'[t] = qprev[t]
    BY <1>1 DEF Waiting
  <1>3. {t \in Tasks : Waiting(t, s)}' = {t \in Tasks : Waiting(t, s)}
    BY DEF Waiting
  <1> HIDE DEF hd
  <1>4. IsList(l, hd, qnext', qprev', NULL)
    BY <1>1, <1>2, SameList
  <1>5. Lined(s, l)'
    BY <1>1, <1>3, <1>4 DEF Lined, hd
  <1> QED
    BY <1>0, <1>5

\* A task that waits joins the end of a line.
LEMMA WaitJoins ==
    ASSUME IInv, NEW line \in [Sems -> Seq(Tasks)], InLines(line),
           NEW t \in Tasks, NEW s \in Sems, NEW n \in Timeouts \cup {NOTIMEOUT}, Wait(t, s, n)
    PROVE  MovedOn(line)
  <1>1. /\ pc[t] = "out" /\ owner[s] # NULL /\ enqueue(t, s) /\ GoTo(t, "suspended") /\ owner' = owner
    BY DEF Wait, Calls, At
  <1>2. PICK a \in Seq(Tasks) : a = Append(line[s], t)
    BY AppendElements
  <1>3. PICK line2 \in [Sems -> Seq(Tasks)] : line2 = [line EXCEPT ![s] = a]
    OBVIOUS
  <1>4. ASSUME NEW r \in Sems PROVE Lined(r, line2[r])'
    <2>1. PICK l \in Seq(Tasks), last \in Seq(Tasks) : l = line[r] /\ last = line[s]
      OBVIOUS
    <2>2. Lined(r, l) /\ Lined(s, last)
      BY <2>1 DEF InLines
    <2>3. IF r = s THEN Lined(r, Append(l, t))' ELSE Lined(r, l)'
      BY <1>1, <2>2, QueueJoins DEF IInv
    <2>4. PICK l2 \in Seq(Tasks) : l2 = line2[r]
      OBVIOUS
    <2>5. CASE r = s
      <3>1. l2 = Append(l, t) /\ Lined(r, Append(l, t))'
        BY <1>2, <1>3, <2>1, <2>3, <2>4, <2>5
      <3> QED
        BY <2>4, <3>1
    <2>6. CASE r # s
      <3>1. l2 = l /\ Lined(r, l)'
        BY <1>3, <2>1, <2>3, <2>4, <2>6
      <3> QED
        BY <2>4, <3>1
    <2> QED
      BY <2>5, <2>6
  <1>5. \A r \in Sems : t \notin Elements(line[r])
    BY <1>1 DEF InLines, Lined, Waiting
  <1>6. Moved(line, line2)
    BY <1>1, <1>2, <1>3, <1>5 DEF Moved
  <1> QED
    BY <1>4, <1>6 DEF MovedOn, InLines

\* An entry that leaves its queue leaves its line.
LEMMA LineLeft ==
    ASSUME IInv, NEW line \in [Sems -> Seq(Tasks)], InLines(line),
           NEW e \in Tasks, NEW s \in Sems, Waiting(e, s), unqueue(e, qprev[e]), UNCHANGED psem,
           NEW point \in {"SEM_AQUIRED", "SEM_TIMEOUT"}, GoTo(e, point)
    PROVE  \E k \in 1..Len(line[s]) :
             /\ line[s][k] = e /\ [line EXCEPT ![s] = Without(line[s], k)] \in [Sems -> Seq(Tasks)]
             /\ InLines([line EXCEPT ![s] = Without(line[s], k)])'
  <1>1. PICK last \in Seq(Tasks) : last = line[s] /\ Lined(s, last)
    BY DEF InLines
  <1>2. PICK k \in 1..Len(last) : last[k] = e /\ Without(last, k) \in Seq(Tasks) /\ Lined(s, Without(last, k))'
    BY <1>1, QueueLeaves DEF IInv
  <1>3. PICK w \in Seq(Tasks) : w = Without(last, k)
    BY <1>2
  <1>4. Lined(s, w)'
    BY <1>2, <1>3
  <1>5. PICK line2 \in [Sems -> Seq(Tasks)] : line2 = [line EXCEPT ![s] = w]
    OBVIOUS
  <1>6. ASSUME NEW r \in Sems PROVE Lined(r, line2[r])'
    <2>1. PICK l \in Seq(Tasks) : l = line[r] /\ Lined(r, l)
      BY DEF InLines
    <2>2. PICK l2 \in Seq(Tasks) : l2 = line2[r]
      OBVIOUS
    <2>3. CASE r = s
      <3>1. l2 = w
        BY <1>5, <2>2, <2>3
      <3> QED
        BY <1>4, <2>2, <2>3, <3>1
    <2>4. CASE r # s
      <3>1. l2 = l
        BY <1>5, <2>1, <2>2, <2>4
      <3>2. Lined(r, l)'
        BY <1>1, <2>1, <2>4, QueueLeaves DEF IInv
      <3> QED
        BY <2>2, <3>1, <3>2
    <2> QED
      BY <2>3, <2>4
  <1>7. InLines(line2)' /\ line2 = [line EXCEPT ![s] = Without(line[s], k)] /\ line[s][k] = e /\ k \in 1..Len(line[s])
    BY <1>1, <1>2, <1>3, <1>5, <1>6 DEF InLines
  <1> QED
    BY <1>7

\* putSemaphore() hands the semaphore to the first of the line.
LEMMA PutMoves ==
    ASSUME IInv, NEW line \in [Sems -> Seq(Tasks)], InLines(line), NEW s \in Sems, putSemaphore(s)
    PROVE  MovedOn(line)
  <1>0. PICK l \in Seq(Tasks) : l = line[s] /\ Lined(s, l)
    BY DEF InLines
  <1>1. /\ Len(l) \in Nat /\ qhead[s] = IF Len(l) = 0 THEN NULL ELSE l[1]
        /\ \A i, j \in 1..Len(l) : l[i] = l[j] => i = j
    BY <1>0, LenProperties DEF Lined, IsList, Forward
  <1>2. CASE qhead[s] # NULL
    <2>1. PICK e \in Tasks : e = qhead[s] /\ Waiting(e, s) /\ qprev[e] = NULL
      BY <1>2 DEF IInv, TypeInv, TypeOK, Ptr, QueueInv
    <2>2. /\ owner' = [owner EXCEPT ![s] = e] /\ GoTo(e, "SEM_AQUIRED")
          /\ unqueue(e, qprev[e]) /\ UNCHANGED psem
      BY <1>2, <2>1 DEF putSemaphore
    <2>3. PICK k \in 1..Len(line[s]) :
            /\ line[s][k] = e /\ [line EXCEPT ![s] = Without(line[s], k)] \in [Sems -> Seq(Tasks)]
            /\ InLines([line EXCEPT ![s] = Without(line[s], k)])'
      BY <2>1, <2>2, LineLeft
    <2>4. Len(l) # 0 /\ l[1] = e /\ 1 \in 1..Len(l) /\ k = 1 /\ l # <<>>
      BY <1>0, <1>1, <1>2, <2>1, <2>3
    <2>5. Without(l, 1) = Tail(l) /\ Head(l) = l[1]
      BY <2>4, WithoutFirst
    <2>6. Moved(line, [line EXCEPT ![s] = Without(line[s], k)])
      BY <1>0, <2>2, <2>4, <2>5 DEF Moved
    <2> QED
      BY <2>3, <2>6 DEF MovedOn
  <1>3. CASE qhead[s] = NULL
    <2>1. /\ owner' = [owner EXCEPT ![s] = NULL]
          /\ UNCHANGED <<pc, qhead, qtail, qnext, qprev, psem>>
      BY <1>3 DEF putSemaphore
    <2>2. l = <<>>
      <3>1. Len(l) # 0 => 1 \in 1..Len(l) /\ l[1] \in Tasks
        BY <1>1, LenProperties
      <3>2. Len(l) = 0
        BY <1>1, <1>3, <3>1, NamesAssumption
      <3> QED
        BY <3>2, EmptySeq
    <2>3. InLines(line)'
      BY <2>1, LinesStay
    <2>4. Moved(line, line)
      BY <1>0, <2>1, <2>2 DEF Moved
    <2> QED
      BY <2>3, <2>4 DEF MovedOn
  <1> QED
    BY <1>2, <1>3

\* Every step of the semaphores moves the lines as SemaphoreAbs does.
LEMMA LinesNext ==
    ASSUME IInv, [Next]_vars, NEW line \in [Sems -> Seq(Tasks)], InLines(line)
    PROVE  MovedOn(line)
  <1>0. /\ qhead \in [Sems -> Ptr] /\ qtail \in [Sems -> Ptr] /\ owner \in [Sems -> Ptr]
        /\ pc \in [Tasks -> {"out", "starting", "suspended", "SEM_AQUIRED", "SEM_TIMEOUT"}]
        /\ qnext \in [Tasks -> Ptr] /\ qprev \in [Tasks -> Ptr] /\ psem \in [Tasks -> Sems \cup {NULL}]
    BY DEF IInv, TypeInv, TypeOK
  <1>1. ASSUME UNCHANGED <<owner, qhead, qtail>>,
               \A t \in Tasks : pc'[t] = "suspended" <=> pc[t] = "suspended",
               \A t \in Tasks : pc[t] = "suspended" =>
                   qnext'[t] = qnext[t] /\ qprev'[t] = qprev[t] /\ psem'[t] = psem[t]
        PROVE  MovedOn(line)
    <2>1. InLines(line)'
      BY <1>1, LinesStay
    <2> QED
      BY <1>1, <2>1 DEF MovedOn, Moved
  <1>2. ASSUME NEW t \in Tasks, TaskStep(t) PROVE MovedOn(line)
    <2>1. CASE StartTimer(t) \/ RunTimer(t)
      BY <1>0, <1>1, <2>1 DEF StartTimer, RunTimer, At, GoTo, semVars, entryVars
    <2>2. CASE Aquired(t) \/ TimedOut(t)
      <3>1. /\ UNCHANGED <<owner, qhead, qtail>> /\ pc[t] # "suspended"
            /\ pc' = [pc EXCEPT ![t] = "out"] /\ psem' = [psem EXCEPT ![t] = NULL]
            /\ qnext' = [qnext EXCEPT ![t] = NULL] /\ qprev' = [qprev EXCEPT ![t] = NULL]
        BY <2>2 DEF Aquired, TimedOut, At, Return, GoTo, semVars
      <3>2. \A u \in Tasks : /\ pc'[u] = "suspended" <=> pc[u] = "suspended"
                             /\ u # t => qnext'[u] = qnext[u] /\ qprev'[u] = qprev[u] /\ psem'[u] = psem[u]
        BY <1>0, <3>1
      <3> QED
        BY <1>1, <3>1, <3>2
    <2>3. ASSUME NEW s \in Sems, initSemaphore(t, s) PROVE MovedOn(line)
      <3>1. owner[s] = NULL /\ s \notin valid
        BY <2>3 DEF initSemaphore, IInv, OwnInv
      <3>2. qhead[s] = NULL /\ qtail[s] = NULL
        BY <3>1 DEF IInv, TypeInv, TypeOK, Ptr, QueueInv, WaitersBlocked, Waiting
      <3>3. UNCHANGED <<owner, qhead, qtail, pc, qnext, qprev, psem>>
        BY <1>0, <2>3, <3>1, <3>2 DEF initSemaphore, entryVars, taskVars
      <3> QED
        BY <1>1, <3>3
    <2>4. ASSUME NEW s \in Sems, getSemaphore(t, s) PROVE MovedOn(line)
      <3>1. /\ owner[s] = NULL /\ owner' = [owner EXCEPT ![s] = t]
            /\ UNCHANGED <<pc, qhead, qtail, qnext, qprev, psem>>
        BY <2>4 DEF getSemaphore, entryVars
      <3>2. line[s] = <<>>
        <4>1. Elements(line[s]) = {} /\ line[s] \in Seq(Tasks)
          BY <3>1 DEF InLines, Lined, Waiting, IInv, WaitersBlocked
        <4>2. Len(line[s]) # 0 => 1 \in 1..Len(line[s])
          BY <4>1, LenProperties
        <4>3. Len(line[s]) = 0
          BY <4>1, <4>2 DEF Elements
        <4> QED
          BY <4>1, <4>3, EmptySeq
      <3>3. InLines(line)'
        BY <3>1, LinesStay
      <3>4. Moved(line, line)
        BY <3>1, <3>2 DEF Moved
      <3> QED
        BY <3>3, <3>4 DEF MovedOn
    <2>5. ASSUME NEW s \in Sems, Put(t, s) \/ Signal(t, s) PROVE MovedOn(line)
      BY <2>5, PutMoves DEF Put, Signal
    <2>6. ASSUME NEW s \in Sems, NEW n \in Timeouts \cup {NOTIMEOUT}, Wait(t, s, n) PROVE MovedOn(line)
      BY <2>6, WaitJoins
    <2> QED
      BY <1>2, <2>1, <2>2, <2>3, <2>4, <2>5, <2>6 DEF TaskStep
  <1>3. ASSUME NEW e \in Tasks, TimeOut(e) PROVE MovedOn(line)
    <2>1. PICK s \in Sems : Waiting(e, s)
      BY <1>3 DEF TimeOut, IInv, TypeInv, Waiting
    <2>2. GoTo(e, "SEM_TIMEOUT") /\ unqueue(e, qprev[e]) /\ UNCHANGED <<owner, psem>>
      BY <1>3 DEF TimeOut, Visits
    <2>3. PICK k \in 1..Len(line[s]) :
            /\ [line EXCEPT ![s] = Without(line[s], k)] \in [Sems -> Seq(Tasks)]
            /\ InLines([line EXCEPT ![s] = Without(line[s], k)])'
      BY <2>1, <2>2, LineLeft
    <2>4. Moved(line, [line EXCEPT ![s] = Without(line[s], k)])
      BY <2>2 DEF Moved
    <2> QED
      BY <2>3, <2>4 DEF MovedOn
  <1>4. ASSUME NEW e \in Tasks, CountDown(e) \/ TooLate(e) PROVE MovedOn(line)
    BY <1>1, <1>4 DEF CountDown, TooLate, Visits
  <1>5. CASE clockTick \/ TimerCall \/ TimerDone \/ UNCHANGED vars
    BY <1>1, <1>5 DEF clockTick, TimerCall, TimerDone, vars, semVars, entryVars, taskVars
  <1> QED
    BY <1>2, <1>3, <1>4, <1>5 DEF Next, Clock

\* A move of the lines is a step of SemaphoreAbs.
LEMMA MoveIsStep ==
    ASSUME NEW line \in [Sems -> Seq(Tasks)], NEW line2 \in [Sems -> Seq(Tasks)], Moved(line, line2),
           [s \in Sems |-> Queue(s)] = line, [s \in Sems |-> Queue(s)]' = line2
    PROVE  [Abs!Next]_(Abs!vars)
  <1>1. CASE line2 = line /\ UNCHANGED owner
    BY <1>1 DEF Abs!vars
  <1>2. ASSUME NEW s \in Sems, NEW t \in Tasks,
               owner[s] = NULL, line[s] = <<>>, owner' = [owner EXCEPT ![s] = t], line2 = line
        PROVE  Abs!Take(s, t)
    BY <1>2 DEF Abs!Take
  <1>3. ASSUME NEW s \in Sems, NEW t \in Tasks, owner[s] # NULL, UNCHANGED owner,
               \A r \in Sems : t \notin Elements(line[r]), line2 = [line EXCEPT ![s] = Append(line[s], t)]
        PROVE  Abs!Join(s, t)
    <2>1. \A r \in Sems : ~Abs!InLine(r, t)
      BY <1>3 DEF Abs!InLine, Elements
    <2>2. [s2 \in Sems |-> Queue(s2)]' = [[s2 \in Sems |-> Queue(s2)] EXCEPT ![s] = Append(@, t)]
      BY <1>3
    <2> QED
      BY <1>3, <2>1, <2>2 DEF Abs!Join
  <1>4. ASSUME NEW s \in Sems, NEW k \in 1..Len(line[s]), UNCHANGED owner,
               line2 = [line EXCEPT ![s] = Without(line[s], k)]
        PROVE  \E t \in Tasks : Abs!Leave(s, t)
    <2>1. line[s][k] \in Tasks /\ Len(line[s]) \in Nat
      BY LenProperties
    <2>2. Without(line[s], k) = SubSeq(line[s], 1, k - 1) \o SubSeq(line[s], k + 1, Len(line[s]))
      BY WithoutSubSeqs
    <2>3. Abs!Leave(s, line[s][k])
      BY <1>4, <2>2 DEF Abs!Leave, Abs!InLine
    <2> QED
      BY <2>1, <2>3
  <1>5. ASSUME NEW s \in Sems,
               IF line[s] = <<>> THEN owner' = [owner EXCEPT ![s] = NULL] /\ line2 = line
               ELSE /\ owner' = [owner EXCEPT ![s] = Head(line[s])]
                    /\ line2 = [line EXCEPT ![s] = Tail(line[s])]
        PROVE  Abs!Release(s)
    BY <1>5 DEF Abs!Release
  <1> QED
    BY <1>1, <1>2, <1>3, <1>4, <1>5 DEF Moved, Abs!Next

-----------------------------------------------------------------------------
(* timeoutList.                                                            *)

Timed == {t \in Tasks : pc[t] \in {"suspended", "SEM_AQUIRED"} /\ timeout[t] > 0}

Listed(tl) == IsList(tl, timeoutList, tnext, tprev, NULL) /\ Elements(tl) = Timed

\* _semaphoreTimer() is at an entry of the list
CursorInv == walking /\ next # NULL => next \in Timed

\* Steps that change no entry of the list.
LEMMA ListStays ==
    ASSUME NEW tl \in Seq(Tasks), Listed(tl), Timed' = Timed, UNCHANGED timeoutList,
           \A t \in Timed : tnext'[t] = tnext[t] /\ tprev'[t] = tprev[t]
    PROVE  Listed(tl)'
  <1>1. IsList(tl, timeoutList, tnext', tprev', NULL)
    BY SameList DEF Listed
  <1> QED
    BY <1>1 DEF Listed

\* A wait with a timeout goes to the front of the list.
LEMMA ListJoins ==
    ASSUME TypeInv, NEW tl \in Seq(Tasks), Listed(tl),
           NEW t \in Tasks, NEW n \in Nat, n > 0, pc[t] = "out", addTimeout(t, n),
           timeout' = [timeout EXCEPT ![t] = n], GoTo(t, "suspended")
    PROVE  <<t>> \o tl \in Seq(Tasks) /\ Listed(<<t>> \o tl)'
  <1>0. /\ NULL \notin Tasks /\ timeoutList \in Ptr /\ timeout \in [Tasks -> Int]
        /\ tnext \in [Tasks -> Ptr] /\ tprev \in [Tasks -> Ptr]
        /\ pc \in [Tasks -> {"out", "starting", "suspended", "SEM_AQUIRED", "SEM_TIMEOUT"}]
    BY NamesAssumption DEF TypeInv, TypeOK
  <1>1. t \notin Elements(tl)
    BY DEF Listed, Timed
  <1>2. timeoutList # t
    BY <1>0, <1>1, Neighbours DEF Listed
  <1>3. /\ timeoutList' = t /\ tnext'[t] = timeoutList /\ tprev'[t] = NULL
        /\ \A u \in Tasks \ {t} : tnext'[u] = tnext[u]
        /\ timeoutList # NULL => tprev'[timeoutList] = t
        /\ \A u \in Tasks \ {t, timeoutList} : tprev'[u] = tprev[u]
    BY <1>0, <1>2 DEF addTimeout, Ptr
  <1>4. Timed' = Timed \cup {t}
    BY <1>0 DEF Timed, GoTo
  <1>5. /\ <<t>> \o tl \in Seq(Tasks) /\ Elements(<<t>> \o tl) = Elements(tl) \cup {t}
        /\ IsList(<<t>> \o tl, t, tnext', tprev', NULL)
    <2> DEFINE nx2 == tnext'
               pv2 == tprev'
    <2>1. /\ nx2[t] = timeoutList /\ pv2[t] = NULL
          /\ \A u \in Tasks \ {t} : nx2[u] = tnext[u]
          /\ timeoutList # NULL => pv2[timeoutList] = t
          /\ \A u \in Tasks \ {t, timeoutList} : pv2[u] = tprev[u]
      BY <1>3
    <2> HIDE DEF nx2, pv2
    <2>2. /\ <<t>> \o tl \in Seq(Tasks) /\ Elements(<<t>> \o tl) = Elements(tl) \cup {t}
          /\ IsList(<<t>> \o tl, t, nx2, pv2, NULL)
      <3>1. NULL \notin Tasks /\ IsList(tl, timeoutList, tnext, tprev, NULL)
        BY <1>0 DEF Listed
      <3> QED
        BY <1>1, <2>1, <3>1, PushedList
    <2> QED
      BY <2>2 DEF nx2, pv2
  <1> QED
    BY <1>3, <1>4, <1>5 DEF Listed

\* A wait leaves the list, when it is over or its time is up.
LEMMA ListLeft ==
    ASSUME TypeInv, NEW tl \in Seq(Tasks), Listed(tl), NEW k \in 1..Len(tl), NEW e \in Tasks, tl[k] = e,
           timeoutList' = listWithout(e),
           \A u \in Tasks \ {e} : tnext'[u] = tnextWithout(e)[u] /\ tprev'[u] = tprevWithout(e)[u],
           Timed' = Timed \ {e}
    PROVE  /\ Without(tl, k) \in Seq(Tasks) /\ Listed(Without(tl, k))'
           /\ tnext[e] \in (Timed \ {e}) \cup {NULL}
  <1>0. NULL \notin Tasks /\ tnext \in [Tasks -> Ptr] /\ tprev \in [Tasks -> Ptr]
    BY NamesAssumption DEF TypeInv, TypeOK
  <1>1. IsList(tl, timeoutList, tnext, tprev, NULL) /\ Elements(tl) = Timed /\ e \in Elements(tl)
    BY DEF Listed, Elements
  <1>2. /\ \A u \in Tasks \ {tl[k]} : tnext'[u] = IF u = tprev[tl[k]] THEN tnext[tl[k]] ELSE tnext[u]
        /\ \A u \in Tasks \ {tl[k]} : tprev'[u] = IF u = tnext[tl[k]] THEN tprev[tl[k]] ELSE tprev[u]
    BY <1>0 DEF tnextWithout, tprevWithout
  <1>3. IsList(Without(tl, k), IF tprev[tl[k]] # NULL THEN timeoutList ELSE tnext[tl[k]], tnext', tprev', NULL)
    <2> DEFINE nx2 == tnext'
               pv2 == tprev'
    <2>1. /\ \A u \in Tasks \ {tl[k]} : nx2[u] = IF u = tprev[tl[k]] THEN tnext[tl[k]] ELSE tnext[u]
          /\ \A u \in Tasks \ {tl[k]} : pv2[u] = IF u = tnext[tl[k]] THEN tprev[tl[k]] ELSE tprev[u]
          /\ NULL \notin Tasks
      BY <1>0, <1>2
    <2> HIDE DEF nx2, pv2
    <2>2. IsList(Without(tl, k), IF tprev[tl[k]] # NULL THEN timeoutList ELSE tnext[tl[k]], nx2, pv2, NULL)
      BY <1>1, <2>1, UnlinkedList
    <2> QED
      BY <2>2 DEF nx2, pv2
  <1>4. Without(tl, k) \in Seq(Tasks) /\ Elements(Without(tl, k)) = Elements(tl) \ {tl[k]}
    <2>1. \A i, j \in 1..Len(tl) : tl[i] = tl[j] => i = j
      BY <1>1 DEF IsList, Forward
    <2> QED
      BY <2>1, WithoutElements
  <1>5. tnext[e] \in (Timed \ {e}) \cup {NULL}
    BY <1>1, Neighbours
  <1> QED
    BY <1>1, <1>3, <1>4, <1>5 DEF Listed, listWithout

\* What waits with a timeout do to timeoutList: they join it,
LEMMA WaitListed ==
    ASSUME TypeInv, NEW tl \in Seq(Tasks), Listed(tl),
           NEW t \in Tasks, NEW s \in Sems, NEW n \in Timeouts, Wait(t, s, n)
    PROVE  <<t>> \o tl \in Seq(Tasks) /\ Listed(<<t>> \o tl)'
  <1>1. n \in Nat /\ n > 0
    BY NamesAssumption
  <1>2. /\ pc[t] = "out" /\ addTimeout(t, n) /\ timeout' = [timeout EXCEPT ![t] = n]
        /\ GoTo(t, "suspended")
    BY <1>1 DEF Wait, Calls, At
  <1> QED
    BY <1>1, <1>2, ListJoins

\* ... and leave it when they are over.
LEMMA OverListed ==
    ASSUME TypeInv, CursorInv, NEW tl \in Seq(Tasks), Listed(tl),
           NEW e \in Tasks, TimeOut(e) \/ (Aquired(e) /\ timeout[e] > 0)
    PROVE  \E k \in 1..Len(tl) : /\ tl[k] = e /\ Without(tl, k) \in Seq(Tasks) /\ Listed(Without(tl, k))'
                                 /\ tnext[e] \in (Timed \ {e}) \cup {NULL} /\ Timed' = Timed \ {e}
  <1>0. /\ timeout \in [Tasks -> Int] /\ Elements(tl) = Timed
        /\ tnext \in [Tasks -> Ptr] /\ tprev \in [Tasks -> Ptr] /\ NULL \notin Tasks
        /\ pc \in [Tasks -> {"out", "starting", "suspended", "SEM_AQUIRED", "SEM_TIMEOUT"}]
    BY NamesAssumption DEF TypeInv, TypeOK, Listed
  <1>1. /\ e \in Timed /\ Timed' = Timed \ {e} /\ timeoutList' = listWithout(e)
        /\ \A u \in Tasks \ {e} : tnext'[u] = tnextWithout(e)[u] /\ tprev'[u] = tprevWithout(e)[u]
    <2>1. CASE TimeOut(e)
      <3>1. /\ walking /\ next = e /\ timeoutList' = listWithout(e) /\ tnext' = tnextWithout(e)
            /\ tprev' = tprevWithout(e) /\ timeout' = timeout /\ pc' = [pc EXCEPT ![e] = "SEM_TIMEOUT"]
        BY <2>1 DEF TimeOut, Visits, GoTo
      <3>2. e \in Timed
        BY <1>0, <3>1 DEF CursorInv
      <3> QED
        BY <1>0, <3>1, <3>2 DEF Timed
    <2>2. CASE Aquired(e) /\ timeout[e] > 0
      <3>1. /\ pc[e] = "SEM_AQUIRED" /\ timeoutList' = listWithout(e)
            /\ tnext' = [tnextWithout(e) EXCEPT ![e] = NULL] /\ tprev' = [tprevWithout(e) EXCEPT ![e] = NULL]
            /\ timeout' = [timeout EXCEPT ![e] = 0] /\ pc' = [pc EXCEPT ![e] = "out"]
        BY <2>2 DEF Aquired, At, Return, GoTo
      <3>2. tnextWithout(e) \in [Tasks -> Ptr] /\ tprevWithout(e) \in [Tasks -> Ptr]
        BY <1>0 DEF tnextWithout, tprevWithout, Ptr
      <3> QED
        BY <1>0, <2>2, <3>1, <3>2 DEF Timed
    <2> QED
      BY <2>1, <2>2
  <1>2. PICK k \in 1..Len(tl) : tl[k] = e
    BY <1>0, <1>1 DEF Elements
  <1>3. /\ Without(tl, k) \in Seq(Tasks) /\ Listed(Without(tl, k))'
        /\ tnext[e] \in (Timed \ {e}) \cup {NULL}
    BY <1>1, <1>2, ListLeft
  <1> QED
    BY <1>1, <1>2, <1>3

\* No other step changes it.
LEMMA OtherListed ==
    ASSUME IInv, [Next]_vars, NEW tl \in Seq(Tasks), Listed(tl),
           \A t \in Tasks, s \in Sems, n \in Timeouts : ~Wait(t, s, n),
           \A t \in Tasks : ~TimeOut(t) /\ ~(Aquired(t) /\ timeout[t] > 0)
    PROVE  Listed(tl)' /\ Timed' = Timed
  <1>0. /\ timeout \in [Tasks -> Int] /\ Elements(tl) = Timed
        /\ pc \in [Tasks -> {"out", "starting", "suspended", "SEM_AQUIRED", "SEM_TIMEOUT"}]
    BY DEF IInv, TypeInv, TypeOK, Listed
  <1> DEFINE Kept == /\ UNCHANGED timeoutList /\ Timed' = Timed
                     /\ \A t \in Timed : tnext'[t] = tnext[t] /\ tprev'[t] = tprev[t]
  <1>1. ASSUME NEW t \in Tasks, TaskStep(t) PROVE Kept
    <2>1. ASSUME StartTimer(t) \/ RunTimer(t) PROVE Kept
      <3>1. /\ pc[t] \in {"out", "starting"} /\ UNCHANGED <<tnext, tprev, timeout, timeoutList>>
            /\ \/ pc' = [pc EXCEPT ![t] = "starting"] \/ pc' = [pc EXCEPT ![t] = "out"]
        BY <2>1 DEF StartTimer, RunTimer, At, GoTo, timeVars
      <3> QED
        BY <1>0, <3>1 DEF Timed
    <2>2. ASSUME TimedOut(t) \/ (Aquired(t) /\ ~(timeout[t] > 0)) PROVE Kept
      <3>1. /\ t \notin Timed /\ timeoutList' = timeoutList
            /\ timeout' = [timeout EXCEPT ![t] = 0] /\ pc' = [pc EXCEPT ![t] = "out"]
            /\ \A u \in Tasks \ {t} : tnext'[u] = tnext[u] /\ tprev'[u] = tprev[u]
        <4>1. CASE TimedOut(t)
          BY <1>0, <4>1 DEF TimedOut, At, Return, GoTo, Timed, IInv, TypeInv, TypeOK
        <4>2. CASE Aquired(t) /\ ~(timeout[t] > 0)
          BY <1>0, <4>2 DEF Aquired, At, Return, GoTo, Timed
        <4> QED
          BY <2>2, <4>1, <4>2
      <3>2. Timed' = Timed
        BY <1>0, <3>1 DEF Timed
      <3> QED
        BY <3>1, <3>2 DEF Timed
    <2>3. ASSUME NEW s \in Sems, initSemaphore(t, s) \/ getSemaphore(t, s) PROVE Kept
      BY <2>3 DEF initSemaphore, getSemaphore, timeVars, taskVars, Timed
    <2>4. ASSUME NEW s \in Sems, Put(t, s) \/ Signal(t, s) PROVE Kept
      <3>1. putSemaphore(s)
        BY <2>4 DEF Put, Signal
      <3>2. UNCHANGED <<tnext, tprev, timeout, timeoutList>>
        BY <3>1 DEF putSemaphore, timeVars
      <3>3. \/ pc' = pc
            \/ \E e \in Tasks : pc[e] = "suspended" /\ pc' = [pc EXCEPT ![e] = "SEM_AQUIRED"]
        BY <3>1, PutOwner
      <3>4. \A u \in Tasks : pc'[u] \in {"suspended", "SEM_AQUIRED"} <=> pc[u] \in {"suspended", "SEM_AQUIRED"}
        BY <1>0, <3>3
      <3> QED
        BY <3>2, <3>4 DEF Timed
    <2>5. ASSUME NEW s \in Sems, Wait(t, s, NOTIMEOUT) PROVE Kept
      <3>1. /\ pc[t] = "out" /\ pc' = [pc EXCEPT ![t] = "suspended"]
            /\ timeout' = [timeout EXCEPT ![t] = NOTIMEOUT] /\ UNCHANGED <<tnext, tprev, timeoutList>>
        BY <2>5 DEF Wait, Calls, At, GoTo, NOTIMEOUT
      <3>2. ~(NOTIMEOUT > 0)
        BY DEF NOTIMEOUT
      <3>3. Timed' = Timed
        BY <1>0, <3>1, <3>2 DEF Timed
      <3> QED
        BY <3>1, <3>3
    <2> HIDE DEF Kept
    <2> QED
      BY <1>1, <2>1, <2>2, <2>3, <2>4, <2>5 DEF TaskStep
  <1>2. ASSUME \/ clockTick \/ TimerCall \/ TimerDone \/ UNCHANGED vars
               \/ \E e \in Tasks : CountDown(e) \/ TooLate(e)
        PROVE  Kept
    BY <1>2 DEF clockTick, TimerCall, TimerDone, CountDown, TooLate, Visits, vars, timeVars, taskVars, Timed
  <1>3. Kept
    <2> HIDE DEF Kept
    <2> QED
      BY <1>1, <1>2 DEF Next, Clock
  <1> QED
    BY <1>3, ListStays

\* Every step keeps timeoutList a list of the waits with a timeout.
LEMMA ListNext ==
    ASSUME IInv, CursorInv, [Next]_vars, NEW tl \in Seq(Tasks), Listed(tl)
    PROVE  \E tl2 \in Seq(Tasks) : Listed(tl2)'
  <1>1. ASSUME NEW t \in Tasks, NEW s \in Sems, NEW n \in Timeouts, Wait(t, s, n)
        PROVE  \E tl2 \in Seq(Tasks) : Listed(tl2)'
    <2>1. PICK a \in Seq(Tasks) : a = <<t>> \o tl
      BY <1>1, WaitListed DEF IInv
    <2> QED
      BY <1>1, <2>1, WaitListed DEF IInv
  <1>2. ASSUME NEW e \in Tasks, TimeOut(e) \/ (Aquired(e) /\ timeout[e] > 0)
        PROVE  \E tl2 \in Seq(Tasks) : Listed(tl2)'
    <2>1. PICK k \in 1..Len(tl) : Without(tl, k) \in Seq(Tasks) /\ Listed(Without(tl, k))'
      BY <1>2, OverListed DEF IInv
    <2> QED
      BY <2>1
  <1> QED
    BY <1>1, <1>2, OtherListed

\* The cursor of the walk stays on the list.
LEMMA CursorNext ==
    ASSUME IInv, CursorInv, [Next]_vars, NEW tl \in Seq(Tasks), Listed(tl)
    PROVE  CursorInv'
  <1>0. /\ IsList(tl, timeoutList, tnext, tprev, NULL) /\ Elements(tl) = Timed /\ (walking => firing # 0)
        /\ tnext \in [Tasks -> Ptr] /\ timeout \in [Tasks -> Int] /\ NULL \notin Tasks
        /\ pc \in [Tasks -> {"out", "starting", "suspended", "SEM_AQUIRED", "SEM_TIMEOUT"}]
    BY NamesAssumption DEF Listed, IInv, TypeInv, TypeOK
  <1>1. timeoutList \in Timed \cup {NULL} /\ \A u \in Timed : tnext[u] \in (Timed \ {u}) \cup {NULL}
    <2>1. /\ timeoutList \in Elements(tl) \cup {NULL}
          /\ \A u \in Elements(tl) : tnext[u] \in (Elements(tl) \ {u}) \cup {NULL}
      <3>1. IsList(tl, timeoutList, tnext, tprev, NULL)
        BY DEF Listed
      <3> QED
        BY <3>1, Neighbours
    <2> QED
      BY <1>0, <2>1
  <1>2. ASSUME NEW t \in Tasks, TaskStep(t) PROVE CursorInv'
    <2>1. firing = 0 /\ UNCHANGED tickVars
      BY <1>2 DEF TaskStep, StartTimer, RunTimer, Aquired, TimedOut, initSemaphore, getSemaphore,
         Put, Signal, putSemaphore, Wait, Calls, At, Return
    <2>2. ~walking /\ walking' = walking
      BY <1>0, <2>1 DEF tickVars
    <2> QED
      BY <2>2 DEF CursorInv
  <1>3. ASSUME NEW e \in Tasks, TimeOut(e) PROVE CursorInv'
    <2>1. /\ walking /\ next = e /\ next' = tnext[e] /\ timeout' = timeout
          /\ pc' = [pc EXCEPT ![e] = "SEM_TIMEOUT"]
      BY <1>3 DEF TimeOut, Visits, GoTo
    <2>2. e \in Timed /\ Timed' = Timed \ {e}
      BY <1>0, <2>1 DEF CursorInv, Timed
    <2> QED
      BY <1>1, <2>1, <2>2 DEF CursorInv
  <1>4. ASSUME NEW e \in Tasks, CountDown(e) \/ TooLate(e) PROVE CursorInv'
    <2>1. walking /\ next = e /\ next' = tnext[e] /\ UNCHANGED <<pc, timeout>>
      BY <1>4 DEF CountDown, TooLate, Visits
    <2>2. e \in Timed /\ Timed' = Timed
      BY <1>0, <2>1 DEF CursorInv, Timed
    <2> QED
      BY <1>1, <2>1, <2>2 DEF CursorInv
  <1>5. CASE clockTick \/ TimerDone \/ UNCHANGED vars
    BY <1>5 DEF clockTick, TimerDone, vars, timeVars, taskVars, tickVars, CursorInv, Timed
  <1>6. CASE TimerCall
    <2>1. next' = timeoutList /\ UNCHANGED <<pc, timeout>>
      BY <1>6 DEF TimerCall, timeVars, taskVars
    <2> QED
      BY <1>1, <2>1 DEF CursorInv, Timed
  <1> QED
    BY <1>2, <1>3, <1>4, <1>5, <1>6 DEF Next, Clock

-----------------------------------------------------------------------------
\* The links of the queues and of timeoutList are inductive together with who
\* owns a semaphore and where the walk of the list is.
ListIInv ==
    /\ IInv /\ CursorInv
    /\ \E line \in [Sems -> Seq(Tasks)] : InLines(line)
    /\ \E tl \in Seq(Tasks) : Listed(tl)

\* Both lists are empty in the beginning.
LEMMA ListIInit == Init => ListIInv
  <1> SUFFICES ASSUME Init PROVE ListIInv
    OBVIOUS
  <1>0. <<>> \in Seq(Tasks) /\ Len(<<>>) = 0 /\ Elements(<<>>) = {}
    BY EmptySeq DEF Elements
  <1>1. \A s \in Sems : Lined(s, <<>>)
    BY <1>0 DEF Init, Lined, IsList, Forward, Backward, LastOf, Waiting
  <1>2. [s \in Sems |-> <<>>] \in [Sems -> Seq(Tasks)] /\ InLines([s \in Sems |-> <<>>])
    BY <1>0, <1>1 DEF InLines
  <1>3. Listed(<<>>)
    BY <1>0 DEF Init, Listed, IsList, Forward, Backward, Timed
  <1>4. CursorInv
    BY DEF Init, CursorInv
  <1> QED
    BY <1>0, <1>2, <1>3, <1>4, InitInv DEF ListIInv

\* Every step keeps the lists' invariant.
LEMMA ListINext == ListIInv /\ [Next]_vars => ListIInv'
  <1> SUFFICES ASSUME ListIInv, [Next]_vars PROVE ListIInv'
    OBVIOUS
  <1>1. PICK line \in [Sems -> Seq(Tasks)], tl \in Seq(Tasks) : InLines(line) /\ Listed(tl)
    BY DEF ListIInv
  <1>2. \E line2 \in [Sems -> Seq(Tasks)] : InLines(line2)'
    BY <1>1, LinesNext DEF ListIInv, MovedOn
  <1>3. \E tl2 \in Seq(Tasks) : Listed(tl2)'
    BY <1>1, ListNext DEF ListIInv
  <1>4. CursorInv' /\ IInv'
    BY <1>1, CursorNext, NextInv DEF ListIInv
  <1> QED
    BY <1>2, <1>3, <1>4 DEF ListIInv

\* The lists' invariant is what ListsSound says of them, and more.
LEMMA ListISound == ListIInv => ListsSound
  <1> SUFFICES ASSUME ListIInv PROVE ListsSound
    OBVIOUS
  <1>1. PICK line \in [Sems -> Seq(Tasks)], tl \in Seq(Tasks) : InLines(line) /\ Listed(tl)
    BY DEF ListIInv
  <1>2. ASSUME NEW l \in Seq(Tasks), NEW head, NEW links, NEW back, IsList(l, head, links, back, NULL)
        PROVE  Linked(l, back) /\ Entries(l) = Elements(l)
    <2>1. DOMAIN l = 1..Len(l)
      BY LenProperties
    <2>2. Cardinality(Elements(l)) = Len(l)
      BY <1>2, CountElements DEF IsList, Forward
    <2> QED
      BY <1>2, <2>1, <2>2 DEF Linked, Entries, Elements, IsList, Backward
  <1>3. QueueSound
    <2> SUFFICES ASSUME NEW s \in valid
                 PROVE  /\ Linked(Queue(s), qprev)
                        /\ qtail[s] = IF Queue(s) = <<>> THEN NULL ELSE Queue(s)[Len(Queue(s))]
                        /\ Entries(Queue(s)) = {t \in Tasks : pc[t] = "suspended" /\ psem[t] = s}
      BY DEF QueueSound
    <2>1. s \in Sems
      BY DEF ListIInv, IInv, TypeInv, TypeOK
    <2>2. PICK l \in Seq(Tasks) : Lined(s, l)
      BY <1>1, <2>1 DEF InLines
    <2>3. Queue(s) = l
      BY <2>1, <2>2, WalkLine
    <2>4. Linked(l, qprev) /\ Entries(l) = Elements(l)
      BY <1>2, <2>2 DEF Lined
    <2>5. l = <<>> <=> Len(l) = 0
      BY EmptySeq
    <2> QED
      BY <2>2, <2>3, <2>4, <2>5 DEF Lined, LastOf, Waiting
  <1>4. TimeoutListSound
    <2>1. Chain(timeoutList, tnext) = tl
      BY <1>1, WalkChain DEF Listed, IsList
    <2>2. Linked(tl, tprev) /\ Entries(tl) = Elements(tl)
      BY <1>1, <1>2 DEF Listed
    <2> QED
      BY <1>1, <2>1, <2>2 DEF TimeoutListSound, Listed, Timed
  <1> QED
    BY <1>3, <1>4 DEF ListsSound

\* The two lists through one set of entries are sound whichever way a wait
\* ends: the queue of a semaphore holds exactly the tasks suspended for it, and
\* timeoutList the waits with a timeout that are not over.
THEOREM ListsHold == Spec => []ListsSound
  BY ListIInit, ListINext, ListISound, PTL DEF Spec

\* Every step is one of SemaphoreAbs, or none.
LEMMA ListIStep == ListIInv /\ [Next]_vars => [Abs!Next]_(Abs!vars)
  <1> SUFFICES ASSUME ListIInv, [Next]_vars PROVE [Abs!Next]_(Abs!vars)
    OBVIOUS
  <1>1. PICK line \in [Sems -> Seq(Tasks)] : InLines(line)
    BY DEF ListIInv
  <1>2. PICK line2 \in [Sems -> Seq(Tasks)] : InLines(line2)' /\ Moved(line, line2)
    BY <1>1, LinesNext DEF ListIInv, MovedOn
  <1>3. \A s \in Sems : Queue(s) = line[s]
    BY <1>1, WalkLine DEF InLines
  <1>4. ASSUME NEW s \in Sems PROVE Queue(s)' = line2[s]
    <2>1. PICK l \in Seq(Tasks) : l = line2[s]
      OBVIOUS
    <2>2. Lined(s, l)'
      BY <1>2, <2>1 DEF InLines
    <2> DEFINE hd == qhead'[s]
               nx == qnext'
    <2>3. Forward(l, hd, nx, NULL)
      BY <2>2 DEF Lined, IsList
    <2> HIDE DEF hd, nx
    <2>4. Chain(hd, nx) = l
      BY <2>3, WalkChain
    <2> QED
      BY <2>1, <2>4 DEF Queue, hd, nx
  <1>5. [s \in Sems |-> Queue(s)] = line /\ [s \in Sems |-> Queue(s)]' = line2
    BY <1>3, <1>4
  <1> QED
    BY <1>2, <1>5, MoveIsStep

\* The initial states are those of SemaphoreAbs.
LEMMA InitLines == Init => Abs!Init
  <1> SUFFICES ASSUME Init PROVE Abs!Init
    OBVIOUS
  <1>1. ASSUME NEW s \in Sems PROVE Queue(s) = <<>>
    <2>1. Lined(s, <<>>) /\ <<>> \in Seq(Tasks)
      BY EmptySeq DEF Init, Lined, IsList, Forward, Backward, LastOf, Waiting, Elements
    <2> QED
      BY <2>1, WalkLine
  <1> QED
    BY <1>1 DEF Init, Abs!Init

\* The semaphores implement SemaphoreAbs: each is an owner and a line of tasks,
\* and a release hands it to the first in line.
THEOREM ServedInTurn == Spec => FirstComeFirstServed
  BY ListIInit, ListINext, ListIStep, InitLines, PTL DEF Spec, FirstComeFirstServed, Abs!Spec

-----------------------------------------------------------------------------
(* How long a wait with a timeout takes, when one timer drives the list.   *)

OneTimer ==
    /\ ~StartRace
    /\ timers = (IF timerRunning THEN 1 ELSE 0) /\ firing <= timers
    /\ \A t, u \in Tasks : pc[t] = "starting" => ~timerRunning /\ (pc[u] = "starting" => t = u)

\* The clock has struck and _semaphoreTimer() has yet to come to the i-th entry
Behind(tl, i) == firing # 0 /\ (walking => \E k \in 1..Len(tl) : tl[k] = next /\ k <= i)

\* The ticks a wait has left and those it has lasted make up its timeout; an
\* entry the walk has yet to come to is a tick behind
Counting(tl) ==
    \A i \in 1..Len(tl) : pc[tl[i]] = "suspended" =>
        IF Behind(tl, i)
        THEN /\ remaining[tl[i]] + waited[tl[i]] = timeout[tl[i]] + 1
             /\ 1 <= waited[tl[i]] /\ waited[tl[i]] <= timeout[tl[i]]
        ELSE remaining[tl[i]] + waited[tl[i]] = timeout[tl[i]] /\ waited[tl[i]] < timeout[tl[i]]

TimeIInv ==
    /\ ListIInv /\ OneTimer /\ waited \in [Tasks -> Nat]
    /\ \E tl \in Seq(Tasks) : Listed(tl) /\ Counting(tl)

TimeStep == \E tl2 \in Seq(Tasks) : Listed(tl2)' /\ Counting(tl2)'

\* Without the race there is one timer.
LEMMA OneTimerNext ==
    ASSUME IInv, OneTimer, [Next]_vars
    PROVE  OneTimer'
  <1>0. /\ timers \in Nat /\ firing \in Nat /\ timerRunning \in BOOLEAN
        /\ pc \in [Tasks -> {"out", "starting", "suspended", "SEM_AQUIRED", "SEM_TIMEOUT"}]
        /\ OneTimer
    BY DEF IInv, TypeInv, TypeOK
  <1>1. ASSUME UNCHANGED <<timers, timerRunning, firing>>,
               \A t \in Tasks : pc'[t] = "starting" => pc[t] = "starting"
        PROVE  OneTimer'
    BY <1>1 DEF OneTimer
  <1>2. ASSUME NEW t \in Tasks, StartTimer(t) PROVE OneTimer'
    <2>1. /\ ~timerRunning /\ \A u \in Tasks : pc[u] # "starting"
          /\ pc' = [pc EXCEPT ![t] = "starting"] /\ UNCHANGED <<timers, timerRunning, firing>>
      BY <1>0, <1>2 DEF StartTimer, OneTimer, GoTo, timerVars, tickVars
    <2>2. \A u \in Tasks : pc'[u] = "starting" => u = t
      BY <1>0, <2>1
    <2> QED
      BY <1>0, <2>1, <2>2 DEF OneTimer
  <1>3. ASSUME NEW t \in Tasks, RunTimer(t) PROVE OneTimer'
    <2>1. /\ pc[t] = "starting" /\ firing = 0 /\ firing' = firing /\ pc' = [pc EXCEPT ![t] = "out"]
          /\ \/ timers' = timers + 1 /\ timerRunning' = TRUE
             \/ UNCHANGED <<timers, timerRunning>>
      BY <1>3 DEF RunTimer, At, GoTo, timerVars, tickVars
    <2>2. \A u \in Tasks : pc'[u] # "starting"
      BY <1>0, <2>1 DEF OneTimer
    <2>3. ~timerRunning /\ timers = 0
      BY <1>0, <2>1 DEF OneTimer
    <2>4. CASE timers' = timers + 1 /\ timerRunning' = TRUE
      <3>1. timers' = 1 /\ firing' <= timers'
        BY <2>1, <2>3, <2>4
      <3> QED
        BY <1>0, <2>2, <2>4, <3>1 DEF OneTimer
    <2>5. CASE UNCHANGED <<timers, timerRunning>>
      BY <1>0, <2>1, <2>2, <2>5 DEF OneTimer
    <2> QED
      BY <2>1, <2>4, <2>5
  <1>4. ASSUME NEW t \in Tasks, TaskStep(t), ~StartTimer(t), ~RunTimer(t) PROVE OneTimer'
    <2>1. UNCHANGED <<timers, timerRunning, firing>>
      BY <1>4 DEF TaskStep, Aquired, TimedOut, initSemaphore, getSemaphore, Put, Signal, putSemaphore,
         Wait, Return, timerVars, tickVars
    <2>2. ASSUME NEW s \in Sems, Put(t, s) \/ Signal(t, s)
          PROVE  \A u \in Tasks : pc'[u] = "starting" => pc[u] = "starting"
      <3>1. \/ pc' = pc
            \/ \E e \in Tasks : pc[e] = "suspended" /\ pc' = [pc EXCEPT ![e] = "SEM_AQUIRED"]
        BY <2>2, PutOwner DEF Put, Signal
      <3> QED
        BY <1>0, <3>1
    <2>3. ASSUME \/ Aquired(t) \/ TimedOut(t)
                 \/ \E s \in Sems : \/ initSemaphore(t, s) \/ getSemaphore(t, s)
                                    \/ \E n \in Timeouts \cup {NOTIMEOUT} : Wait(t, s, n)
          PROVE  \A u \in Tasks : pc'[u] = "starting" => pc[u] = "starting"
      BY <1>0, <2>3 DEF Aquired, TimedOut, initSemaphore, getSemaphore, Wait, Return, GoTo, taskVars
    <2>4. \A u \in Tasks : pc'[u] = "starting" => pc[u] = "starting"
      BY <1>4, <2>2, <2>3 DEF TaskStep
    <2> QED
      BY <1>1, <2>1, <2>4
  <1>5. CASE clockTick \/ TimerDone
    <2>1. UNCHANGED <<timers, timerRunning, pc>> /\ firing' <= timers
      BY <1>0, <1>5 DEF clockTick, TimerDone, timerVars, taskVars, OneTimer
    <2> QED
      BY <1>0, <2>1 DEF OneTimer
  <1>6. ASSUME NEW e \in Tasks, CountDown(e) \/ TooLate(e) \/ TimeOut(e) PROVE OneTimer'
    <2>1. /\ UNCHANGED <<timers, timerRunning, firing>>
          /\ pc' = pc \/ pc' = [pc EXCEPT ![e] = "SEM_TIMEOUT"]
      BY <1>6 DEF CountDown, TooLate, TimeOut, Visits, GoTo, timerVars
    <2> QED
      BY <1>0, <1>1, <2>1
  <1>7. CASE TimerCall \/ UNCHANGED vars
    BY <1>1, <1>7 DEF TimerCall, vars, timerVars, tickVars, taskVars
  <1> QED
    BY <1>2, <1>3, <1>4, <1>5, <1>6, <1>7 DEF Next, Clock

\* What a step makes of the ticks a wait has lasted.
LEMMA WaitedTypes ==
    ASSUME waited \in [Tasks -> Nat], TimeNext
    PROVE  /\ waited' \in [Tasks -> Nat]
           /\ \A t \in Tasks :
                waited'[t] = IF pc[t] # "suspended" THEN 0
                             ELSE IF firing = 0 /\ firing' > 0 /\ timeout[t] > 0 THEN waited[t] + 1
                             ELSE waited[t]
  BY DEF TimeNext

\* The entries of the list, in order.
LEMMA ListedEntries ==
    ASSUME IInv, waited \in [Tasks -> Nat], NEW tl \in Seq(Tasks), Listed(tl)
    PROVE  /\ Len(tl) \in Nat /\ \A i, j \in 1..Len(tl) : tl[i] = tl[j] => i = j
           /\ timeoutList = IF Len(tl) = 0 THEN NULL ELSE tl[1]
           /\ \A i \in 1..Len(tl) :
                /\ tl[i] \in Timed /\ tl[i] \in Tasks /\ tl[i] # NULL /\ timeout[tl[i]] > 0
                /\ tnext[tl[i]] = IF i = Len(tl) THEN NULL ELSE tl[i + 1]
                /\ timeout[tl[i]] \in Int /\ remaining[tl[i]] \in Nat /\ waited[tl[i]] \in Nat
  <1>1. Len(tl) \in Nat /\ \A i \in 1..Len(tl) : tl[i] \in Tasks /\ tl[i] \in Timed
    BY LenProperties DEF Listed, Elements
  <1>2. timeout \in [Tasks -> Int] /\ remaining \in [Tasks -> Nat] /\ NULL \notin Tasks
    BY NamesAssumption DEF IInv, TypeInv, TypeOK
  <1>3. /\ \A i, j \in 1..Len(tl) : tl[i] = tl[j] => i = j
        /\ timeoutList = IF Len(tl) = 0 THEN NULL ELSE tl[1]
        /\ \A i \in 1..Len(tl) : tnext[tl[i]] = IF i = Len(tl) THEN NULL ELSE tl[i + 1]
    BY DEF Listed, IsList, Forward
  <1> QED
    BY <1>1, <1>2, <1>3 DEF Timed

\* Between ticks no call changes how long another wait lasts.
LEMMA CallCounts ==
    ASSUME TimeIInv, NEW tl \in Seq(Tasks), Listed(tl), Counting(tl), NEW tl2 \in Seq(Tasks), Listed(tl2)',
           firing = 0, firing' = 0,
           \A u \in Timed' : pc'[u] = "suspended" =>
               \/ /\ pc[u] = "suspended" /\ u \in Timed
                  /\ remaining'[u] = remaining[u] /\ timeout'[u] = timeout[u] /\ waited'[u] = waited[u]
               \/ remaining'[u] = timeout'[u] /\ timeout'[u] \in Nat /\ timeout'[u] > 0 /\ waited'[u] = 0
    PROVE  TimeStep
  <1>1. ASSUME NEW i \in 1..Len(tl2), pc'[tl2[i]] = "suspended"
        PROVE  /\ remaining'[tl2[i]] + waited'[tl2[i]] = timeout'[tl2[i]]
               /\ waited'[tl2[i]] < timeout'[tl2[i]]
    <2>1. PICK u : u = tl2[i] /\ u \in Timed' /\ pc'[u] = "suspended"
      BY <1>1 DEF Listed, Elements
    <2>2. CASE /\ pc[u] = "suspended" /\ u \in Timed
               /\ remaining'[u] = remaining[u] /\ timeout'[u] = timeout[u] /\ waited'[u] = waited[u]
      <3>1. PICK j \in 1..Len(tl) : u = tl[j]
        BY <2>2 DEF Listed, Elements
      <3>2. remaining[u] + waited[u] = timeout[u] /\ waited[u] < timeout[u]
        BY <2>2, <3>1 DEF Counting, Behind
      <3> QED
        BY <2>1, <2>2, <3>2
    <2>3. CASE remaining'[u] = timeout'[u] /\ timeout'[u] \in Nat /\ timeout'[u] > 0 /\ waited'[u] = 0
      BY <2>1, <2>3
    <2> QED
      BY <2>1, <2>2, <2>3
  <1>2. Counting(tl2)'
    BY <1>1 DEF Counting, Behind
  <1> QED
    BY <1>2 DEF TimeStep

\* A wait that begins has lasted no tick.
LEMMA WaitCounts ==
    ASSUME TimeIInv, TimeNext, NEW tl \in Seq(Tasks), Listed(tl), Counting(tl),
           NEW t \in Tasks, TaskStep(t)
    PROVE  TimeStep
  <1>0. /\ timeout \in [Tasks -> Int] /\ remaining \in [Tasks -> Nat] /\ waited \in [Tasks -> Nat]
        /\ pc \in [Tasks -> {"out", "starting", "suspended", "SEM_AQUIRED", "SEM_TIMEOUT"}]
        /\ IInv /\ TypeInv /\ CursorInv
    BY DEF TimeIInv, ListIInv, IInv, TypeInv, TypeOK
  <1>1. firing = 0 /\ firing' = 0
    BY DEF TaskStep, StartTimer, RunTimer, Aquired, TimedOut, initSemaphore, getSemaphore,
       Put, Signal, putSemaphore, Wait, Calls, At, Return, tickVars
  <1>2. \A u \in Tasks : waited'[u] = IF pc[u] # "suspended" THEN 0 ELSE waited[u]
    BY <1>0, <1>1, WaitedTypes
  <1>3. Next
    BY DEF TimeNext
  <1>4. \E tl2 \in Seq(Tasks) : Listed(tl2)'
    BY <1>0, <1>3, ListNext
  <1>5. ASSUME \A u \in Timed' : pc'[u] = "suspended" =>
                   \/ /\ pc[u] = "suspended"
                      /\ remaining'[u] = remaining[u] /\ timeout'[u] = timeout[u]
                   \/ /\ remaining'[u] = timeout'[u] /\ timeout'[u] \in Nat /\ timeout'[u] > 0
                      /\ pc[u] # "suspended"
        PROVE  TimeStep
    <2>1. ASSUME NEW u \in Timed', pc'[u] = "suspended"
          PROVE  \/ /\ pc[u] = "suspended" /\ u \in Timed
                    /\ remaining'[u] = remaining[u] /\ timeout'[u] = timeout[u] /\ waited'[u] = waited[u]
                 \/ remaining'[u] = timeout'[u] /\ timeout'[u] \in Nat /\ timeout'[u] > 0 /\ waited'[u] = 0
      <3>1. u \in Tasks /\ timeout'[u] > 0
        BY DEF Timed
      <3> QED
        BY <1>2, <1>5, <2>1, <3>1 DEF Timed
    <2> QED
      BY <1>1, <1>4, <2>1, CallCounts
  <1>6. ASSUME NEW s \in Sems, NEW n \in Timeouts \cup {NOTIMEOUT}, Wait(t, s, n) PROVE TimeStep
    <2>1. /\ pc[t] = "out" /\ pc' = [pc EXCEPT ![t] = "suspended"] /\ timeout' = [timeout EXCEPT ![t] = n]
          /\ IF n > 0 THEN remaining' = [remaining EXCEPT ![t] = n] ELSE remaining' = remaining
      BY <1>6 DEF Wait, Calls, At, GoTo, addTimeout
    <2>2. n \in Int /\ (n > 0 => n \in Nat)
      <3>1. NOTIMEOUT \in Int /\ ~(NOTIMEOUT > 0)
        BY DEF NOTIMEOUT
      <3> QED
        BY <3>1, NamesAssumption
    <2>3. \A u \in Tasks \ {t} : pc'[u] = pc[u] /\ remaining'[u] = remaining[u] /\ timeout'[u] = timeout[u]
      BY <1>0, <2>1
    <2>4. t \in Timed' => n > 0 /\ remaining'[t] = n /\ timeout'[t] = n
      BY <1>0, <2>1, <2>2 DEF Timed
    <2> QED
      BY <1>5, <2>1, <2>2, <2>3, <2>4 DEF Timed
  <1>7. CASE \/ StartTimer(t) \/ RunTimer(t) \/ Aquired(t) \/ TimedOut(t)
             \/ \E s \in Sems : initSemaphore(t, s) \/ getSemaphore(t, s)
    <2>1. /\ \A u \in Tasks \ {t} : pc'[u] = pc[u] /\ remaining'[u] = remaining[u] /\ timeout'[u] = timeout[u]
          /\ pc'[t] # "suspended" \/ UNCHANGED <<pc, remaining, timeout>>
      BY <1>0, <1>7 DEF StartTimer, RunTimer, Aquired, TimedOut, initSemaphore, getSemaphore,
         Return, GoTo, timeVars, taskVars
    <2> QED
      BY <1>5, <2>1 DEF Timed
  <1>8. ASSUME NEW s \in Sems, Put(t, s) \/ Signal(t, s) PROVE TimeStep
    <2>1. \/ pc' = pc
          \/ \E e \in Tasks : pc[e] = "suspended" /\ pc' = [pc EXCEPT ![e] = "SEM_AQUIRED"]
      BY <1>0, <1>8, PutOwner DEF Put, Signal
    <2>2. UNCHANGED <<remaining, timeout>>
      BY <1>8 DEF Put, Signal, putSemaphore, timeVars
    <2> QED
      BY <1>0, <1>5, <2>1, <2>2 DEF Timed
  <1> QED
    BY <1>6, <1>7, <1>8 DEF TaskStep

\* The clock strikes: every wait on the list is a tick behind.
LEMMA StrikeCounts ==
    ASSUME TimeIInv, TimeNext, NEW tl \in Seq(Tasks), Listed(tl), Counting(tl), clockTick
    PROVE  TimeStep
  <1>0. IInv /\ CursorInv /\ OneTimer /\ waited \in [Tasks -> Nat]
    BY DEF TimeIInv, ListIInv
  <1>1. /\ firing = 0 /\ firing' > 0 /\ ~walking /\ ~walking' /\ firing' # 0
        /\ UNCHANGED <<pc, timeout, remaining, timeoutList, tnext, tprev>>
    <2>1. firing = 0 /\ timers > 0 /\ firing' = timers /\ walking' = walking
          /\ UNCHANGED <<pc, timeout, remaining, timeoutList, tnext, tprev>>
      BY DEF clockTick, timeVars, taskVars
    <2>2. ~walking /\ timers \in Nat
      BY <1>0, <2>1 DEF IInv, TypeInv, TypeOK
    <2> QED
      BY <2>1, <2>2
  <1>2. Listed(tl)'
    BY <1>1, ListStays DEF Timed
  <1>3. Counting(tl)'
    <2> SUFFICES ASSUME NEW i \in 1..Len(tl), pc'[tl[i]] = "suspended"
                 PROVE  /\ remaining'[tl[i]] + waited'[tl[i]] = timeout'[tl[i]] + 1
                        /\ 1 <= waited'[tl[i]] /\ waited'[tl[i]] <= timeout'[tl[i]]
      BY <1>1 DEF Counting, Behind
    <2>1. /\ tl[i] \in Tasks /\ timeout[tl[i]] > 0 /\ timeout[tl[i]] \in Int
          /\ remaining[tl[i]] \in Nat /\ waited[tl[i]] \in Nat
      BY <1>0, ListedEntries
    <2>2. remaining[tl[i]] + waited[tl[i]] = timeout[tl[i]] /\ waited[tl[i]] < timeout[tl[i]]
      BY <1>1 DEF Counting, Behind
    <2>3. waited'[tl[i]] = waited[tl[i]] + 1
      BY <1>0, <1>1, <2>1, WaitedTypes
    <2>4. PICK r \in Nat, w \in Nat, n \in Int :
                 r = remaining[tl[i]] /\ w = waited[tl[i]] /\ n = timeout[tl[i]]
      BY <2>1
    <2>5. remaining'[tl[i]] = r /\ waited'[tl[i]] = w + 1 /\ timeout'[tl[i]] = n
      BY <1>1, <2>3, <2>4
    <2>6. r + (w + 1) = n + 1 /\ 1 <= w + 1 /\ w + 1 <= n
      BY <2>2, <2>4
    <2> QED
      BY <2>5, <2>6
  <1> QED
    BY <1>2, <1>3 DEF TimeStep

\* The walk begins at the head of the list, and ends when it is through.
LEMMA TurnCounts ==
    ASSUME TimeIInv, TimeNext, NEW tl \in Seq(Tasks), Listed(tl), Counting(tl), TimerCall \/ TimerDone
    PROVE  TimeStep
  <1>0. IInv /\ CursorInv /\ OneTimer /\ waited \in [Tasks -> Nat]
    BY DEF TimeIInv, ListIInv
  <1>1. UNCHANGED <<pc, timeout, remaining, timeoutList, tnext, tprev>>
    BY DEF TimerCall, TimerDone, timeVars, taskVars
  <1>2. firing # 0 /\ firing \in Nat /\ firing <= 1
    BY <1>0 DEF TimerCall, TimerDone, IInv, TypeInv, TypeOK, OneTimer
  <1>3. Listed(tl)'
    BY <1>1, ListStays DEF Timed
  <1>4. /\ Len(tl) \in Nat /\ timeoutList = IF Len(tl) = 0 THEN NULL ELSE tl[1]
        /\ \A i \in 1..Len(tl) : tl[i] \in Tasks /\ tl[i] # NULL
    BY <1>0, ListedEntries
  <1>5. \A i \in 1..Len(tl) : Behind(tl, i)' <=> Behind(tl, i)
    <2>1. CASE TimerCall
      <3>1. ~walking /\ walking' /\ firing' = firing /\ next' = timeoutList
        BY <2>1 DEF TimerCall
      <3>2. Len(tl) # 0 => 1 \in 1..Len(tl) /\ next' = tl[1]
        BY <1>4, <3>1
      <3> QED
        BY <1>2, <1>4, <3>1, <3>2 DEF Behind
    <2>2. CASE TimerDone
      <3>1. walking /\ ~walking' /\ firing' = firing - 1 /\ next = NULL
        BY <2>2 DEF TimerDone
      <3>2. firing' = 0
        BY <1>2, <3>1
      <3> QED
        BY <1>4, <3>1, <3>2 DEF Behind
    <2> QED
      BY <2>1, <2>2
  <1>6. \A u \in Tasks : pc[u] = "suspended" => waited'[u] = waited[u]
    BY <1>0, <1>2, WaitedTypes
  <1>7. Counting(tl)'
    BY <1>1, <1>4, <1>5, <1>6 DEF Counting
  <1> QED
    BY <1>3, <1>7 DEF TimeStep

\* Where the walk goes next, and which entries are behind.
LEMMA WalkMoves ==
    ASSUME TimeIInv, NEW tl \in Seq(Tasks), Listed(tl), NEW e \in Tasks, Visits(e)
    PROVE  \E k \in 1..Len(tl) :
             /\ tl[k] = e /\ firing # 0 /\ firing' = firing /\ walking /\ walking'
             /\ next' = IF k = Len(tl) THEN NULL ELSE tl[k + 1]
             /\ \A i \in 1..Len(tl) : Behind(tl, i) <=> k <= i
             /\ Len(tl) \in Nat /\ \A i, j \in 1..Len(tl) : tl[i] = tl[j] => i = j
             /\ \A i \in 1..Len(tl) : tl[i] \in Tasks /\ tl[i] # NULL
  <1>0. IInv /\ CursorInv /\ waited \in [Tasks -> Nat] /\ NULL \notin Tasks
    BY NamesAssumption DEF TimeIInv, ListIInv
  <1>1. walking /\ walking' = walking /\ firing' = firing /\ next = e /\ next' = tnext[e]
    BY DEF Visits
  <1>2. firing # 0
    BY <1>0, <1>1 DEF IInv, TypeInv
  <1>3. PICK k \in 1..Len(tl) : tl[k] = e
    BY <1>0, <1>1 DEF CursorInv, Listed, Elements
  <1>4. /\ Len(tl) \in Nat /\ \A i, j \in 1..Len(tl) : tl[i] = tl[j] => i = j
        /\ \A i \in 1..Len(tl) : /\ tl[i] \in Tasks /\ tl[i] # NULL
                                 /\ tnext[tl[i]] = IF i = Len(tl) THEN NULL ELSE tl[i + 1]
    BY <1>0, ListedEntries
  <1>5. \A i \in 1..Len(tl) : Behind(tl, i) <=> k <= i
    BY <1>1, <1>2, <1>3, <1>4 DEF Behind
  <1> QED
    BY <1>1, <1>2, <1>3, <1>4, <1>5

\* An entry whose time is not up, or that was handed the semaphore, is counted
\* a tick and stays on the list.
LEMMA VisitCounts ==
    ASSUME TimeIInv, TimeNext, NEW tl \in Seq(Tasks), Listed(tl), Counting(tl),
           NEW e \in Tasks, CountDown(e) \/ TooLate(e)
    PROVE  TimeStep
  <1>0. /\ IInv /\ waited \in [Tasks -> Nat] /\ remaining \in [Tasks -> Nat] /\ timeout \in [Tasks -> Int]
    BY DEF TimeIInv, ListIInv, IInv, TypeInv, TypeOK
  <1>1. /\ Visits(e) /\ UNCHANGED <<pc, timeout, timeoutList, tnext, tprev>>
        /\ remaining' = [remaining EXCEPT ![e] = IF @ > 0 THEN @ - 1 ELSE 0]
        /\ pc[e] = "suspended" => remaining[e] > 1
    BY DEF CountDown, TooLate, Visits
  <1>2. PICK k \in 1..Len(tl) :
             /\ tl[k] = e /\ firing # 0 /\ firing' = firing /\ walking /\ walking'
             /\ next' = IF k = Len(tl) THEN NULL ELSE tl[k + 1]
             /\ \A i \in 1..Len(tl) : Behind(tl, i) <=> k <= i
             /\ Len(tl) \in Nat /\ \A i, j \in 1..Len(tl) : tl[i] = tl[j] => i = j
             /\ \A i \in 1..Len(tl) : tl[i] \in Tasks /\ tl[i] # NULL
    BY <1>1, WalkMoves
  <1>3. Listed(tl)'
    BY <1>1, ListStays DEF Timed
  <1>4. \A i \in 1..Len(tl) : Behind(tl, i)' <=> k + 1 <= i
    <2>1. CASE k = Len(tl)
      BY <1>2, <2>1 DEF Behind
    <2>2. CASE k # Len(tl)
      <3>1. k + 1 \in 1..Len(tl) /\ next' = tl[k + 1]
        BY <1>2, <2>2
      <3> QED
        BY <1>2, <3>1 DEF Behind
    <2> QED
      BY <2>1, <2>2
  <1>5. \A u \in Tasks : pc[u] = "suspended" => waited'[u] = waited[u]
    BY <1>0, <1>2, WaitedTypes
  <1>6. Counting(tl)'
    <2> SUFFICES ASSUME NEW i \in 1..Len(tl), pc[tl[i]] = "suspended"
                 PROVE  IF Behind(tl, i)'
                        THEN /\ remaining'[tl[i]] + waited'[tl[i]] = timeout'[tl[i]] + 1
                             /\ 1 <= waited'[tl[i]] /\ waited'[tl[i]] <= timeout'[tl[i]]
                        ELSE /\ remaining'[tl[i]] + waited'[tl[i]] = timeout'[tl[i]]
                             /\ waited'[tl[i]] < timeout'[tl[i]]
      BY <1>1 DEF Counting
    <2>1. waited'[tl[i]] = waited[tl[i]] /\ timeout'[tl[i]] = timeout[tl[i]] /\ tl[i] \in Tasks
      BY <1>1, <1>2, <1>5
    <2>2. IF Behind(tl, i)
          THEN /\ remaining[tl[i]] + waited[tl[i]] = timeout[tl[i]] + 1
               /\ 1 <= waited[tl[i]] /\ waited[tl[i]] <= timeout[tl[i]]
          ELSE remaining[tl[i]] + waited[tl[i]] = timeout[tl[i]] /\ waited[tl[i]] < timeout[tl[i]]
      BY DEF Counting
    <2>3. CASE i = k
      <3>1. Behind(tl, i) /\ ~Behind(tl, i)'
        BY <1>2, <1>4, <2>3
      <3>2. PICK r \in Nat, w \in Nat, n \in Int : r = remaining[e] /\ w = waited[e] /\ n = timeout[e]
        BY <1>0
      <3>a. tl[i] = e /\ pc[e] = "suspended"
        BY <1>2, <2>3
      <3>b. remaining'[e] = IF r > 0 THEN r - 1 ELSE 0
        BY <1>0, <1>1, <3>2
      <3>c. r > 1 /\ r + w = n + 1
        BY <1>1, <2>2, <3>1, <3>2, <3>a
      <3>3. r > 1 /\ r + w = n + 1 /\ remaining'[e] = r - 1
        BY <3>b, <3>c
      <3>4. (r - 1) + w = n /\ w < n
        BY <3>3
      <3> QED
        BY <1>2, <2>1, <2>3, <3>1, <3>2, <3>3, <3>4
    <2>4. CASE i # k
      <3>a. tl[i] # e
        BY <1>2, <2>4
      <3>b. remaining'[tl[i]] = remaining[tl[i]]
        BY <1>0, <1>1, <2>1, <3>a
      <3>c. k + 1 <= i <=> k <= i
        BY <2>4
      <3>1. Behind(tl, i)' <=> Behind(tl, i)
        BY <1>2, <1>4, <3>c
      <3> QED
        BY <2>1, <2>2, <3>b, <3>1
    <2> QED
      BY <2>3, <2>4
  <1> QED
    BY <1>3, <1>6 DEF TimeStep

\* An entry whose time is up leaves the list: it has lasted its timeout.
LEMMA TimeOutCounts ==
    ASSUME TimeIInv, TimeNext, NEW tl \in Seq(Tasks), Listed(tl), Counting(tl),
           NEW e \in Tasks, TimeOut(e)
    PROVE  TimeStep /\ waited[e] = timeout[e]
  <1>0. /\ IInv /\ TypeInv /\ CursorInv
        /\ waited \in [Tasks -> Nat] /\ remaining \in [Tasks -> Nat] /\ timeout \in [Tasks -> Int]
        /\ pc \in [Tasks -> {"out", "starting", "suspended", "SEM_AQUIRED", "SEM_TIMEOUT"}]
    BY DEF TimeIInv, ListIInv, IInv, TypeInv, TypeOK
  <1>1. /\ Visits(e) /\ UNCHANGED timeout /\ pc' = [pc EXCEPT ![e] = "SEM_TIMEOUT"]
        /\ remaining' = [remaining EXCEPT ![e] = IF @ > 0 THEN @ - 1 ELSE 0]
        /\ pc[e] = "suspended" /\ remaining[e] <= 1
    BY DEF TimeOut, Visits, GoTo
  <1>2. PICK k \in 1..Len(tl) :
             /\ tl[k] = e /\ firing # 0 /\ firing' = firing /\ walking /\ walking'
             /\ next' = IF k = Len(tl) THEN NULL ELSE tl[k + 1]
             /\ \A i \in 1..Len(tl) : Behind(tl, i) <=> k <= i
             /\ Len(tl) \in Nat /\ \A i, j \in 1..Len(tl) : tl[i] = tl[j] => i = j
             /\ \A i \in 1..Len(tl) : tl[i] \in Tasks /\ tl[i] # NULL
    BY <1>1, WalkMoves
  <1>3. Without(tl, k) \in Seq(Tasks) /\ Listed(Without(tl, k))'
    <2>1. PICK j \in 1..Len(tl) : tl[j] = e /\ Without(tl, j) \in Seq(Tasks) /\ Listed(Without(tl, j))'
      BY <1>0, OverListed
    <2> QED
      BY <1>2, <2>1
  <1>4. PICK l \in Seq(Tasks) :
            /\ l = Without(tl, k) /\ Len(l) = Len(tl) - 1
            /\ \A i \in 1..(Len(tl) - 1) : l[i] = IF i < k THEN tl[i] ELSE tl[i + 1]
    BY <1>2, WithoutElements
  <1>5. \A u \in Tasks : pc[u] = "suspended" => waited'[u] = waited[u]
    BY <1>0, <1>2, WaitedTypes
  <1>6. ASSUME NEW i \in 1..Len(l)
        PROVE  \E j \in 1..Len(tl) : j # k /\ l[i] = tl[j] /\ (Behind(l, i)' <=> Behind(tl, j))
    <2>0. i \in 1..(Len(tl) - 1) /\ i \in 1..Len(tl)
      BY <1>2, <1>4
    <2>1. CASE i < k
      <3>1. l[i] = tl[i] /\ ~Behind(tl, i) /\ i # k
        BY <1>2, <1>4, <2>0, <2>1
      <3>2. ~Behind(l, i)'
        <4> SUFFICES ASSUME NEW j \in 1..Len(l), l[j] = next', j <= i PROVE FALSE
          BY <1>2 DEF Behind
        <4>0. /\ Len(l) = Len(tl) - 1 /\ Len(tl) \in Nat /\ k \in 1..Len(tl) /\ i \in 1..Len(tl) /\ i < k
              /\ j \in 1..Len(l) /\ j <= i
          BY <1>2, <1>4, <2>0, <2>1
        <4>1. /\ j \in 1..(Len(tl) - 1) /\ j < k /\ j \in 1..Len(tl)
              /\ k # Len(tl) => k + 1 \in 1..Len(tl) /\ j # k + 1
          BY <4>0
        <4>2. l[j] = tl[j]
          BY <1>4, <4>1
        <4> QED
          BY <1>2, <4>1, <4>2
      <3> QED
        BY <2>0, <3>1, <3>2
    <2>2. CASE ~(i < k)
      <3>1. i + 1 \in 1..Len(tl) /\ i + 1 # k /\ k <= i + 1 /\ k # Len(tl) /\ k <= i /\ k \in 1..(Len(tl) - 1)
        BY <1>2, <2>0, <2>2
      <3>2. l[i] = tl[i + 1] /\ Behind(tl, i + 1) /\ l[k] = tl[k + 1]
        BY <1>2, <1>4, <2>0, <2>2, <3>1
      <3>3. Behind(l, i)'
        BY <1>2, <1>4, <3>1, <3>2 DEF Behind
      <3> QED
        BY <3>1, <3>2, <3>3
    <2> QED
      BY <2>1, <2>2
  <1>7. Counting(l)'
    <2> SUFFICES ASSUME NEW i \in 1..Len(l), pc'[l[i]] = "suspended"
                 PROVE  IF Behind(l, i)'
                        THEN /\ remaining'[l[i]] + waited'[l[i]] = timeout'[l[i]] + 1
                             /\ 1 <= waited'[l[i]] /\ waited'[l[i]] <= timeout'[l[i]]
                        ELSE /\ remaining'[l[i]] + waited'[l[i]] = timeout'[l[i]]
                             /\ waited'[l[i]] < timeout'[l[i]]
      BY DEF Counting
    <2>1. PICK j \in 1..Len(tl) : j # k /\ l[i] = tl[j] /\ (Behind(l, i)' <=> Behind(tl, j))
      BY <1>6
    <2>2. /\ pc[tl[j]] = "suspended" /\ remaining'[tl[j]] = remaining[tl[j]]
          /\ waited'[tl[j]] = waited[tl[j]] /\ timeout'[tl[j]] = timeout[tl[j]]
      BY <1>0, <1>1, <1>2, <1>5, <2>1
    <2> QED
      BY <2>1, <2>2 DEF Counting
  <1>8. waited[e] = timeout[e]
    <2>1. PICK r \in Nat, w \in Nat, n \in Int : r = remaining[e] /\ w = waited[e] /\ n = timeout[e]
      BY <1>0
    <2>2. r <= 1 /\ r + w = n + 1 /\ w <= n
      BY <1>1, <1>2, <2>1 DEF Counting
    <2> QED
      BY <2>1, <2>2
  <1> QED
    BY <1>3, <1>4, <1>7, <1>8 DEF TimeStep

\* How long a wait has lasted is inductive together with the list and with there
\* being one timer; a wait that times out has lasted its timeout.
LEMMA TimeINext ==
    ASSUME TimeIInv, [TimeNext]_timeHistory
    PROVE  /\ TimeIInv'
           /\ \A t \in Tasks : (pc[t] = "suspended" /\ pc'[t] = "SEM_TIMEOUT") => waited[t] = timeout[t]
  <1>0. /\ IInv /\ OneTimer /\ waited \in [Tasks -> Nat]
        /\ pc \in [Tasks -> {"out", "starting", "suspended", "SEM_AQUIRED", "SEM_TIMEOUT"}]
    BY DEF TimeIInv, ListIInv, IInv, TypeInv, TypeOK
  <1>1. PICK tl \in Seq(Tasks) : Listed(tl) /\ Counting(tl)
    BY DEF TimeIInv
  <1>2. CASE TimeNext
    <2>1. Next
      BY <1>2 DEF TimeNext
    <2>2. ASSUME NEW e \in Tasks, TimeOut(e) PROVE TimeStep
      BY <1>1, <1>2, <2>2, TimeOutCounts
    <2>3. ASSUME NEW t \in Tasks, TaskStep(t) PROVE TimeStep
      BY <1>1, <1>2, <2>3, WaitCounts
    <2>4. ASSUME NEW e \in Tasks, CountDown(e) \/ TooLate(e) PROVE TimeStep
      BY <1>1, <1>2, <2>4, VisitCounts
    <2>5. TimeStep
      BY <1>1, <1>2, <2>1, <2>2, <2>3, <2>4, StrikeCounts, TurnCounts DEF Next, Clock
    <2>6. ListIInv' /\ OneTimer' /\ waited' \in [Tasks -> Nat]
      BY <1>0, <1>2, <2>1, ListINext, OneTimerNext, WaitedTypes DEF TimeIInv
    <2>7. ASSUME NEW t \in Tasks, pc[t] = "suspended", pc'[t] = "SEM_TIMEOUT"
          PROVE  waited[t] = timeout[t]
      <3>1. ASSUME NEW e \in Tasks, TimeOut(e) PROVE waited[t] = timeout[t]
        <4>1. pc' = [pc EXCEPT ![e] = "SEM_TIMEOUT"]
          BY <3>1 DEF TimeOut, GoTo
        <4>2. t = e
          BY <1>0, <2>7, <4>1
        <4> QED
          BY <1>1, <1>2, <3>1, <4>2, TimeOutCounts
      <3>2. ASSUME NEW u \in Tasks, TaskStep(u) PROVE FALSE
        <4>1. ASSUME NEW s \in Sems, Put(u, s) \/ Signal(u, s) PROVE FALSE
          <5>1. \/ pc' = pc
                \/ \E e \in Tasks : pc' = [pc EXCEPT ![e] = "SEM_AQUIRED"]
            BY <1>0, <4>1, PutOwner DEF Put, Signal
          <5> QED
            BY <1>0, <2>7, <5>1
        <4>2. CASE \/ StartTimer(u) \/ RunTimer(u) \/ Aquired(u) \/ TimedOut(u)
                   \/ \E s \in Sems : \/ initSemaphore(u, s) \/ getSemaphore(u, s)
                                      \/ \E n \in Timeouts \cup {NOTIMEOUT} : Wait(u, s, n)
          <5>1. pc' = pc \/ \E p \in {"out", "starting", "suspended"} : pc' = [pc EXCEPT ![u] = p]
            BY <4>2 DEF StartTimer, RunTimer, Aquired, TimedOut, initSemaphore, getSemaphore, Wait,
               Return, GoTo, taskVars
          <5> QED
            BY <1>0, <2>7, <5>1
        <4> QED
          BY <3>2, <4>1, <4>2 DEF TaskStep
      <3>3. ~(clockTick \/ TimerCall \/ TimerDone \/ \E e \in Tasks : CountDown(e) \/ TooLate(e))
        BY <2>7 DEF clockTick, TimerCall, TimerDone, CountDown, TooLate, taskVars
      <3> QED
        BY <2>1, <3>1, <3>2, <3>3 DEF Next, Clock
    <2> QED
      BY <2>5, <2>6, <2>7 DEF TimeIInv, TimeStep
  <1>3. CASE UNCHANGED timeHistory
    <2>1. UNCHANGED vars /\ UNCHANGED waited
      BY <1>3 DEF timeHistory
    <2>2. UNCHANGED <<timers, timerRunning, firing, walking, next, pc, remaining, timeout, timeoutList, tnext, tprev>>
      BY <2>1 DEF vars, timeVars, timerVars, tickVars, taskVars
    <2>3. ListIInv' /\ OneTimer'
      BY <1>0, <2>1, ListINext, OneTimerNext DEF TimeIInv
    <2>4. Listed(tl)' /\ Counting(tl)'
      BY <1>1, <2>1, <2>2 DEF Listed, Timed, IsList, Forward, Backward, Counting, Behind
    <2> QED
      BY <1>0, <2>1, <2>2, <2>3, <2>4 DEF TimeIInv
  <1> QED
    BY <1>2, <1>3

\* Between ticks no wait has reached its timeout.
LEMMA TimeISound == TimeIInv => NoOverstay
  <1> SUFFICES ASSUME TimeIInv, firing = 0, NEW t \in Tasks, pc[t] = "suspended", timeout[t] > 0
               PROVE  waited[t] < timeout[t]
    BY DEF NoOverstay
  <1>1. PICK tl \in Seq(Tasks) : Listed(tl) /\ Counting(tl)
    BY DEF TimeIInv
  <1>2. PICK i \in 1..Len(tl) : t = tl[i]
    BY <1>1 DEF Listed, Timed, Elements
  <1> QED
    BY <1>1, <1>2 DEF Counting, Behind

\* No wait has begun in the beginning.
LEMMA TimeIInit == TimeInit /\ ~StartRace => TimeIInv
  <1> SUFFICES ASSUME TimeInit, ~StartRace PROVE TimeIInv
    OBVIOUS
  <1>1. ListIInv
    BY ListIInit DEF TimeInit
  <1>2. OneTimer
    BY DEF TimeInit, Init, OneTimer
  <1>3. PICK tl \in Seq(Tasks) : Listed(tl)
    BY <1>1 DEF ListIInv
  <1>4. Timed = {}
    BY DEF TimeInit, Init, Timed
  <1>5. Counting(tl)
    BY <1>3, <1>4 DEF Counting, Listed, Elements
  <1> QED
    BY <1>1, <1>2, <1>3, <1>5 DEF TimeIInv, TimeInit

\* With one timer a wait times out on the very tick it was called with, however
\* many waits there are and whichever end meanwhile.
THEOREM TimeoutsKept == TimeSpec /\ ~StartRace => TimeoutExact
  BY TimeIInit, TimeINext, TimeISound, PTL DEF TimeSpec, TimeoutExact

=============================================================================
