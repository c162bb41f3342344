---------------------------- MODULE TimerProofs -----------------------------
(***************************************************************************)
(* Proofs about Timer, for every set of timers, delays and periods and for *)
(* every width of the counter.                                             *)
(***************************************************************************)
EXTENDS Timer, LinkedLists, TLAPS

\* The sum of two counters stays in the counter, and wraps at most once.
LEMMA SumWraps ==
    ASSUME NEW m \in 0..(Wrap - 1), NEW c \in 0..(Wrap - 1)
    PROVE  LET s == (c + m + 1) % Wrap
           IN  /\ s \in 0..(Wrap - 1)
               /\ s = c + m + 1 - (IF s <= c THEN Wrap ELSE 0)
  <1>1. Wrap \in Nat \ {0}
    BY TimerAssumption
  <1> DEFINE x == c + m + 1
  <1>2. CASE x < Wrap
    <2>1. x % Wrap = x
      BY <1>1, <1>2
    <2> QED
      BY <1>1, <1>2, <2>1
  <1>3. CASE x >= Wrap
    <2>1. x - Wrap \in 0..(Wrap - 1)
      BY <1>1, <1>3
    <2>2. x % Wrap = x - Wrap
      BY <1>1, <2>1, SMTT(60)
    <2> QED
      BY <1>1, <1>3, <2>1, <2>2
  <1> QED
    BY <1>1, <1>2, <1>3

-----------------------------------------------------------------------------
(* Type correctness *)

\* Every variable keeps its type in a step.
LEMMA TypeStep == TypeOK /\ [Next]_vars => TypeOK'
  <1> SUFFICES ASSUME TypeOK, [Next]_vars PROVE TypeOK'
    OBVIOUS
  <1> USE DEF TypeOK, Ptr, list, starts, states, tick, clock
  <1>1. ASSUME clockTick PROVE TypeOK'
    <2>1. Sum \in 0..(Wrap - 1)
      BY SumWraps DEF Sum
    <2>2. age' \in [Timers -> Nat]
      BY <1>1 DEF clockTick
    <2>3. owed' \in Int
      BY <1>1, TimerAssumption DEF clockTick
    <2> QED
      BY <1>1, <2>1, <2>2, <2>3 DEF clockTick
  <1>2. ASSUME TickDone PROVE TypeOK'
    BY <1>2 DEF TickDone
  <1>3. ASSUME removeTimer PROVE TypeOK'
    BY <1>3 DEF removeTimer
  <1>4. ASSUME NEW p \in Periods, installTimer(p) PROVE TypeOK'
    BY <1>4, TimerAssumption DEF installTimer
  <1>5. ASSUME NEW t \in Timers, newTimer(t) PROVE TypeOK'
    BY <1>5 DEF newTimer
  <1>6. ASSUME NEW t \in Timers, stopTimer(t) PROVE TypeOK'
    BY <1>6 DEF stopTimer, Stopped
  <1>7. ASSUME NEW t \in Timers, deleteTimer(t) PROVE TypeOK'
    BY <1>7 DEF deleteTimer, Stopped
  <1>8. ASSUME NEW t \in Timers, Unlink(t) PROVE TypeOK'
    <2>1. timerList' \in Ptr /\ next' \in [Timers -> Ptr]
      BY <1>8 DEF Unlink, Unlinked
    <2> QED
      BY <1>8, <2>1 DEF Unlink
  <1>9. ASSUME NEW t \in Timers, Skip(t) PROVE TypeOK'
    BY <1>9 DEF Skip
  <1>10. ASSUME NEW t \in Timers, CountDown(t) PROVE TypeOK'
    BY <1>10 DEF CountDown
  <1>11. ASSUME NEW t \in Timers, Fire(t) PROVE TypeOK'
    BY <1>11 DEF Fire
  <1>12. ASSUME NEW t \in Timers, FunctionDone(t) PROVE TypeOK'
    BY <1>12 DEF FunctionDone
  <1>13. ASSUME NEW t \in Timers, NEW d \in Delays, startTimer(t, d) PROVE TypeOK'
    <2>1. d \in Nat
      BY TimerAssumption
    <2> QED
      BY <1>13, <2>1 DEF startTimer
  <1>14. ASSUME UNCHANGED vars PROVE TypeOK'
    BY <1>14 DEF vars
  <1> QED
    BY <1>1, <1>2, <1>3, <1>4, <1>5, <1>6, <1>7, <1>8, <1>9, <1>10, <1>11, <1>12, <1>13, <1>14 DEF Next

\* They have their types at first.
LEMMA TypeInit == Init => TypeOK
  <1> SUFFICES ASSUME Init PROVE TypeOK
    OBVIOUS
  <1>1. timerMax \in 0..(Wrap - 1) /\ timerCount \in 0..(Wrap - 1) /\ owed \in Int
    BY TimerAssumption DEF Init
  <1>2. /\ status \in [Timers -> {"DONE", "ACTIVE"}] /\ count \in [Timers -> Int]
        /\ asked \in [Timers -> Nat] /\ age \in [Timers -> Nat]
    BY DEF Init
  <1> QED
    BY <1>1, <1>2 DEF Init, TypeOK, Ptr

\* The timers' states and the 16-bit counter keep their types.
THEOREM TypeCorrect == Spec => []TypeOK
  BY TypeInit, TypeStep, PTL DEF Spec

-----------------------------------------------------------------------------
(* The BIOS clock *)

\* In a step only a tick and the first installTimer() touch the counter.
LEMMA ShareStep == TypeOK /\ BiosShare /\ [Next]_vars => BiosShare'
  <1> SUFFICES ASSUME TypeOK, BiosShare, [Next]_vars PROVE BiosShare'
    OBVIOUS
  <1>1. ASSUME clockTick PROVE BiosShare'
    <2>1. Sum = timerCount + timerMax + 1 - (IF Sum <= timerCount THEN Wrap ELSE 0)
      BY SumWraps DEF Sum, TypeOK
    <2>2. owed' = owed + timerMax + 1 - (IF Chains THEN Wrap ELSE 0) /\ timerCount' = Sum
      BY <1>1 DEF clockTick
    <2> QED
      BY <2>1, <2>2 DEF Chains, BiosShare
  <1>2. ASSUME NEW p \in Periods, installTimer(p) PROVE BiosShare'
    BY <1>2 DEF installTimer, BiosShare
  <1>3. ASSUME UNCHANGED <<timerCount, owed>> PROVE BiosShare'
    BY <1>3 DEF BiosShare
  <1>4. CASE clockTick \/ \E p \in Periods : installTimer(p)
    BY <1>1, <1>2, <1>4
  <1>5. CASE TickDone \/ removeTimer \/ UNCHANGED vars
    BY <1>3, <1>5 DEF TickDone, removeTimer, vars, clock
  <1>6. ASSUME NEW t \in Timers,
               \/ newTimer(t) \/ stopTimer(t) \/ deleteTimer(t) \/ Unlink(t)
               \/ Skip(t) \/ CountDown(t) \/ Fire(t) \/ FunctionDone(t)
               \/ \E d \in Delays : startTimer(t, d)
        PROVE  BiosShare'
    BY <1>3, <1>6 DEF newTimer, stopTimer, deleteTimer, Unlink, Skip, CountDown, Fire,
                      FunctionDone, startTimer, clock
  <1> QED
    BY <1>4, <1>5, <1>6 DEF Next

\* Whatever periods are set on the way, the BIOS is told of each of its ticks
\* on the tick it falls in.
THEOREM BiosExact == Spec => []BiosShare
  <1>1. Init => BiosShare
    BY DEF Init, BiosShare
  <1> QED
    BY <1>1, TypeCorrect, ShareStep, PTL DEF Spec

-----------------------------------------------------------------------------
(* The list and the walk *)

\* l is the list of the timers that exist.
Listed(l) == Forward(l, timerList, next, NULL) /\ Elements(l) = allocated

\* The timers that the tick has yet to reach
Pending == IF ~inTick THEN {} ELSE From(IF called = NULL THEN walk ELSE next[called])

\* Where the tick stands
WalkInv ==
    /\ walk \in allocated \cup {NULL}
    /\ ~inTick => walk = NULL /\ called = NULL
    /\ called # NULL => called = walk

\* A timer has counted the ticks since it was started, but for the one that is
\* on its way to it.
Counted(t) ==
    IF t \in Pending THEN count[t] + age[t] = asked[t] + 1 /\ 1 <= age[t] /\ age[t] <= Due(t)
                     ELSE count[t] + age[t] = asked[t] /\ age[t] < Due(t)

Clocked ==
    /\ armed \subseteq allocated \ deleting
    /\ \A t \in Timers : status[t] = "ACTIVE" <=> t \in armed
    /\ \A t \in armed : Counted(t)

Chained == \E l \in Seq(Timers) : Listed(l)

IInv == TypeOK /\ Chained /\ WalkInv /\ Clocked

\* The timers that a walk along the links from t meets
Met(links, t) ==
    LET w[i \in 0..Cardinality(Timers)] ==
          IF i = 0 THEN t ELSE IF w[i-1] = NULL THEN NULL ELSE links[w[i-1]]
    IN  {w[i] : i \in DOMAIN w} \ {NULL}

\* They are the entries of the list that begins at t.
LEMMA MetEntries ==
    ASSUME NEW t, NEW links, NEW l \in Seq(Timers), Forward(l, t, links, NULL)
    PROVE  Met(links, t) = Elements(l)
  <1> DEFINE N == Cardinality(Timers)
             f == [i \in 0..N |-> IF i < Len(l) THEN l[i + 1] ELSE NULL]
  <1>0. NULL \notin Timers /\ IsFiniteSet(Timers)
    BY TimerAssumption
  <1>1. Len(l) <= N /\ N \in Nat
    BY <1>0, FewElements DEF Forward
  <1> HIDE DEF N
  <1>a. Len(l) \in Nat /\ \A i \in 1..Len(l) : l[i] # NULL
    BY <1>0, LenProperties
  <1>2. (CHOOSE w : w = [i \in 0..N |-> IF i = 0 THEN t
                                        ELSE IF w[i-1] = NULL THEN NULL ELSE links[w[i-1]]]) = f
    BY <1>0, <1>1, OneWalk
  <1>3. {f[i] : i \in DOMAIN f} \ {NULL} = Elements(l)
    <2>1. PICK g : g = f
      OBVIOUS
    <2>2. DOMAIN g = 0..N /\ \A i \in 0..N : g[i] = IF i < Len(l) THEN l[i + 1] ELSE NULL
      BY <2>1
    <2> HIDE DEF f
    <2>3. ASSUME NEW i \in 0..N, g[i] # NULL PROVE g[i] \in Elements(l)
      <3>1. i + 1 \in 1..Len(l) /\ g[i] = l[i + 1]
        BY <1>1, <1>a, <2>2, <2>3
      <3> QED
        BY <3>1 DEF Elements
    <2>4. ASSUME NEW j \in 1..Len(l) PROVE l[j] \in {g[i] : i \in 0..N} \ {NULL}
      <3>1. j - 1 \in 0..N /\ j - 1 < Len(l) /\ j - 1 + 1 = j
        BY <1>1, <1>a
      <3>2. g[j - 1] = l[j]
        BY <2>2, <3>1
      <3> QED
        BY <1>a, <3>1, <3>2
    <2>5. {g[i] : i \in 0..N} \ {NULL} = Elements(l)
      BY <2>3, <2>4 DEF Elements
    <2> QED
      BY <2>1, <2>2, <2>5
  <1> HIDE DEF f
  <1> QED
    BY <1>2, <1>3 DEF Met, N

\* From an entry's next one, they are the entries behind it.
LEMMA MetRest ==
    ASSUME NEW head, NEW links, NEW l \in Seq(Timers), Forward(l, head, links, NULL),
           NEW k \in 1..Len(l), NEW t, t = links[l[k]]
    PROVE  Met(links, t) = {l[i] : i \in (k + 1)..Len(l)}
  <1> DEFINE r == RestOf(l, k)
             n == Len(l) - k
  <1>1. /\ r \in Seq(Timers) /\ Forward(r, t, links, NULL)
        /\ Len(r) = n /\ \A i \in 1..n : r[i] = l[k + i]
    <2>1. /\ r \in Seq(Timers) /\ Len(r) = Len(l) - k
          /\ \A i \in 1..(Len(l) - k) : r[i] = l[k + i]
      BY RestEntries
    <2>2. Forward(r, links[l[k]], links, NULL)
      BY RestForward
    <2> QED
      BY <2>1, <2>2
  <1>2. n \in Nat /\ Len(l) = k + n /\ k \in Nat
    <2>1. Len(l) \in Nat
      OBVIOUS
    <2> QED
      BY <2>1, SMTT(30)
  <1> HIDE DEF r, n
  <1>3. Met(links, t) = {r[i] : i \in 1..n}
    BY <1>1, MetEntries DEF Elements
  <1>4. \A i \in 1..n : k + i \in (k + 1)..(k + n)
    BY <1>2
  <1>5. \A i \in (k + 1)..(k + n) : i - k \in 1..n /\ k + (i - k) = i
    BY <1>2
  <1>6. ASSUME NEW i \in (k + 1)..(k + n) PROVE l[i] \in {r[j] : j \in 1..n}
    <2>1. r[i - k] = l[i]
      BY <1>1, <1>5
    <2> QED
      BY <1>5, <2>1
  <1>7. {r[i] : i \in 1..n} = {l[i] : i \in (k + 1)..(k + n)}
    <2>1. \A i \in 1..n : r[i] \in {l[j] : j \in (k + 1)..(k + n)}
      BY <1>1, <1>4
    <2> QED
      BY <1>6, <2>1
  <1> QED
    BY <1>2, <1>3, <1>7

\* What the walk along the list meets.
LEMMA FromChain ==
    ASSUME Chained
    PROVE  /\ From(NULL) = {} /\ From(timerList) = allocated
           /\ timerList \in allocated \cup {NULL}
           /\ \A t \in allocated : /\ next[t] \in allocated \cup {NULL}
                                   /\ From(t) = From(next[t]) \cup {t}
                                   /\ t \notin From(next[t])
                                   /\ From(next[t]) \subseteq allocated
           /\ \A t, u \in allocated : next[t] = next[u] /\ next[t] # NULL => t = u
  <1>1. PICK l \in Seq(Timers) : Listed(l)
    BY DEF Chained
  <1>2. /\ Len(l) \in Nat /\ \A i \in 1..Len(l) : l[i] \in Timers /\ l[i] # NULL
        /\ Elements(l) = allocated
        /\ \A i, j \in 1..Len(l) : l[i] = l[j] => i = j
        /\ timerList = IF Len(l) = 0 THEN NULL ELSE l[1]
        /\ \A i \in 1..Len(l) : next[l[i]] = IF i = Len(l) THEN NULL ELSE l[i + 1]
    BY <1>1, LenProperties, TimerAssumption DEF Listed, Forward
  <1>3. From(NULL) = {}
    <2> DEFINE nx == next
    <2>1. <<>> \in Seq(Timers) /\ Forward(<<>>, NULL, nx, NULL) /\ Elements(<<>>) = {}
      BY EmptySeq DEF Forward, Elements
    <2> HIDE DEF nx
    <2>2. Met(nx, NULL) = {}
      BY <2>1, MetEntries
    <2> QED
      BY <2>2 DEF From, Met, nx
  <1>4. From(timerList) = allocated
    <2> DEFINE hd == timerList
               nx == next
    <2>1. Forward(l, hd, nx, NULL)
      BY <1>1 DEF Listed
    <2> HIDE DEF hd, nx
    <2>2. Met(nx, hd) = Elements(l)
      BY <2>1, MetEntries
    <2>3. Met(nx, hd) = allocated
      BY <1>2, <2>2
    <2> QED
      BY <2>3 DEF From, Met, hd, nx
  <1>5. timerList \in allocated \cup {NULL}
    <2>1. Len(l) # 0 => 1 \in 1..Len(l)
      BY <1>2
    <2> QED
      BY <1>2, <2>1 DEF Elements
  <1>6. ASSUME NEW k \in 1..Len(l)
        PROVE  /\ next[l[k]] \in allocated \cup {NULL}
               /\ \A u : u \in From(next[l[k]]) <=> \E i \in 1..Len(l) : k < i /\ u = l[i]
    <2> DEFINE hd == timerList
               nx == next
    <2>1. Forward(l, hd, nx, NULL)
      BY <1>1 DEF Listed
    <2> HIDE DEF hd, nx
    <2>2. PICK t : t = nx[l[k]]
      OBVIOUS
    <2>3. Met(nx, t) = {l[i] : i \in (k + 1)..Len(l)}
      BY <2>1, <2>2, MetRest
    <2>4. From(t) = {l[i] : i \in (k + 1)..Len(l)}
      BY <2>3 DEF From, Met, nx
    <2>6. t = next[l[k]]
      BY <2>2 DEF nx
    <2>7. From(next[l[k]]) = {l[i] : i \in (k + 1)..Len(l)}
      BY <2>4, <2>6
    <2>8. \A i \in 1..Len(l) : k < i <=> i \in (k + 1)..Len(l)
      BY <1>2
    <2>9. \A i \in (k + 1)..Len(l) : i \in 1..Len(l)
      BY <1>2
    <2>5. k # Len(l) => k + 1 \in 1..Len(l)
      BY <1>2
    <2> QED
      BY <1>2, <2>5, <2>7, <2>8, <2>9 DEF Elements
  <1>7. ASSUME NEW k \in 1..Len(l)
        PROVE  \A u : u \in From(l[k]) <=> \E i \in 1..Len(l) : k <= i /\ u = l[i]
    <2>1. CASE k = 1
      <3>1. From(l[k]) = allocated
        BY <1>2, <1>4, <2>1
      <3>2. \A i \in 1..Len(l) : k <= i
        BY <1>2, <2>1
      <3> QED
        BY <1>2, <3>1, <3>2 DEF Elements
    <2>2. CASE k # 1
      <3>1. /\ k - 1 \in 1..Len(l) /\ k - 1 # Len(l) /\ k - 1 + 1 = k
            /\ \A i \in 1..Len(l) : k - 1 < i <=> k <= i
        BY <1>2, <2>2
      <3>2. PICK m \in 1..Len(l) : next[l[m]] = l[k] /\ \A i \in 1..Len(l) : m < i <=> k <= i
        BY <1>2, <3>1
      <3>3. \A u : u \in From(next[l[m]]) <=> \E i \in 1..Len(l) : m < i /\ u = l[i]
        BY <1>6
      <3>4. \A u : u \in From(l[k]) <=> \E i \in 1..Len(l) : m < i /\ u = l[i]
        BY <3>2, <3>3
      <3> QED
        BY <3>2, <3>4
    <2> QED
      BY <2>1, <2>2
  <1>8. ASSUME NEW t \in allocated
        PROVE  /\ next[t] \in allocated \cup {NULL} /\ From(t) = From(next[t]) \cup {t}
               /\ t \notin From(next[t]) /\ From(next[t]) \subseteq allocated
    <2>1. PICK k \in 1..Len(l) : t = l[k]
      BY <1>2 DEF Elements
    <2>2. \A i \in 1..Len(l) : (k <= i <=> k < i \/ i = k) /\ ~(k < k)
      BY <1>2
    <2>a. \A u : u \in From(l[k]) <=> \E i \in 1..Len(l) : k <= i /\ u = l[i]
      BY <1>7
    <2>b. \A u : u \in From(next[l[k]]) <=> \E i \in 1..Len(l) : k < i /\ u = l[i]
      BY <1>6
    <2>c. /\ \A u : u \in From(t) <=> \E i \in 1..Len(l) : k <= i /\ u = l[i]
          /\ \A u : u \in From(next[t]) <=> \E i \in 1..Len(l) : k < i /\ u = l[i]
      BY <2>1, <2>a, <2>b
    <2>3. From(t) = From(next[t]) \cup {t}
      BY <2>1, <2>2, <2>c
    <2>4. t \notin From(next[t])
      BY <1>2, <2>1, <2>2, <2>c
    <2>5. From(next[t]) \subseteq allocated
      BY <1>2, <2>c DEF Elements
    <2> QED
      BY <1>6, <2>1, <2>3, <2>4, <2>5
  <1>9. ASSUME NEW t \in allocated, NEW u \in allocated, next[t] = next[u], next[t] # NULL PROVE t = u
    <2>1. PICK i \in 1..Len(l), j \in 1..Len(l) : t = l[i] /\ u = l[j]
      BY <1>2 DEF Elements
    <2>2. i # Len(l) /\ j # Len(l) /\ i + 1 \in 1..Len(l) /\ j + 1 \in 1..Len(l)
      BY <1>2, <1>9, <2>1
    <2>3. l[i + 1] = l[j + 1]
      BY <1>2, <1>9, <2>1, <2>2
    <2>4. i + 1 = j + 1
      BY <1>2, <2>2, <2>3
    <2> QED
      BY <2>1, <2>4
  <1> QED
    BY <1>3, <1>4, <1>5, <1>8, <1>9

-----------------------------------------------------------------------------
(* Every step keeps the invariant *)

\* The list is still one, whatever is pushed and unlinked.
LEMMA ChainNext ==
    ASSUME TypeOK, Chained, WalkInv, [Next]_vars
    PROVE  Chained'
  <1> DEFINE hd == timerList
             hd2 == timerList'
             nx == next
             nx2 == next'
  <1>0. NULL \notin Timers /\ next \in [Timers -> Ptr] /\ allocated \subseteq Timers
    BY TimerAssumption DEF TypeOK
  <1>1. PICK l \in Seq(Timers) : Forward(l, hd, nx, NULL) /\ Elements(l) = allocated
    BY DEF Chained, Listed
  <1>2. /\ Len(l) \in Nat /\ \A i, j \in 1..Len(l) : l[i] = l[j] => i = j
        /\ \A i \in 1..Len(l) : l[i] \in Timers /\ l[i] # NULL
        /\ timerList = IF Len(l) = 0 THEN NULL ELSE l[1]
        /\ \A i \in 1..Len(l) : next[l[i]] = IF i = Len(l) THEN NULL ELSE l[i + 1]
    BY <1>0, <1>1, LenProperties DEF Forward
  <1>3. ASSUME NEW m \in Seq(Timers), Forward(m, hd2, nx2, NULL), Elements(m) = allocated'
        PROVE  Chained'
    BY <1>3 DEF Chained, Listed
  <1>4. CASE UNCHANGED <<timerList, next, allocated>>
    BY <1>1, <1>4 DEF Chained, Listed
  <1>5. ASSUME NEW t \in Timers, newTimer(t) PROVE Chained'
    <2>1. /\ t \notin Elements(l) /\ hd2 = t /\ nx2[t] = hd /\ \A u \in Timers \ {t} : nx2[u] = nx[u]
          /\ allocated' = Elements(l) \cup {t}
      BY <1>0, <1>1, <1>5 DEF newTimer
    <2> DEFINE m == <<t>> \o l
    <2>2. m \in Seq(Timers) /\ Elements(m) = Elements(l) \cup {t} /\ Forward(m, t, nx2, NULL)
      <3> HIDE DEF hd, nx, nx2, hd2
      <3> QED
        BY <1>0, <1>1, <2>1, PushedForward
    <2> HIDE DEF m
    <2> QED
      BY <1>3, <2>1, <2>2
  <1>6. ASSUME NEW t \in Timers, Unlink(t) PROVE Chained'
    <2>1. t \in allocated /\ allocated' = allocated \ {t} /\ Unlinked(t)
      BY <1>6 DEF Unlink, TypeOK
    <2>2. PICK k \in 1..Len(l) : l[k] = t
      BY <1>1, <2>1 DEF Elements
    <2>3. k = 1 <=> timerList = t
      <3>1. 1 \in 1..Len(l) /\ Len(l) # 0
        BY <1>2
      <3> QED
        BY <1>2, <2>2, <3>1
    <2>4. hd2 = IF k # 1 THEN hd ELSE nx[l[k]]
      BY <2>1, <2>2, <2>3 DEF Unlinked
    <2>5. \A u \in Timers \ {l[k]} : nx2[u] = IF k # 1 /\ u = l[k - 1] THEN nx[l[k]] ELSE nx[u]
      <3>1. CASE k = 1
        BY <2>1, <2>3, <3>1 DEF Unlinked
      <3>2. CASE k # 1
        <4>1. PICK p \in From(timerList) : next[p] = t /\ next' = [next EXCEPT ![p] = next[t]]
          BY <2>1, <2>3, <3>2 DEF Unlinked
        <4>2. PICK j \in 1..Len(l) : l[j] = p
          BY <1>1, <4>1, FromChain DEF Elements
        <4>3. j # Len(l) /\ l[j + 1] = l[k] /\ j + 1 \in 1..Len(l)
          BY <1>2, <2>2, <4>1, <4>2
        <4>4. j = k - 1
          BY <1>2, <4>3
        <4> QED
          BY <1>0, <1>2, <2>2, <3>2, <4>1, <4>2, <4>4
      <3> QED
        BY <3>1, <3>2
    <2> DEFINE m == Without(l, k)
    <2>6. m \in Seq(Timers) /\ Elements(m) = Elements(l) \ {l[k]}
      BY <1>2, WithoutElements
    <2>7. Forward(m, hd2, nx2, NULL)
      <3>1. Forward(m, IF k # 1 THEN hd ELSE nx[l[k]], nx2, NULL)
        <4> HIDE DEF hd, nx, nx2, hd2
        <4> QED
          BY <1>0, <1>1, <2>5, UnlinkedForward
      <3> HIDE DEF hd, nx, nx2, hd2, m
      <3> QED
        BY <2>4, <3>1
    <2> HIDE DEF m
    <2> QED
      BY <1>1, <1>3, <2>1, <2>2, <2>6, <2>7
  <1>7. ASSUME NEW t \in Timers,
               \/ stopTimer(t) \/ deleteTimer(t) \/ Skip(t) \/ CountDown(t) \/ Fire(t) \/ FunctionDone(t)
               \/ \E d \in Delays : startTimer(t, d)
        PROVE  UNCHANGED <<timerList, next, allocated>>
    BY <1>7 DEF stopTimer, deleteTimer, Skip, CountDown, Fire, FunctionDone, startTimer, list
  <1>8. ASSUME \/ clockTick \/ TickDone \/ removeTimer \/ UNCHANGED vars
               \/ \E p \in Periods : installTimer(p)
        PROVE  UNCHANGED <<timerList, next, allocated>>
    BY <1>8 DEF clockTick, TickDone, removeTimer, installTimer, vars, list
  <1> QED
    BY <1>4, <1>5, <1>6, <1>7, <1>8 DEF Next

\* The tick stays on a timer of the list.
LEMMA WalkNext ==
    ASSUME TypeOK, Chained, WalkInv, [Next]_vars
    PROVE  WalkInv'
  <1>0. /\ timerList \in allocated \cup {NULL} /\ \A t \in allocated : next[t] \in allocated \cup {NULL}
        /\ NULL \notin Timers
    BY FromChain, TimerAssumption
  <1> USE DEF WalkInv
  <1>1. CASE clockTick
    BY <1>0, <1>1 DEF clockTick, list
  <1>2. CASE TickDone
    BY <1>2 DEF TickDone, list
  <1>3. ASSUME UNCHANGED tick, allocated \subseteq allocated' \/ ~inTick PROVE WalkInv'
    BY <1>3 DEF tick
  <1>4. ASSUME NEW t \in Timers, Skip(t) \/ CountDown(t) PROVE WalkInv'
    BY <1>0, <1>4 DEF Skip, CountDown, At, list
  <1>5. ASSUME NEW t \in Timers, Fire(t) PROVE WalkInv'
    BY <1>0, <1>5 DEF Fire, At, list
  <1>6. ASSUME NEW t \in Timers, FunctionDone(t) PROVE WalkInv'
    BY <1>0, <1>6 DEF FunctionDone, list
  <1>7. ASSUME NEW t \in Timers,
               \/ newTimer(t) \/ stopTimer(t) \/ deleteTimer(t) \/ Unlink(t)
               \/ \E d \in Delays : startTimer(t, d)
        PROVE  WalkInv'
    BY <1>3, <1>7 DEF newTimer, stopTimer, deleteTimer, Unlink, startTimer, InTask, list
  <1>8. CASE removeTimer \/ UNCHANGED vars \/ \E p \in Periods : installTimer(p)
    BY <1>3, <1>8 DEF removeTimer, installTimer, vars, list
  <1> QED
    BY <1>1, <1>2, <1>4, <1>5, <1>6, <1>7, <1>8 DEF Next

\* What is left of the tick after a step that leaves the list alone.
LEMMA PendingNext ==
    ASSUME next' = next, NEW n, inTick' => n = IF called' = NULL THEN walk' ELSE next[called']
    PROVE  Pending' = IF inTick' THEN From(n) ELSE {}
  <1> DEFINE ahead == IF called' = NULL THEN walk' ELSE next'[called']
  <1>1. Pending' = IF ~inTick' THEN {} ELSE Met(next', ahead)
    BY DEF Pending, From, Met
  <1>2. From(n) = Met(next, n)
    BY DEF From, Met
  <1>3. inTick' => ahead = n
    OBVIOUS
  <1> HIDE DEF ahead
  <1> QED
    BY <1>1, <1>2, <1>3

\* A timer that the step leaves alone keeps its count.
LEMMA CountedSame ==
    ASSUME NEW t, Counted(t), count'[t] = count[t], age'[t] = age[t], asked'[t] = asked[t],
           t \in Pending' <=> t \in Pending
    PROVE  Counted(t)'
  BY DEF Counted, Due

\* Outside the walk nothing is on its way; a step of it takes one timer off.
LEMMA PendingSteps ==
    ASSUME TypeOK, Chained, WalkInv
    PROVE  /\ ~inTick => Pending = {}
           /\ TickDone => Pending = {} /\ Pending' = {}
           /\ clockTick => Pending = {} /\ Pending' = allocated
           /\ ~inTick /\ ~inTick' => Pending' = Pending
           /\ UNCHANGED <<next, tick>> => Pending' = Pending
           /\ \A t \in Timers : /\ Skip(t) \/ CountDown(t) \/ Fire(t)
                                    => t \in Pending /\ Pending' = Pending \ {t}
                                /\ FunctionDone(t) => Pending' = Pending
           /\ inTick /\ called # NULL => Pending = From(next[called])
  <1>0. /\ From(NULL) = {} /\ From(timerList) = allocated /\ NULL \notin Timers
        /\ \A t \in allocated : From(t) = From(next[t]) \cup {t} /\ t \notin From(next[t])
    BY FromChain, TimerAssumption
  <1>1. /\ ~inTick => Pending = {}
        /\ inTick /\ called = NULL => Pending = From(walk)
        /\ inTick /\ called # NULL => Pending = From(next[called])
    BY DEF Pending
  <1>2. ~inTick' => Pending' = {}
    BY DEF Pending
  <1>3. TickDone => Pending = {} /\ Pending' = {}
    <2> SUFFICES ASSUME TickDone PROVE Pending = {} /\ Pending' = {}
      OBVIOUS
    <2>1. inTick /\ called = NULL /\ walk = NULL /\ ~inTick'
      BY DEF TickDone, TypeOK
    <2>2. Pending = From(NULL)
      BY <1>1, <2>1
    <2> QED
      BY <1>0, <1>2, <2>1, <2>2
  <1>4. clockTick => Pending = {} /\ Pending' = allocated
    <2> SUFFICES ASSUME clockTick PROVE Pending = {} /\ Pending' = allocated
      OBVIOUS
    <2>1. ~inTick /\ inTick' /\ called = NULL /\ called' = NULL /\ walk' = timerList /\ next' = next
      BY DEF clockTick, list, WalkInv
    <2>2. PICK n : n = timerList
      OBVIOUS
    <2>3. Pending' = From(n)
      BY <2>1, <2>2, PendingNext
    <2>4. From(n) = From(timerList)
      BY <2>2
    <2> QED
      BY <1>0, <1>1, <2>1, <2>3, <2>4
  <1>5. UNCHANGED <<next, tick>> => Pending' = Pending
    <2> SUFFICES ASSUME UNCHANGED <<next, tick>> PROVE Pending' = Pending
      OBVIOUS
    <2>1. next' = next /\ inTick' = inTick /\ walk' = walk /\ called' = called
      BY DEF tick
    <2>2. PICK n : n = IF called = NULL THEN walk ELSE next[called]
      OBVIOUS
    <2>3. Pending' = IF inTick THEN From(n) ELSE {}
      BY <2>1, <2>2, PendingNext
    <2>4. Pending = IF inTick THEN From(n) ELSE {}
      BY <2>2 DEF Pending
    <2> QED
      BY <2>3, <2>4
  <1>6. ASSUME NEW t \in Timers, Skip(t) \/ CountDown(t) \/ Fire(t)
        PROVE  t \in Pending /\ Pending' = Pending \ {t}
    <2>1. inTick /\ called = NULL /\ walk = t /\ t \in allocated
      BY <1>6 DEF Skip, CountDown, Fire, At, WalkInv
    <2>2. next' = next /\ inTick' /\ next[t] = IF called' = NULL THEN walk' ELSE next[called']
      BY <1>0, <1>6, <2>1 DEF Skip, CountDown, Fire, list
    <2>3. PICK n : n = next[t]
      OBVIOUS
    <2>4. Pending' = From(n)
      BY <2>2, <2>3, PendingNext
    <2>5. From(n) = From(next[t]) /\ From(walk) = From(t)
      BY <2>1, <2>3
    <2> QED
      BY <1>0, <1>1, <2>1, <2>4, <2>5
  <1>7. ASSUME NEW t \in Timers, FunctionDone(t) PROVE Pending' = Pending
    <2>1. called = t /\ t # NULL /\ inTick
      BY <1>7 DEF FunctionDone, WalkInv
    <2>2. next' = next /\ inTick' /\ called' = NULL /\ walk' = next[t]
      BY <1>7, <2>1 DEF FunctionDone, list
    <2>3. PICK n : n = next[t]
      OBVIOUS
    <2>4. Pending' = From(n)
      BY <2>2, <2>3, PendingNext
    <2>5. From(n) = From(next[called])
      BY <2>1, <2>3
    <2> QED
      BY <1>1, <2>1, <2>4, <2>5
  <1> QED
    BY <1>1, <1>2, <1>3, <1>4, <1>5, <1>6, <1>7

\* A timer's count keeps pace with the ticks.
LEMMA ClockedNext ==
    ASSUME TypeOK, Chained, WalkInv, Clocked, [Next]_vars
    PROVE  Clocked'
  <1>0. /\ count \in [Timers -> Int] /\ age \in [Timers -> Nat] /\ asked \in [Timers -> Nat]
        /\ status \in [Timers -> {"DONE", "ACTIVE"}] /\ armed \subseteq Timers
        /\ allocated \subseteq Timers /\ deleting \subseteq allocated
        /\ armed \subseteq allocated \ deleting
        /\ \A t \in Timers : status[t] = "ACTIVE" <=> t \in armed
        /\ \A t \in armed : Counted(t)
    BY DEF TypeOK, Clocked
  <1>1. ASSUME clockTick PROVE Clocked'
    <2>1. /\ age' = [t \in Timers |-> IF t \in armed THEN age[t] + 1 ELSE age[t]]
          /\ UNCHANGED <<status, count, armed, asked, allocated, deleting>>
      BY <1>1 DEF clockTick, list
    <2>2. Pending = {} /\ Pending' = allocated
      BY <1>1, PendingSteps
    <2>3. ASSUME NEW t \in armed PROVE Counted(t)'
      <3>1. count[t] + age[t] = asked[t] /\ age[t] < Due(t) /\ t \in Pending'
        BY <1>0, <2>2 DEF Counted
      <3>2. PICK c \in Int, a \in Nat, k \in Nat : c = count[t] /\ a = age[t] /\ k = asked[t]
        BY <1>0
      <3>3. count'[t] = c /\ age'[t] = a + 1 /\ asked'[t] = k
        BY <1>0, <2>1, <3>2
      <3>4. c + a = k /\ a < (IF k > 1 THEN k ELSE 1)
        BY <3>1, <3>2 DEF Due
      <3>5. c + (a + 1) = k + 1 /\ 1 <= a + 1 /\ a + 1 <= (IF k > 1 THEN k ELSE 1)
        BY <3>4
      <3> QED
        BY <3>1, <3>3, <3>5 DEF Counted, Due
    <2> QED
      BY <1>0, <2>1, <2>3 DEF Clocked
  <1>2. ASSUME UNCHANGED <<states, allocated, deleting>>, \A t \in armed : t \in Pending' <=> t \in Pending
        PROVE  Clocked'
    <2>1. \A t \in armed : Counted(t)'
      BY <1>0, <1>2, CountedSame DEF states, starts
    <2> QED
      BY <1>0, <1>2, <2>1 DEF Clocked, states, starts
  <1>3. CASE TickDone
    BY <1>2, <1>3, PendingSteps DEF TickDone, list
  <1>4. CASE removeTimer \/ UNCHANGED vars \/ \E p \in Periods : installTimer(p)
    BY <1>2, <1>4, PendingSteps DEF removeTimer, installTimer, vars, list
  <1>5. ASSUME NEW t \in Timers, newTimer(t) PROVE Clocked'
    <2>1. /\ t \notin armed /\ allocated' = allocated \cup {t} /\ UNCHANGED <<deleting, armed, asked, age>>
          /\ status' = [status EXCEPT ![t] = "DONE"] /\ count' = [count EXCEPT ![t] = 0]
          /\ ~inTick /\ ~inTick'
      BY <1>0, <1>5 DEF newTimer, InTask, starts, tick
    <2>2. \A u \in armed : Counted(u)'
      BY <1>0, <2>1, CountedSame, PendingSteps
    <2> QED
      BY <1>0, <2>1, <2>2 DEF Clocked
  <1>6. ASSUME NEW t \in Timers, Stopped(t), UNCHANGED <<next, allocated, tick>>,
               deleting' = deleting \/ deleting' = deleting \cup {t}
        PROVE  Clocked'
    <2>1. \A u \in armed' : Counted(u)'
      BY <1>0, <1>6, CountedSame, PendingSteps DEF Stopped
    <2> QED
      BY <1>0, <1>6, <2>1 DEF Clocked, Stopped
  <1>7. ASSUME NEW t \in Timers, stopTimer(t) \/ deleteTimer(t) PROVE Clocked'
    BY <1>6, <1>7 DEF stopTimer, deleteTimer, list
  <1>8. ASSUME NEW t \in Timers, Unlink(t) PROVE Clocked'
    <2>1. /\ allocated' = allocated \ {t} /\ deleting' = deleting \ {t} /\ t \in deleting
          /\ UNCHANGED states /\ ~inTick /\ ~inTick'
      BY <1>8 DEF Unlink, InTask, tick
    <2>2. \A u \in armed : Counted(u)'
      BY <1>0, <2>1, CountedSame, PendingSteps DEF states, starts
    <2> QED
      BY <1>0, <2>1, <2>2 DEF Clocked, states, starts
  <1>9. ASSUME NEW t \in Timers, Skip(t) PROVE Clocked'
    <2>1. t \notin armed
      BY <1>0, <1>9 DEF Skip
    <2> QED
      BY <1>2, <1>9, <2>1, PendingSteps DEF Skip, list
  <1>10. ASSUME NEW t \in Timers, CountDown(t) PROVE Clocked'
    <2>1. /\ t \in armed /\ count[t] - 1 > 0 /\ count' = [count EXCEPT ![t] = @ - 1]
          /\ UNCHANGED <<status, armed, asked, age, allocated, deleting>>
      BY <1>0, <1>10 DEF CountDown, list, starts
    <2>2. t \in Pending /\ Pending' = Pending \ {t}
      BY <1>10, PendingSteps
    <2>3. Counted(t)'
      <3>1. count[t] + age[t] = asked[t] + 1 /\ 1 <= age[t]
        BY <1>0, <2>1, <2>2 DEF Counted
      <3>2. PICK c \in Int, a \in Nat, k \in Nat : c = count[t] /\ a = age[t] /\ k = asked[t]
        BY <1>0
      <3>3. count'[t] = c - 1 /\ age'[t] = a /\ asked'[t] = k
        BY <1>0, <2>1, <3>2
      <3>4. c + a = k + 1 /\ c - 1 > 0
        BY <2>1, <3>1, <3>2
      <3>5. (c - 1) + a = k /\ a < (IF k > 1 THEN k ELSE 1)
        BY <3>1, <3>2, <3>4
      <3> QED
        BY <2>2, <3>3, <3>5 DEF Counted, Due
    <2>4. \A u \in armed \ {t} : Counted(u)'
      BY <1>0, <2>1, <2>2, CountedSame
    <2> QED
      BY <1>0, <2>1, <2>3, <2>4 DEF Clocked
  <1>11. ASSUME NEW t \in Timers, Fire(t) PROVE Clocked'
    <2>1. /\ status' = [status EXCEPT ![t] = "DONE"] /\ count' = [count EXCEPT ![t] = @ - 1]
          /\ armed' = armed \ {t} /\ UNCHANGED <<asked, age, allocated, deleting>>
      BY <1>11 DEF Fire, list
    <2>2. Pending' = Pending \ {t}
      BY <1>11, PendingSteps
    <2>3. \A u \in armed' : Counted(u)'
      BY <1>0, <2>1, <2>2, CountedSame
    <2> QED
      BY <1>0, <2>1, <2>3 DEF Clocked
  <1>12. ASSUME NEW t \in Timers, FunctionDone(t) PROVE Clocked'
    BY <1>2, <1>12, PendingSteps DEF FunctionDone, list
  <1>13. ASSUME NEW t \in Timers, NEW d \in Delays, startTimer(t, d) PROVE Clocked'
    <2>1. /\ t \in allocated \ deleting /\ armed' = armed \cup {t} /\ d \in Nat
          /\ status' = [status EXCEPT ![t] = "ACTIVE"] /\ count' = [count EXCEPT ![t] = d]
          /\ asked' = [asked EXCEPT ![t] = d] /\ UNCHANGED <<allocated, deleting, next, tick>>
          /\ age' = [age EXCEPT ![t] = IF inTick /\ t \in From(next[called]) THEN 1 ELSE 0]
      BY <1>13, TimerAssumption DEF startTimer, list
    <2>2. Pending' = Pending /\ (t \in Pending <=> inTick /\ t \in From(next[called]))
      BY <1>13, <2>1, PendingSteps DEF startTimer, InCode
    <2>3. Counted(t)'
      <3>1. count'[t] = d /\ asked'[t] = d /\ age'[t] = IF t \in Pending' THEN 1 ELSE 0
        BY <1>0, <2>1, <2>2
      <3>2. 1 <= (IF d > 1 THEN d ELSE 1)
        BY <2>1
      <3> QED
        BY <2>1, <3>1, <3>2 DEF Counted, Due
    <2>4. \A u \in armed' \ {t} : Counted(u)'
      BY <1>0, <2>1, <2>2, CountedSame
    <2> QED
      BY <1>0, <2>1, <2>3, <2>4 DEF Clocked
  <1> QED
    BY <1>1, <1>3, <1>4, <1>5, <1>7, <1>8, <1>9, <1>10, <1>11, <1>12, <1>13 DEF Next

-----------------------------------------------------------------------------
(* The theorems *)

\* The invariant holds at first, ...
LEMMA IInvInit == Init => IInv
  <1> SUFFICES ASSUME Init PROVE IInv
    OBVIOUS
  <1>1. TypeOK
    BY TypeInit
  <1>2. Chained
    <2>1. <<>> \in Seq(Timers) /\ Forward(<<>>, timerList, next, NULL) /\ Elements(<<>>) = allocated
      BY EmptySeq DEF Init, Forward, Elements
    <2> QED
      BY <2>1 DEF Chained, Listed
  <1>3. WalkInv /\ Clocked
    BY DEF Init, WalkInv, Clocked
  <1> QED
    BY <1>1, <1>2, <1>3 DEF IInv

\* ... and every step keeps it.
LEMMA IInvNext == IInv /\ [Next]_vars => IInv'
  BY TypeStep, ChainNext, WalkNext, ClockedNext DEF IInv

\* Whatever is made and deleted between ticks, the list holds the timers that
\* exist, each once, and the tick stands on one of them.
THEOREM ListHolds == Spec => []TimerListSound
  <1>1. IInv => TimerListSound
    BY FromChain DEF IInv, WalkInv, TimerListSound
  <1> QED
    BY <1>1, IInvInit, IInvNext, PTL DEF Spec

\* What a step does to the timer that is called, and to the others.
LEMMA FiresStep ==
    ASSUME IInv, [Next]_vars
    PROVE  /\ \A t \in Timers : called = NULL /\ called' = t => t \in armed /\ age[t] = Due(t)
           /\ inTick /\ ~inTick' => \A t \in armed : age[t] < Due(t)
  <1>0. /\ TypeOK /\ Chained /\ WalkInv /\ Clocked /\ NULL \notin Timers /\ inTick \in BOOLEAN
        /\ count \in [Timers -> Int] /\ age \in [Timers -> Nat] /\ asked \in [Timers -> Nat]
        /\ armed \subseteq Timers
    BY TimerAssumption DEF IInv, TypeOK
  <1>1. ASSUME NEW t \in Timers, Fire(t) PROVE t \in armed /\ age[t] = Due(t) /\ called' = t /\ inTick' = inTick
    <2>1. t \in armed /\ count[t] - 1 <= 0 /\ called' = t /\ inTick' = inTick
      BY <1>0, <1>1 DEF Fire, Clocked
    <2>2. t \in Pending
      BY <1>0, <1>1, PendingSteps
    <2>3. count[t] + age[t] = asked[t] + 1 /\ 1 <= age[t] /\ age[t] <= Due(t)
      BY <1>0, <2>1, <2>2 DEF Clocked, Counted
    <2>4. PICK c \in Int, a \in Nat, k \in Nat : c = count[t] /\ a = age[t] /\ k = asked[t]
      BY <1>0
    <2>5. c - 1 <= 0 /\ c + a = k + 1 /\ 1 <= a /\ a <= (IF k > 1 THEN k ELSE 1)
      BY <2>1, <2>3, <2>4 DEF Due
    <2>6. a = IF k > 1 THEN k ELSE 1
      BY <2>5
    <2> QED
      BY <2>1, <2>4, <2>6 DEF Due
  <1>2. ASSUME TickDone PROVE called' = NULL /\ \A t \in armed : age[t] < Due(t)
    <2>1. Pending = {} /\ called = NULL /\ called' = called
      BY <1>0, <1>2, PendingSteps DEF TickDone
    <2> QED
      BY <1>0, <2>1 DEF Clocked, Counted
  <1>3. ASSUME clockTick PROVE ~inTick /\ called' = called
    BY <1>3 DEF clockTick
  <1>4. ASSUME NEW t \in Timers, Skip(t) \/ CountDown(t) PROVE inTick' = inTick /\ called' = called
    BY <1>4 DEF Skip, CountDown
  <1>5. ASSUME NEW t \in Timers, FunctionDone(t) PROVE inTick' = inTick /\ called' = NULL
    BY <1>5 DEF FunctionDone
  <1>6. ASSUME NEW t \in Timers,
               \/ newTimer(t) \/ stopTimer(t) \/ deleteTimer(t) \/ Unlink(t)
               \/ \E d \in Delays : startTimer(t, d)
        PROVE  inTick' = inTick /\ called' = called
    BY <1>6 DEF newTimer, stopTimer, deleteTimer, Unlink, startTimer, tick
  <1>7. ASSUME removeTimer \/ UNCHANGED vars \/ \E p \in Periods : installTimer(p)
        PROVE  inTick' = inTick /\ called' = called
    BY <1>7 DEF removeTimer, installTimer, vars, tick
  <1> QED
    BY <1>0, <1>1, <1>2, <1>3, <1>4, <1>5, <1>6, <1>7 DEF Next

\* A timer's function is called after exactly the ticks asked for, also if a
\* function started it in the middle of a tick, and none is left behind.
THEOREM OnTheTick == Spec => FiresOnTick
  <1>1. IInv /\ [Next]_vars
          => [/\ \A t \in Timers : called = NULL /\ called' = t => t \in armed /\ age[t] = Due(t)
              /\ inTick /\ ~inTick' => \A t \in armed : age[t] < Due(t)]_vars
    BY FiresStep
  <1> QED
    BY <1>1, IInvInit, IInvNext, PTL DEF Spec, FiresOnTick
=============================================================================
