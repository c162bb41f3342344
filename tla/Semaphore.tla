----------------------------- MODULE Semaphore ------------------------------
(***************************************************************************)
(* The semaphores of litetask: kernel/clib/semaphor.c.                     *)
(*                                                                         *)
(* A task waits with an entry that lives on its own stack, so an entry is  *)
(* named by its task.  The entries of a semaphore form a doubly linked     *)
(* queue, those of all waits with a timeout a second list, timeoutList.    *)
(* Code between lockInts() and unlockInts() is one action; between two     *)
(* actions any other task may run, as it may under preemption.  Task says  *)
(* what suspendTask() and resumeTask() do; here a task waits in            *)
(* suspendTask() (pc "suspended") until it is resumed with a status, which *)
(* then is its pc until it runs.                                           *)
(***************************************************************************)
EXTENDS Integers, Sequences, FiniteSets

CONSTANTS
    Tasks,          \* the tasks, and with them their semQueue_t entries
    Sems,           \* the semaphores
    Signals,        \* those put by others than the task that got them
    NULL,           \* the null pointer
    StartRace,      \* tasks may preempt each other in the first calls
    Timeouts        \* bound: the timeouts callers give, in ticks

NOTIMEOUT == -1

ASSUME NamesAssumption == /\ Signals \subseteq Sems /\ NULL \notin Tasks \cup Sems
                          /\ StartRace \in BOOLEAN /\ Timeouts \subseteq Nat \ {0}
ASSUME FiniteAssumption == IsFiniteSet(Tasks)

VARIABLES
    valid,          \* the semaphores with a good magic
    owner,          \* per semaphore: its owner
    qhead, qtail,   \* per semaphore: the ends of its queue
    qnext, qprev,   \* per entry: its links in that queue
    tnext, tprev,   \* per entry: its links in timeoutList
    psem,           \* per entry: the semaphore waited for
    timeout,        \* per task: the timeout its wait was called with
    remaining,      \* per entry: ticks left, 0 also for less
    timeoutList,    \* the head of the waits with a timeout
    timerRunning,   \* the flag of that name
    timers,         \* the number of timers _runTimer() has started
    firing,         \* timers still to run their function in this tick
    walking, next,  \* _semaphoreTimer() runs, at entry next
    pc,             \* per task: program point, or status it was resumed with
    held            \* per task: the semaphores it got and will put back

semVars   == <<valid, owner, qhead, qtail>>
entryVars == <<qnext, qprev, psem>>
timeVars  == <<tnext, tprev, timeout, timeoutList>>
timerVars == <<timerRunning, timers>>
tickVars  == <<firing, walking, next>>
taskVars  == <<pc, held>>
vars == <<semVars, entryVars, timeVars, remaining, timerVars, tickVars, taskVars>>

Ptr == Tasks \cup {NULL}

Init ==
    /\ valid = {}
    /\ owner = [s \in Sems |-> NULL]
    /\ qhead = [s \in Sems |-> NULL] /\ qtail = [s \in Sems |-> NULL]
    /\ qnext = [t \in Tasks |-> NULL] /\ qprev = [t \in Tasks |-> NULL]
    /\ tnext = [t \in Tasks |-> NULL] /\ tprev = [t \in Tasks |-> NULL]
    /\ psem = [t \in Tasks |-> NULL]
    /\ timeout = [t \in Tasks |-> 0] /\ remaining = [t \in Tasks |-> 0]
    /\ timeoutList = NULL
    /\ timerRunning = FALSE /\ timers = 0
    /\ firing = 0 /\ walking = FALSE /\ next = NULL
    /\ pc = [t \in Tasks |-> "out"]
    /\ held = [t \in Tasks |-> {}]

\* No task runs while the clock interrupt is being served
At(t, point) == firing = 0 /\ pc[t] = point

GoTo(t, point) == pc' = [pc EXCEPT ![t] = point]

-----------------------------------------------------------------------------
(* The timer: each call first makes sure that it runs.                     *)

\* A call finds timerRunning clear and goes for _runTimer()
StartTimer(t) ==
    /\ At(t, "out") /\ ~timerRunning
    /\ StartRace \/ \A u \in Tasks : pc[u] # "starting"
    /\ GoTo(t, "starting")
    /\ UNCHANGED <<semVars, entryVars, timeVars, remaining, timerVars, tickVars, held>>

\* newTimer() may be out of memory; the call then returns EINTERNAL
RunTimer(t) ==
    /\ At(t, "starting")
    /\ \/ timers' = timers + 1 /\ timerRunning' = TRUE
       \/ UNCHANGED timerVars
    /\ GoTo(t, "out")
    /\ UNCHANGED <<semVars, entryVars, timeVars, remaining, tickVars, held>>

-----------------------------------------------------------------------------
(* The two lists.                                                          *)

\* Faulty: forgets the tail when the last entry leaves
unqueueTail(e, before) ==
    LET after == qnext[e]
        s == psem[e]
    IN  /\ qnext' = IF before # NULL THEN [qnext EXCEPT ![before] = after] ELSE qnext
        /\ qhead' = IF before # NULL THEN qhead ELSE [qhead EXCEPT ![s] = after]
        /\ qprev' = IF after # NULL THEN [qprev EXCEPT ![after] = before] ELSE qprev
        /\ UNCHANGED qtail

\* Takes entry e off its semaphore's queue; `before` precedes it there
unqueue(e, before) ==
    LET after == qnext[e]
        s == psem[e]
    IN  /\ qnext' = IF before # NULL THEN [qnext EXCEPT ![before] = after] ELSE qnext
        /\ qhead' = IF before # NULL THEN qhead ELSE [qhead EXCEPT ![s] = after]
        /\ qprev' = IF after # NULL THEN [qprev EXCEPT ![after] = before] ELSE qprev
        /\ qtail' = IF after # NULL THEN qtail ELSE [qtail EXCEPT ![s] = before]

\* timeoutList and its links without entry e
tnextWithout(e) == IF tprev[e] # NULL THEN [tnext EXCEPT ![tprev[e]] = tnext[e]] ELSE tnext
tprevWithout(e) == IF tnext[e] # NULL THEN [tprev EXCEPT ![tnext[e]] = tprev[e]] ELSE tprev
listWithout(e)  == IF tprev[e] # NULL THEN timeoutList ELSE tnext[e]

\* Faulty: puts the entry at the front
enqueueFront(t, s) ==
    LET first == qhead[s]
    IN  /\ psem' = [psem EXCEPT ![t] = s]
        /\ qprev' = IF first # NULL THEN [qprev EXCEPT ![t] = NULL, ![first] = t]
                                    ELSE [qprev EXCEPT ![t] = NULL]
        /\ qnext' = [qnext EXCEPT ![t] = first]
        /\ qtail' = IF first # NULL THEN qtail ELSE [qtail EXCEPT ![s] = t]
        /\ qhead' = [qhead EXCEPT ![s] = t]

enqueue(t, s) ==
    LET last == qtail[s]
    IN  /\ psem' = [psem EXCEPT ![t] = s]
        /\ qnext' = IF last # NULL THEN [qnext EXCEPT ![t] = NULL, ![last] = t]
                                   ELSE [qnext EXCEPT ![t] = NULL]
        /\ qprev' = [qprev EXCEPT ![t] = last]
        /\ qhead' = IF last # NULL THEN qhead ELSE [qhead EXCEPT ![s] = t]
        /\ qtail' = [qtail EXCEPT ![s] = t]

\* Faulty: counts the tick it starts on
addTimeoutShort(t, n) ==
    /\ remaining' = [remaining EXCEPT ![t] = n - 1]
    /\ tnext' = [tnext EXCEPT ![t] = timeoutList]
    /\ tprev' = IF timeoutList # NULL THEN [tprev EXCEPT ![t] = NULL, ![timeoutList] = t]
                                      ELSE [tprev EXCEPT ![t] = NULL]
    /\ timeoutList' = t

addTimeout(t, n) ==
    /\ remaining' = [remaining EXCEPT ![t] = n]
    /\ tnext' = [tnext EXCEPT ![t] = timeoutList]
    /\ tprev' = IF timeoutList # NULL THEN [tprev EXCEPT ![t] = NULL, ![timeoutList] = t]
                                      ELSE [tprev EXCEPT ![t] = NULL]
    /\ timeoutList' = t

-----------------------------------------------------------------------------
(* The calls.  One that returns ESEMINUSE, EBADSEM or EINTERNAL changes    *)
(* nothing.                                                                *)

\* A semaphore is initialised once, before it is used
initSemaphore(t, s) ==
    /\ At(t, "out") /\ s \notin valid
    /\ valid' = valid \cup {s}
    /\ owner' = [owner EXCEPT ![s] = NULL]
    /\ qhead' = [qhead EXCEPT ![s] = NULL]
    /\ qtail' = [qtail EXCEPT ![s] = NULL]
    /\ UNCHANGED <<entryVars, timeVars, remaining, timerVars, tickVars, taskVars>>

\* A task does not ask again for what it holds
Calls(t, s) == At(t, "out") /\ timerRunning /\ s \in valid /\ s \notin held[t]

getSemaphore(t, s) ==
    /\ Calls(t, s) /\ owner[s] = NULL
    /\ owner' = [owner EXCEPT ![s] = t]
    /\ held' = [held EXCEPT ![t] = @ \cup ({s} \ Signals)]
    /\ UNCHANGED <<valid, qhead, qtail, entryVars, timeVars, remaining, timerVars, tickVars, pc>>

\* The semaphore is in use: join its queue and suspend with interrupts off
Wait(t, s, n) ==
    /\ Calls(t, s) /\ owner[s] # NULL
    /\ enqueue(t, s)
    /\ timeout' = [timeout EXCEPT ![t] = n]
    /\ IF n > 0 THEN addTimeout(t, n) ELSE UNCHANGED <<remaining, tnext, tprev, timeoutList>>
    /\ GoTo(t, "suspended")
    /\ UNCHANGED <<valid, owner, timerVars, tickVars, held>>

\* The call returns and its frame, with the entry in it, is gone
Return(t) ==
    /\ GoTo(t, "out")
    /\ psem' = [psem EXCEPT ![t] = NULL]
    /\ qnext' = [qnext EXCEPT ![t] = NULL]
    /\ qprev' = [qprev EXCEPT ![t] = NULL]
    /\ timeout' = [timeout EXCEPT ![t] = 0]
    /\ remaining' = [remaining EXCEPT ![t] = 0]
    /\ UNCHANGED <<semVars, timerVars, tickVars>>

\* suspendTask() returned SEM_AQUIRED: stop the timeout
Aquired(t) ==
    /\ At(t, "SEM_AQUIRED")
    /\ IF timeout[t] > 0
       THEN /\ tnext' = [tnextWithout(t) EXCEPT ![t] = NULL]
            /\ tprev' = [tprevWithout(t) EXCEPT ![t] = NULL]
            /\ timeoutList' = listWithout(t)
       ELSE UNCHANGED <<tnext, tprev, timeoutList>>
    /\ held' = [held EXCEPT ![t] = @ \cup ({psem[t]} \ Signals)]
    /\ Return(t)

TimedOut(t) ==
    /\ At(t, "SEM_TIMEOUT")
    /\ tnext' = [tnext EXCEPT ![t] = NULL]
    /\ tprev' = [tprev EXCEPT ![t] = NULL]
    /\ Return(t)
    /\ UNCHANGED <<timeoutList, held>>

\* Faulty: resumes the first waiter but clears the owner
putSemaphoreOwnerless(s) ==
    /\ timerRunning /\ s \in valid
    /\ owner' = [owner EXCEPT ![s] = NULL]
    /\ IF qhead[s] # NULL
       THEN GoTo(qhead[s], "SEM_AQUIRED") /\ unqueue(qhead[s], NULL)
       ELSE UNCHANGED <<pc, qhead, qtail, qnext, qprev>>
    /\ UNCHANGED <<valid, psem, timeVars, remaining, timerVars, tickVars>>

\* Faulty: frees the semaphore whether or not tasks wait
putSemaphoreFree(s) ==
    /\ timerRunning /\ s \in valid
    /\ owner' = [owner EXCEPT ![s] = NULL]
    /\ UNCHANGED <<pc, qhead, qtail, qnext, qprev>>
    /\ UNCHANGED <<valid, psem, timeVars, remaining, timerVars, tickVars>>

putSemaphore(s) ==
    /\ timerRunning /\ s \in valid
    /\ IF qhead[s] # NULL
       THEN /\ owner' = [owner EXCEPT ![s] = qhead[s]]
            /\ GoTo(qhead[s], "SEM_AQUIRED")
            /\ unqueue(qhead[s], NULL)
       ELSE /\ owner' = [owner EXCEPT ![s] = NULL]
            /\ UNCHANGED <<pc, qhead, qtail, qnext, qprev>>
    /\ UNCHANGED <<valid, psem, timeVars, remaining, timerVars, tickVars>>

Put(t, s) ==
    /\ At(t, "out") /\ s \in held[t]
    /\ putSemaphore(s)
    /\ held' = [held EXCEPT ![t] = @ \ {s}]

\* Any task may put a signal: its waiter is told that something is done
Signal(t, s) == s \in Signals /\ At(t, "out") /\ putSemaphore(s) /\ UNCHANGED held

-----------------------------------------------------------------------------
(* The clock interrupt runs _semaphoreTimer() once per timer, with         *)
(* interrupts off throughout its loop; each timer is started again.        *)

clockTick ==
    /\ firing = 0 /\ timers > 0
    /\ firing' = timers
    /\ UNCHANGED <<semVars, entryVars, timeVars, remaining, timerVars, walking, next, taskVars>>

TimerCall ==
    /\ firing > 0 /\ ~walking
    /\ walking' = TRUE /\ next' = timeoutList
    /\ UNCHANGED <<semVars, entryVars, timeVars, remaining, timerVars, firing, taskVars>>

Visits(e) ==
    /\ walking /\ e = next
    /\ remaining' = [remaining EXCEPT ![e] = IF @ > 0 THEN @ - 1 ELSE 0]
    /\ next' = tnext[e]
    /\ UNCHANGED <<valid, owner, psem, timeout, timerVars, firing, walking, held>>

\* The time is not up
CountDown(e) ==
    /\ Visits(e) /\ remaining[e] > 1
    /\ UNCHANGED <<qhead, qtail, qnext, qprev, tnext, tprev, timeoutList, pc>>

\* It is, but the semaphore was handed over: resumeTask() fails
TooLate(e) ==
    /\ Visits(e) /\ remaining[e] <= 1 /\ pc[e] # "suspended"
    /\ UNCHANGED <<qhead, qtail, qnext, qprev, tnext, tprev, timeoutList, pc>>

TimeOut(e) ==
    /\ Visits(e) /\ remaining[e] <= 1 /\ pc[e] = "suspended"
    /\ GoTo(e, "SEM_TIMEOUT")
    /\ tnext' = tnextWithout(e) /\ tprev' = tprevWithout(e)
    /\ timeoutList' = listWithout(e)
    /\ unqueue(e, qprev[e])

TimerDone ==
    /\ walking /\ next = NULL
    /\ walking' = FALSE /\ firing' = firing - 1
    /\ UNCHANGED <<semVars, entryVars, timeVars, remaining, timerVars, next, taskVars>>

-----------------------------------------------------------------------------
TaskStep(t) ==
    \/ StartTimer(t) \/ RunTimer(t) \/ Aquired(t) \/ TimedOut(t)
    \/ \E s \in Sems : \/ initSemaphore(t, s) \/ getSemaphore(t, s)
                       \/ Put(t, s) \/ Signal(t, s)
                       \/ \E n \in Timeouts \cup {NOTIMEOUT} : Wait(t, s, n)

Clock == \/ clockTick \/ TimerCall \/ TimerDone
         \/ \E e \in Tasks : CountDown(e) \/ TooLate(e) \/ TimeOut(e)

Next == (\E t \in Tasks : TaskStep(t)) \/ Clock

Spec == Init /\ [][Next]_vars

\* Fairness: the clock ticks and its handler ends; a task that was resumed
\* runs, and puts back what it holds.
Progress(t) == Aquired(t) \/ TimedOut(t) \/ \E s \in Sems : Put(t, s)

Fairness == WF_vars(Clock) /\ \A t \in Tasks : SF_vars(Progress(t))

FairSpec == Spec /\ Fairness
-----------------------------------------------------------------------------
TypeOK ==
    /\ valid \subseteq Sems
    /\ owner \in [Sems -> Ptr] /\ qhead \in [Sems -> Ptr] /\ qtail \in [Sems -> Ptr]
    /\ qnext \in [Tasks -> Ptr] /\ qprev \in [Tasks -> Ptr]
    /\ tnext \in [Tasks -> Ptr] /\ tprev \in [Tasks -> Ptr]
    /\ psem \in [Tasks -> Sems \cup {NULL}]
    /\ timeout \in [Tasks -> Int] /\ remaining \in [Tasks -> Nat]
    /\ timeoutList \in Ptr
    /\ timerRunning \in BOOLEAN /\ timers \in Nat
    /\ firing \in Nat /\ walking \in BOOLEAN /\ next \in Ptr
    /\ pc \in [Tasks -> {"out", "starting", "suspended", "SEM_AQUIRED", "SEM_TIMEOUT"}]
    /\ held \in [Tasks -> SUBSET Sems]

Mutexes == Sems \ Signals

\* A lock is never left with an owner that does not know of it: its
\* owner got it, or has been resumed to be told so.  A wait that timed out
\* just before the hand-over is not made owner.
OwnerKnows ==
    \A s \in Mutexes : owner[s] # NULL =>
        s \in held[owner[s]] \/ (pc[owner[s]] = "SEM_AQUIRED" /\ psem[owner[s]] = s)

\* getSemaphore() returns 0 to one task at a time: a task that got a
\* semaphore and has not put it back is its owner, and the only one; and a
\* lock is never owned by a task that timed out.
MutualExclusion ==
    /\ \A t \in Tasks : \A s \in held[t] :
            owner[s] = t /\ \A u \in Tasks \ {t} : s \notin held[u]
    /\ OwnerKnows

\* Nobody waits for a free semaphore.
WaitersBlocked == \A t \in Tasks : pc[t] = "suspended" => owner[psem[t]] # NULL

\* A semaphore is passed on, from one owner to one waiter, and never left free
\* with a task waiting for it.
LocksPassed == MutualExclusion /\ WaitersBlocked

\* The i-th entry from e along the links
Chain(e, links) ==
    LET w[i \in 0..Cardinality(Tasks)] ==
          IF i = 0 THEN e ELSE IF w[i-1] = NULL THEN NULL ELSE links[w[i-1]]
        n == Cardinality({i \in DOMAIN w : w[i] # NULL})
    IN  [i \in 1..n |-> w[i-1]]

Entries(chain) == {chain[i] : i \in DOMAIN chain}

\* The links agree in both directions and no entry is on the list twice.
Linked(chain, back) ==
    /\ Cardinality(Entries(chain)) = Len(chain)
    /\ \A i \in DOMAIN chain : back[chain[i]] = IF i = 1 THEN NULL ELSE chain[i-1]

Queue(s) == Chain(qhead[s], qnext)

\* The queue of a semaphore holds exactly the tasks suspended for it: no
\* waiter is forgotten, and no entry stays when its stack frame is gone.
QueueSound ==
    \A s \in valid :
        /\ Linked(Queue(s), qprev)
        /\ qtail[s] = IF Queue(s) = <<>> THEN NULL ELSE Queue(s)[Len(Queue(s))]
        /\ Entries(Queue(s)) = {t \in Tasks : pc[t] = "suspended" /\ psem[t] = s}

\* timeoutList holds exactly the waits with a timeout that have not returned
\* or timed out, also those handed the semaphore that did not run yet.
TimeoutListSound ==
    /\ Linked(Chain(timeoutList, tnext), tprev)
    /\ Entries(Chain(timeoutList, tnext)) =
         {t \in Tasks : pc[t] \in {"suspended", "SEM_AQUIRED"} /\ timeout[t] > 0}

\* The two lists through one set of entries, whichever way a wait ends.
ListsSound == QueueSound /\ TimeoutListSound

\* First come first served, from two lists that hand-overs and timeouts edit
\* at any entry: every semaphore is an owner and a line.
Abs == INSTANCE SemaphoreAbs
         WITH holder <- owner, line <- [s \in Sems |-> Queue(s)]
FirstComeFirstServed == Abs!Spec

\* Every waiter comes back, with the semaphore or a timeout, if those that
\* hold it put it back.
WaitReturns == \A t \in Tasks : pc[t] = "suspended" ~> pc[t] = "out"
=============================================================================
