-------------------------------- MODULE Task --------------------------------
(***************************************************************************)
(* The task scheduler of litetask: kernel/task.c with the processor and    *)
(* interrupt glue it depends on (kernel/taskglue.asm, kernel/intglue.asm). *)
(*                                                                         *)
(* There is one processor.  A task moves only while it is currentTask; the *)
(* clock interrupt and device interrupts strike between any two of its     *)
(* steps.  Code between lockInts() and unlockInts() is one action.  The    *)
(* program points at which an interrupt can fall and matter are kept:      *)
(*   pc = "user"        in the task's own code, about to call the kernel   *)
(*   pc = "queued"      in delayTask() between unlockInts() and            *)
(*                      suspendTask(): on delQueue, still RUNNING          *)
(*   pc = "suspending"  SUSPENDED, not yet inside schedule()               *)
(*   pc = "yield"       in yieldTask(), not yet inside schedule()          *)
(*   cpu # <<>>         schedule() has returned the next task's context,   *)
(*                      the stack pointer is still on another stack        *)
(***************************************************************************)
EXTENDS Integers, Sequences, FiniteSets

CONSTANTS
    Tasks,              \* task handles (addresses of taskInfo_t blocks)
    Main, Idle,         \* the two tasks startScheduler() makes
    NULL,               \* the null pointer
    Calls,              \* the kernel calls the application makes
    PreEmptive,         \* setPreEmptive() is on: the clock may reschedule
    InterruptWindows,   \* interrupts may strike in the two suspend windows
    MaxDelay,           \* bound: longest delayTask(), in ticks
    MaxLock             \* bound: deepest nesting of lockTask()

AllCalls == {"new", "exit", "delete", "wait", "suspend", "resume", "delay",
             "lock", "quit", "interruptResume", "deleteDelayed"}

ASSUME TasksAssumption == /\ IsFiniteSet(Tasks)
                          /\ Main \in Tasks /\ Idle \in Tasks /\ Main # Idle
                          /\ NULL \notin Tasks
ASSUME CallsAssumption == /\ Calls \subseteq AllCalls
                          /\ PreEmptive \in BOOLEAN
                          /\ InterruptWindows \in BOOLEAN
ASSUME BoundsAssumption == MaxDelay \in Nat /\ MaxLock \in Nat

VARIABLES
    currentTask,    \* the running task
    queues,         \* runQueue, delQueue and the links they share
    taskState,      \* per task: subset of {"SUSPENDED","EXITING"}; {} = RUNNING
    extra,          \* per task: ticks left to sleep, else a status
    alive,          \* the handles whose magic is valid
    nTasks,         \* number of tasks that have not exited
    taskLocked,     \* scheduler lock depth
    quitSig,        \* quitScheduler() was called
    exitCode,       \* what ended the scheduler, "none" while it runs
    context,        \* per task: the stacks its saved context unwinds through
    cpu,            \* the stacks the processor has still to unwind through
    pc,             \* per task: program point
    waitingFor,     \* per task: the handle its waitTask() polls
    lockFlags,      \* per task: the flags lockTask() gave it, not yet put back
    parent,         \* per task: the task that holds its handle
    inTimer,        \* the clock interrupt is running taskTimer()
    qEntry          \* taskTimer()'s cursor on delQueue

taskVars  == <<taskState, extra, alive, nTasks>>
lockVars  == <<taskLocked, lockFlags>>
cpuVars   == <<currentTask, context, cpu>>
callVars  == <<pc, waitingFor, parent>>
timerVars == <<inTimer, qEntry>>
exitVars  == <<quitSig, exitCode>>
vars == <<queues, taskVars, lockVars, cpuVars, callVars, timerVars, exitVars>>

-----------------------------------------------------------------------------
(* The queues: head and tail pointers, and one pair of links per task that *)
(* runQueue and delQueue share.                                            *)

Ptr == Tasks \cup {NULL}

\* Faulty: queues at the front, as a stack would
enqueueFirst(q, Q, t) ==
    LET first == q[Q].head
        linked == [q.prev EXCEPT ![t] = NULL]
    IN  [q EXCEPT !.next[t] = first,
                  !.prev = IF first # NULL THEN [linked EXCEPT ![first] = t] ELSE linked,
                  ![Q] = [head |-> t, tail |-> IF first # NULL THEN q[Q].tail ELSE t]]

enqueue(q, Q, t) ==
    LET last == q[Q].tail
        linked == IF last # NULL THEN [q.next EXCEPT ![t] = NULL, ![last] = t]
                                 ELSE [q.next EXCEPT ![t] = NULL]
    IN  [q EXCEPT !.next = linked,
                  !.prev[t] = last,
                  ![Q] = [head |-> IF last # NULL THEN q[Q].head ELSE t,
                          tail |-> t]]

dequeue(q, Q, t) ==
    LET before == q.prev[t]
        after  == q.next[t]
    IN  [q EXCEPT !.next = IF before # NULL THEN [@ EXCEPT ![before] = after] ELSE @,
                  !.prev = IF after # NULL THEN [@ EXCEPT ![after] = before] ELSE @,
                  ![Q] = [head |-> IF before # NULL THEN q[Q].head ELSE after,
                          tail |-> IF after # NULL THEN q[Q].tail ELSE before]]

\* schedule() unlinks the head without clearing the links of the task it takes
takeHead(q) ==
    LET after == q.next[q.runQueue.head]
    IN  [q EXCEPT !.prev = IF after # NULL THEN [@ EXCEPT ![after] = NULL] ELSE @,
                  !.runQueue = [head |-> after,
                                tail |-> IF after # NULL THEN @.tail ELSE NULL]]

\* The i-th task from the head of queue Q, along the next pointers
Walk(q, Q) ==
    LET w[i \in 0..Cardinality(Tasks)] ==
          IF i = 0 THEN q[Q].head
          ELSE LET t == w[i-1] IN IF t = NULL THEN NULL ELSE q.next[t]
    IN  w

Members(q, Q) == LET w == Walk(q, Q) IN {w[i] : i \in DOMAIN w} \ {NULL}
Length(q, Q) == LET w == Walk(q, Q) IN Cardinality({i \in DOMAIN w : w[i] # NULL})
AsSequence(q, Q) == LET w == Walk(q, Q) IN [i \in 1..Length(q, Q) |-> w[i-1]]

-----------------------------------------------------------------------------
Init ==
    /\ currentTask = Main
    /\ queues = [next |-> [t \in Tasks |-> NULL], prev |-> [t \in Tasks |-> NULL],
                 runQueue |-> [head |-> NULL, tail |-> NULL],
                 delQueue |-> [head |-> NULL, tail |-> NULL]]
    /\ taskState = [t \in Tasks |-> {}]
    /\ extra = [t \in Tasks |-> 0]
    /\ alive = {Main, Idle}
    /\ nTasks = 2
    /\ taskLocked = 0
    /\ lockFlags = [t \in Tasks |-> <<>>]
    /\ quitSig = FALSE /\ exitCode = "none"
    /\ context = [t \in Tasks |-> <<>>] /\ cpu = <<>>
    /\ pc = [t \in Tasks |-> "user"]
    /\ waitingFor = [t \in Tasks |-> NULL]
    /\ parent = [t \in Tasks |-> NULL]
    /\ inTimer = FALSE /\ qEntry = NULL

\* The processor has loaded a context whose stack was reused: anything follows
Wild == cpu # <<>> /\ Head(cpu) = NULL

Live == exitCode = "none" /\ ~Wild

\* Task t executes its own code, outside any interrupt handler
Running(t) == Live /\ ~inTimer /\ cpu = <<>> /\ currentTask = t

InUser(t) == Running(t) /\ pc[t] = "user" /\ waitingFor[t] = NULL

GoTo(t, point) == pc' = [pc EXCEPT ![t] = point]

-----------------------------------------------------------------------------
(* The scheduler.  A context is the sequence of stacks the processor still *)
(* has to unwind before the task is back in its own code: <<>> for the     *)
(* frame a task saves by calling the scheduler or being interrupted in its *)
(* own code.  When a task gets back into its own code the frames others    *)
(* left below it on its stack are overwritten (NULL).                      *)

\* The frames beyond a lost one cannot be reached
CutAt(stacks, t) ==
    IF \E i \in 1..Len(stacks) : stacks[i] = t
    THEN LET i == CHOOSE i \in 1..Len(stacks) : stacks[i] = t
         IN  Append(SubSeq(stacks, 1, i - 1), NULL)
    ELSE stacks

Overwrite(ctx, t) == [u \in Tasks |-> IF u = t THEN <<>> ELSE CutAt(ctx[u], t)]

Load(stacks, ctx, t) ==
    /\ cpu' = stacks
    /\ context' = IF stacks = <<>> THEN Overwrite(ctx, t)
                  ELSE [ctx EXCEPT ![t] = <<>>]

\* schedule() called with `saved` as the old context, on the stacks `above`.
\* inScheduler is set only inside the locked block and on the way out.
LockedOut == taskLocked # 0 /\ UNCHANGED <<queues, cpuVars, exitVars>>

Quit ==
    /\ taskLocked = 0
    /\ \/ quitSig /\ exitCode' = "quitSig"
       \/ ~quitSig /\ nTasks < 2 /\ exitCode' = "NO_TASKS"
    /\ UNCHANGED <<queues, cpuVars, quitSig>>

\* Faulty: requeues whoever was running
RequeuedAlways ==
    IF currentTask # Idle THEN enqueue(queues, "runQueue", currentTask) ELSE queues

\* Faulty: does not requeue a task that can go on
RequeuedNever == queues

Requeued ==
    IF currentTask # Idle /\ taskState[currentTask] = {}
    THEN enqueue(queues, "runQueue", currentTask) ELSE queues

\* Faulty: ignores the task lock
SwitchLocked(saved, above) ==
    /\ ~quitSig /\ nTasks >= 2
    /\ IF Requeued.runQueue.head # NULL
       THEN /\ currentTask' = Requeued.runQueue.head
            /\ queues' = takeHead(Requeued)
       ELSE currentTask' = Idle /\ queues' = Requeued
    /\ LET ctx == [context EXCEPT ![currentTask] = saved]
       IN  Load(above \o ctx[currentTask'], ctx, currentTask')
    /\ UNCHANGED exitVars

Switch(saved, above) ==
    /\ taskLocked = 0 /\ ~quitSig /\ nTasks >= 2
    /\ IF Requeued.runQueue.head # NULL
       THEN /\ currentTask' = Requeued.runQueue.head
            /\ queues' = takeHead(Requeued)
       ELSE currentTask' = Idle /\ queues' = Requeued
    /\ LET ctx == [context EXCEPT ![currentTask] = saved]
       IN  Load(above \o ctx[currentTask'], ctx, currentTask')
    /\ UNCHANGED exitVars

schedule(saved, above) == LockedOut \/ Quit \/ Switch(saved, above)

\* yieldTask()'s call of scheduleEntry(); the task comes back in its own code
Enter(t) ==
    /\ Running(t) /\ pc[t] \in {"yield", "suspending"}
    /\ schedule(<<>>, <<t>>)
    /\ GoTo(t, "user")
    /\ UNCHANGED <<taskVars, lockVars, waitingFor, parent, timerVars>>

\* schedExit: MOV SS:SP, restore the registers, IRET
SwitchStack ==
    /\ Live /\ ~inTimer /\ cpu # <<>>
    /\ Load(Tail(cpu), context, currentTask)
    /\ UNCHANGED <<currentTask, queues, taskVars, lockVars, callVars, timerVars, exitVars>>

-----------------------------------------------------------------------------
(* The calls of a task.                                                    *)

\* Task t calls c; the idle task only yields ("must never suspend itself")
Call(t, c) == c \in Calls /\ t # Idle /\ InUser(t)

\* yieldTask() up to scheduleEntry(): drops the interrupt and scheduler locks
yieldTask(t, point) == taskLocked' = 0 /\ GoTo(t, point)

Yield(t) ==
    /\ InUser(t)
    /\ yieldTask(t, "yield")
    /\ UNCHANGED <<queues, taskVars, lockFlags, cpuVars, waitingFor, parent, timerVars, exitVars>>

newTask(t, n) ==
    /\ Call(t, "new") /\ n \notin alive
    /\ alive' = alive \cup {n}
    /\ taskState' = [taskState EXCEPT ![n] = {}]
    /\ extra' = [extra EXCEPT ![n] = 0]
    /\ queues' = enqueue(queues, "runQueue", n)
    /\ nTasks' = nTasks + 1
    /\ context' = [context EXCEPT ![n] = <<>>]
    /\ parent' = [parent EXCEPT ![n] = t]
    /\ UNCHANGED <<lockVars, currentTask, cpu, pc, waitingFor, timerVars, exitVars>>

\* Faulty: forgets nTasks--
taskExitUncounted(t) ==
    /\ Call(t, "exit")
    /\ taskState' = [taskState EXCEPT ![t] = {"EXITING"}]
    /\ extra' = [extra EXCEPT ![t] = 0]
    /\ yieldTask(t, "yield")
    /\ UNCHANGED <<queues, alive, nTasks, lockFlags, cpuVars, waitingFor, parent, timerVars, exitVars>>

taskExit(t) ==
    /\ Call(t, "exit")
    /\ taskState' = [taskState EXCEPT ![t] = {"EXITING"}]
    /\ extra' = [extra EXCEPT ![t] = 0]
    /\ nTasks' = nTasks - 1
    /\ yieldTask(t, "yield")
    /\ UNCHANGED <<queues, alive, lockFlags, cpuVars, waitingFor, parent, timerVars, exitVars>>

\* Faulty: leaves a task that can run on runQueue
DiscardLinked(n) ==
    /\ UNCHANGED queues
    /\ nTasks' = IF "EXITING" \in taskState[n] THEN nTasks ELSE nTasks - 1
    /\ alive' = alive \ {n}
    /\ context' = [Overwrite(context, n) EXCEPT ![n] = <<NULL>>]
    /\ GoTo(n, "user")
    /\ lockFlags' = [lockFlags EXCEPT ![n] = <<>>]
    /\ parent' = [u \in Tasks |-> IF u = n \/ parent[u] = n THEN NULL ELSE parent[u]]
    /\ UNCHANGED <<taskState, extra, taskLocked, currentTask, cpu, timerVars, exitVars>>

\* The body of deleteTask(): what it frees can be handed out again at once
Discard(n) ==
    /\ queues' = IF taskState[n] = {} THEN dequeue(queues, "runQueue", n) ELSE queues
    /\ nTasks' = IF "EXITING" \in taskState[n] THEN nTasks ELSE nTasks - 1
    /\ alive' = alive \ {n}
    /\ context' = [Overwrite(context, n) EXCEPT ![n] = <<NULL>>]
    /\ GoTo(n, "user")
    /\ lockFlags' = [lockFlags EXCEPT ![n] = <<>>]
    /\ parent' = [u \in Tasks |-> IF u = n \/ parent[u] = n THEN NULL ELSE parent[u]]
    /\ UNCHANGED <<taskState, extra, taskLocked, currentTask, cpu, timerVars, exitVars>>

\* A handle is used by the task that made it, and only until it is deleted
deleteTask(t, n) ==
    /\ Call(t, "delete") /\ n # t /\ n \in alive /\ parent[n] = t
    /\ "deleteDelayed" \in Calls \/ n \notin Members(queues, "delQueue")
    /\ Discard(n)
    /\ waitingFor' = [waitingFor EXCEPT ![n] = NULL]

waitTask(t, n) ==
    /\ Call(t, "wait") /\ n # t /\ n \in alive /\ parent[n] = t
    /\ waitingFor' = [waitingFor EXCEPT ![t] = n]
    /\ UNCHANGED <<queues, taskVars, lockVars, cpuVars, pc, parent, timerVars, exitVars>>

Polling(t) == Running(t) /\ pc[t] = "user" /\ waitingFor[t] # NULL

\* waitTask()'s loop: poll and yield, or collect the status and delete
WaitPoll(t) ==
    /\ Polling(t) /\ "EXITING" \notin taskState[waitingFor[t]]
    /\ yieldTask(t, "yield")
    /\ UNCHANGED <<queues, taskVars, lockFlags, cpuVars, waitingFor, parent, timerVars, exitVars>>

\* Faulty: tests the wrong state bit
WaitCollectSuspended(t) ==
    /\ Polling(t) /\ "SUSPENDED" \in taskState[waitingFor[t]]
    /\ Discard(waitingFor[t])
    /\ waitingFor' = [waitingFor EXCEPT ![t] = NULL, ![waitingFor[t]] = NULL]

WaitCollect(t) ==
    /\ Polling(t) /\ "EXITING" \in taskState[waitingFor[t]]
    /\ Discard(waitingFor[t])
    /\ waitingFor' = [waitingFor EXCEPT ![t] = NULL, ![waitingFor[t]] = NULL]

WaitTimeOut(t) ==
    /\ Polling(t) /\ "EXITING" \notin taskState[waitingFor[t]]
    /\ waitingFor' = [waitingFor EXCEPT ![t] = NULL]
    /\ UNCHANGED <<queues, taskVars, lockVars, cpuVars, pc, parent, timerVars, exitVars>>

\* Faulty: returns ++taskLocked
lockTaskPre(t) ==
    /\ Call(t, "lock") /\ Len(lockFlags[t]) < MaxLock
    /\ taskLocked' = taskLocked + 1
    /\ lockFlags' = [lockFlags EXCEPT ![t] = Append(@, taskLocked + 1)]
    /\ UNCHANGED <<queues, taskVars, cpuVars, callVars, timerVars, exitVars>>

lockTask(t) ==
    /\ Call(t, "lock") /\ Len(lockFlags[t]) < MaxLock
    /\ taskLocked' = taskLocked + 1
    /\ lockFlags' = [lockFlags EXCEPT ![t] = Append(@, taskLocked)]
    /\ UNCHANGED <<queues, taskVars, cpuVars, callVars, timerVars, exitVars>>

\* unlockTask() is given back the flags in the reverse order
unlockTask(t) ==
    /\ Call(t, "lock") /\ lockFlags[t] # <<>>
    /\ taskLocked' = lockFlags[t][Len(lockFlags[t])]
    /\ lockFlags' = [lockFlags EXCEPT ![t] = SubSeq(@, 1, Len(@) - 1)]
    /\ UNCHANGED <<queues, taskVars, cpuVars, callVars, timerVars, exitVars>>

suspendTask(t) ==
    /\ taskState' = [taskState EXCEPT ![t] = @ \cup {"SUSPENDED"}]
    /\ yieldTask(t, "suspending")
    /\ UNCHANGED <<alive, nTasks, lockFlags, cpuVars, waitingFor, parent, timerVars, exitVars>>

Suspend(t) == Call(t, "suspend") /\ suspendTask(t) /\ UNCHANGED <<queues, extra>>

\* delayTask() in two steps: on delQueue with interrupts enabled again, ...
delayTask(t, ticks) ==
    /\ Call(t, "delay")
    /\ extra' = [extra EXCEPT ![t] = ticks]
    /\ queues' = enqueue(queues, "delQueue", t)
    /\ GoTo(t, "queued")
    /\ UNCHANGED <<taskState, alive, nTasks, lockVars, cpuVars, waitingFor, parent, timerVars, exitVars>>

\* ... then suspendTask()
DelaySuspend(t) ==
    /\ Running(t) /\ pc[t] = "queued"
    /\ suspendTask(t) /\ UNCHANGED <<queues, extra>>

\* Faulty: clears SUSPENDED without queueing the task
resumeTaskUnqueued(q, n) ==
    IF n \in alive /\ "SUSPENDED" \in taskState[n]
    THEN taskState' = [taskState EXCEPT ![n] = @ \ {"SUSPENDED"}] /\ queues' = q
    ELSE UNCHANGED taskState /\ queues' = q

\* resumeTask(), the queues being q; a task that is not SUSPENDED is refused
resumeTask(q, n) ==
    IF n \in alive /\ "SUSPENDED" \in taskState[n]
    THEN /\ taskState' = [taskState EXCEPT ![n] = @ \ {"SUSPENDED"}]
         /\ queues' = enqueue(q, "runQueue", n)
    ELSE UNCHANGED taskState /\ queues' = q

\* Tasks that suspended themselves, not those in delayTask(), are resumed
Resumable(n) == /\ n \in alive /\ "SUSPENDED" \in taskState[n]
                /\ n \notin Members(queues, "delQueue")

Resume(t, n) ==
    /\ Call(t, "resume") /\ Resumable(n)
    /\ resumeTask(queues, n)
    /\ extra' = [extra EXCEPT ![n] = 0]
    /\ UNCHANGED <<alive, nTasks, lockVars, cpuVars, callVars, timerVars, exitVars>>

quitScheduler(t) ==
    /\ Call(t, "quit")
    /\ quitSig' = TRUE
    /\ yieldTask(t, "yield")
    /\ UNCHANGED <<queues, taskVars, lockFlags, cpuVars, waitingFor, parent, timerVars, exitCode>>

-----------------------------------------------------------------------------
(* Interrupts.                                                             *)

InWindow == cpu = <<>> /\ pc[currentTask] \in {"queued", "suspending"}

Interruptible == Live /\ ~inTimer /\ (InterruptWindows \/ ~InWindow)

\* The clock: clockTick() runs delayTimer's function every tick
taskTimer ==
    /\ Interruptible
    /\ inTimer' = TRUE
    /\ qEntry' = queues.delQueue.head
    /\ UNCHANGED <<queues, taskVars, lockVars, cpuVars, callVars, exitVars>>

\* taskTimer()'s loop, one entry per step; the loop holds interrupts off
TimerSleep ==
    /\ Live /\ inTimer /\ qEntry # NULL /\ extra[qEntry] - 1 > 0
    /\ extra' = [extra EXCEPT ![qEntry] = @ - 1]
    /\ qEntry' = queues.next[qEntry]
    /\ UNCHANGED <<queues, taskState, alive, nTasks, lockVars, cpuVars, callVars, inTimer, exitVars>>

\* Faulty: wakes a tick early
TimerWakeEarly ==
    /\ Live /\ inTimer /\ qEntry # NULL /\ extra[qEntry] - 1 <= 1
    /\ extra' = [extra EXCEPT ![qEntry] = @ - 1]
    /\ qEntry' = queues.next[qEntry]
    /\ resumeTask(dequeue(queues, "delQueue", qEntry), qEntry)
    /\ UNCHANGED <<alive, nTasks, lockVars, cpuVars, callVars, inTimer, exitVars>>

\* Faulty: resumes without taking the task off delQueue
TimerWakeLinked ==
    /\ Live /\ inTimer /\ qEntry # NULL /\ extra[qEntry] - 1 <= 0
    /\ extra' = [extra EXCEPT ![qEntry] = @ - 1]
    /\ qEntry' = queues.next[qEntry]
    /\ resumeTask(queues, qEntry)
    /\ UNCHANGED <<alive, nTasks, lockVars, cpuVars, callVars, inTimer, exitVars>>

TimerWake ==
    /\ Live /\ inTimer /\ qEntry # NULL /\ extra[qEntry] - 1 <= 0
    /\ extra' = [extra EXCEPT ![qEntry] = @ - 1]
    /\ qEntry' = queues.next[qEntry]
    /\ resumeTask(dequeue(queues, "delQueue", qEntry), qEntry)
    /\ UNCHANGED <<alive, nTasks, lockVars, cpuVars, callVars, inTimer, exitVars>>

\* clockTick() returns; the interrupt glue calls schedule() if told to, with
\* the interrupted context, and loads what it returns from its own stack
TimerReturn ==
    /\ Live /\ inTimer /\ qEntry = NULL
    /\ inTimer' = FALSE
    /\ UNCHANGED <<taskVars, lockVars, callVars, qEntry, queues, cpuVars, exitVars>>

TimerPreempt ==
    /\ PreEmptive
    /\ Live /\ inTimer /\ qEntry = NULL
    /\ inTimer' = FALSE
    /\ schedule(cpu, <<>>)
    /\ UNCHANGED <<taskVars, lockVars, callVars, qEntry>>

\* A driver's interrupt handler resumes the task that waits for it
InterruptResume(n) ==
    /\ "interruptResume" \in Calls /\ Interruptible /\ Resumable(n)
    /\ resumeTask(queues, n)
    /\ extra' = [extra EXCEPT ![n] = 0]
    /\ UNCHANGED <<alive, nTasks, lockVars, cpuVars, callVars, timerVars, exitVars>>

-----------------------------------------------------------------------------
Terminated == ~Live /\ UNCHANGED vars

TaskStep(t) ==
    \/ Yield(t) \/ Enter(t) \/ taskExit(t) \/ Suspend(t) \/ DelaySuspend(t)
    \/ WaitPoll(t) \/ WaitCollect(t) \/ WaitTimeOut(t)
    \/ lockTask(t) \/ unlockTask(t) \/ quitScheduler(t)
    \/ \E n \in Tasks : \/ newTask(t, n) \/ deleteTask(t, n)
                        \/ waitTask(t, n) \/ Resume(t, n)
    \/ \E d \in 0..MaxDelay : delayTask(t, d)

Interrupt == \/ taskTimer \/ TimerSleep \/ TimerWake \/ TimerReturn \/ TimerPreempt
             \/ \E n \in Tasks : InterruptResume(n)

Next == (\E t \in Tasks : TaskStep(t)) \/ SwitchStack \/ Interrupt \/ Terminated

Spec == Init /\ [][Next]_vars

-----------------------------------------------------------------------------
(* Fairness: the processor runs; a task in its own code comes back to the  *)
(* scheduler (interrupts are finite, tasks of a cooperative system yield); *)
(* the clock ticks.                                                        *)

Progress(t) == Yield(t) \/ WaitPoll(t) \/ WaitCollect(t) \/ DelaySuspend(t)

Fairness ==
    /\ \A t \in Tasks : SF_vars(Progress(t)) /\ SF_vars(Enter(t))
    /\ SF_vars(SwitchStack)
    /\ SF_vars(taskTimer)
    /\ WF_vars(TimerSleep \/ TimerWake \/ TimerReturn)

FairSpec == Spec /\ Fairness

-----------------------------------------------------------------------------
Pointers == [Tasks -> Ptr]
Ends == [head : Ptr, tail : Ptr]

TypeOK ==
    /\ currentTask \in Tasks
    /\ queues \in [next : Pointers, prev : Pointers, runQueue : Ends, delQueue : Ends]
    /\ taskState \in [Tasks -> SUBSET {"SUSPENDED", "EXITING"}]
    /\ extra \in [Tasks -> Int]
    /\ alive \subseteq Tasks
    /\ nTasks \in Int
    /\ taskLocked \in Nat /\ lockFlags \in [Tasks -> Seq(Nat)]
    /\ quitSig \in BOOLEAN /\ exitCode \in {"none", "quitSig", "NO_TASKS"}
    /\ context \in [Tasks -> Seq(Ptr)] /\ cpu \in Seq(Ptr)
    /\ pc \in [Tasks -> {"user", "queued", "suspending", "yield"}]
    /\ waitingFor \in [Tasks -> Ptr] /\ parent \in [Tasks -> Ptr]
    /\ inTimer \in BOOLEAN /\ qEntry \in Ptr

\* A queue is a well-formed list: the links agree in both directions, it ends
\* at the tail and no task is on it twice.
WellFormed(q, Q) ==
    LET s == AsSequence(q, Q)
        n == Len(s)
    IN  /\ Cardinality(Members(q, Q)) = n
        /\ IF n = 0 THEN q[Q] = [head |-> NULL, tail |-> NULL]
           ELSE /\ q[Q].tail = s[n] /\ q.next[s[n]] = NULL
                /\ q.prev[s[1]] = NULL
                /\ \A i \in 2..n : q.prev[s[i]] = s[i-1]

Ready == {t \in alive \ {Idle, currentTask} : taskState[t] = {}}

\* No task is lost and none is run twice: runQueue is a sound list that holds
\* exactly the tasks able to run and not running.
RunQueueSound == /\ WellFormed(queues, "runQueue")
                 /\ Members(queues, "runQueue") = Ready

\* The part of it that says no task able to run is forgotten.
NoTaskLost == Ready \subseteq Members(queues, "runQueue")

\* delQueue is a sound list of live sleeping tasks, apart from the one that is
\* just going to sleep; whoever is on it will be woken by taskTimer().
DelQueueSound ==
    /\ WellFormed(queues, "delQueue")
    /\ \A t \in Members(queues, "delQueue") :
         /\ t \in alive
         /\ "SUSPENDED" \in taskState[t] \/ (t = currentTask /\ pc[t] = "queued")

\* nTasks, on which the decision to end the system rests, counts the tasks
\* that are live and have not exited.
CountInv == nTasks = Cardinality({t \in alive : "EXITING" \notin taskState[t]})

\* The scheduler is only locked by a lockTask() of the running task that it
\* has not paired with an unlockTask() yet: nobody inherits a lock.
LockInv == taskLocked <= Len(lockFlags[currentTask])

\* The running task is never a deleted one, and waits only for live ones.
HandlesLive == /\ currentTask \in alive
               /\ \A t \in alive : waitingFor[t] # NULL => waitingFor[t] \in alive

\* Deletion and exit, by whichever task: the count says when the system ends, and
\* nobody runs or waits for what is gone.
HandlesSound == CountInv /\ HandlesLive

\* The processor never loads a context that was overwritten or freed.
ContextSound == ~Wild

\* A locked scheduler keeps the task ("forces scheduler to run this task ONLY"),
\* and it is locked only as often as the task that runs has locked it.
LockSound == [][/\ taskLocked > 0 => currentTask' = currentTask
                /\ LockInv']_vars

\* The linked queues, their pops and their removals amount to a first come
\* first served line: no schedule(), resumeTask(), newTask() or deleteTask()
\* loses a task, repeats it or lets it jump the queue.
Turns == INSTANCE RoundRobin
           WITH running <- currentTask,
                line <- AsSequence(queues, "runQueue"),
                blocked <- {t \in alive : taskState[t] # {}}
RunsInTurn == Turns!Spec

\* Every task able to run gets the processor (or the system ends).
ReadyRuns == \A t \in Tasks \ {Idle} : t \in Ready ~> (currentTask = t \/ t \notin alive \/ ~Live)

\* "delays the current task for the specified number of clock ticks": a task
\* on delQueue gets back into its own code.
DelayEnds ==
    \A t \in Tasks \ {Idle} :
        t \in Members(queues, "delQueue") ~> ((Running(t) /\ pc[t] = "user") \/ t \notin alive \/ ~Live)

\* waitTask() picks up the task it waits for once that has exited.
WaitEnds ==
    \A t \in Tasks \ {Idle} :
        (waitingFor[t] # NULL /\ "EXITING" \in taskState[waitingFor[t]])
            ~> (waitingFor[t] = NULL \/ t \notin alive \/ ~Live)

=============================================================================
