----------------------------- MODULE TaskProofs -----------------------------
(***************************************************************************)
(* Proofs about Task, for every set of tasks, every choice of calls and    *)
(* both settings of preemption and of the interrupt windows: its types and *)
(* its lock; what is on runQueue and on delQueue, that the tasks run in    *)
(* turn, whose contexts are loaded, and how long delays last.              *)
(***************************************************************************)
EXTENDS TaskDelay, LinkedLists

Queues == [next : Pointers, prev : Pointers, runQueue : Ends, delQueue : Ends]

\* The queue operations return queues.
LEMMA EnqueueType ==
    ASSUME NEW q \in Queues, NEW t \in Tasks
    PROVE  enqueue(q, "runQueue", t) \in Queues /\ enqueue(q, "delQueue", t) \in Queues
  BY DEF Queues, Pointers, Ends, Ptr, enqueue

\* dequeue() keeps the type of the queues, ...
LEMMA DequeueType ==
    ASSUME NEW q \in Queues, NEW t \in Tasks
    PROVE  dequeue(q, "runQueue", t) \in Queues /\ dequeue(q, "delQueue", t) \in Queues
  BY DEF Queues, Pointers, Ends, Ptr, dequeue

\* ... and so does taking the head of one.
LEMMA TakeHeadType ==
    ASSUME NEW q \in Queues, q.runQueue.head # NULL
    PROVE  takeHead(q) \in Queues /\ q.runQueue.head \in Tasks
  BY DEF Queues, Pointers, Ends, Ptr, takeHead

\* A stack of flags without its last one.
LEMMA DropLast ==
    ASSUME NEW f \in Seq(Nat), f # <<>>
    PROVE  /\ Len(f) \in Nat \ {0} /\ f[Len(f)] \in Nat
           /\ SubSeq(f, 1, Len(f) - 1) \in Seq(Nat)
           /\ Len(SubSeq(f, 1, Len(f) - 1)) = Len(f) - 1
           /\ \A i \in 1..(Len(f) - 1) : SubSeq(f, 1, Len(f) - 1)[i] = f[i]
  <1> DEFINE n == Len(f) - 1
  <1>1. Len(f) \in Nat \ {0} /\ n \in Nat
    OBVIOUS
  <1>2. \A i \in 1..n : f[i] \in Nat
    BY <1>1
  <1> HIDE DEF n
  <1>3. /\ SubSeq(f, 1, n) \in Seq(Nat)
        /\ Len(SubSeq(f, 1, n)) = IF 1 <= n THEN n - 1 + 1 ELSE 0
        /\ \A i \in 1..(n - 1 + 1) : SubSeq(f, 1, n)[i] = f[1 + i - 1]
    BY <1>1, <1>2, SubSeqProperties
  <1>4. /\ Len(SubSeq(f, 1, n)) = n
        /\ \A i \in 1..n : SubSeq(f, 1, n)[i] = f[i]
    BY <1>1, <1>3
  <1> QED
    BY <1>1, <1>3, <1>4 DEF n

\* Contexts stay sequences of stacks when a stack is reused.
LEMMA OverwriteType ==
    ASSUME NEW ctx \in [Tasks -> Seq(Ptr)], NEW t \in Tasks
    PROVE  Overwrite(ctx, t) \in [Tasks -> Seq(Ptr)]
  <1>1. ASSUME NEW s \in Seq(Ptr) PROVE CutAt(s, t) \in Seq(Ptr)
    <2>1. CASE \E i \in 1..Len(s) : s[i] = t
      <3> DEFINE i == CHOOSE i \in 1..Len(s) : s[i] = t
      <3>1. i \in 1..Len(s)
        BY <2>1
      <3> HIDE DEF i
      <3>2. SubSeq(s, 1, i - 1) \in Seq(Ptr)
        <4>1. \A k \in 1..(i - 1) : s[k] \in Ptr
          BY <3>1
        <4> QED
          BY <3>1, <4>1, SubSeqProperties
      <3>3. Append(SubSeq(s, 1, i - 1), NULL) \in Seq(Ptr)
        BY <3>2 DEF Ptr
      <3>4. CutAt(s, t) = Append(SubSeq(s, 1, i - 1), NULL)
        BY <2>1 DEF CutAt, i
      <3> QED
        BY <3>3, <3>4
    <2>2. CASE ~\E i \in 1..Len(s) : s[i] = t
      BY <2>2 DEF CutAt
    <2> QED
      BY <2>1, <2>2
  <1>2. ASSUME NEW u \in Tasks PROVE CutAt(ctx[u], t) \in Seq(Ptr) /\ <<>> \in Seq(Ptr)
    BY <1>1
  <1> QED
    BY <1>2 DEF Overwrite

\* Loading a context keeps the types of the stacks and of the saved ones.
LEMMA LoadType ==
    ASSUME NEW stacks \in Seq(Ptr), NEW ctx \in [Tasks -> Seq(Ptr)], NEW t \in Tasks,
           Load(stacks, ctx, t)
    PROVE  cpu' \in Seq(Ptr) /\ context' \in [Tasks -> Seq(Ptr)]
  <1>1. cpu' \in Seq(Ptr)
    BY DEF Load
  <1>2. CASE stacks = <<>>
    BY <1>2, OverwriteType DEF Load
  <1>3. CASE stacks # <<>>
    <2>1. <<>> \in Seq(Ptr)
      OBVIOUS
    <2> QED
      BY <1>3, <2>1 DEF Load
  <1> QED
    BY <1>1, <1>2, <1>3

\* Whatever schedule() does, the processor state it leaves is well formed.
LEMMA ScheduleType ==
    ASSUME TypeOK, NEW saved \in Seq(Ptr), NEW above \in Seq(Ptr), schedule(saved, above)
    PROVE  /\ currentTask' \in Tasks /\ queues' \in Queues
           /\ cpu' \in Seq(Ptr) /\ context' \in [Tasks -> Seq(Ptr)]
           /\ quitSig' \in BOOLEAN /\ exitCode' \in {"none", "quitSig", "NO_TASKS"}
  <1>1. CASE LockedOut
    BY <1>1 DEF TypeOK, LockedOut, cpuVars, exitVars, Queues
  <1>2. CASE Quit
    BY <1>2 DEF TypeOK, Quit, cpuVars, Queues
  <1>3. CASE Switch(saved, above)
    <2>1. Requeued \in Queues
      BY EnqueueType DEF TypeOK, Requeued, Queues
    <2>2. currentTask' \in Tasks /\ queues' \in Queues
      BY <1>3, <2>1, TakeHeadType, TasksAssumption DEF Switch
    <2> DEFINE ctx == [context EXCEPT ![currentTask] = saved]
    <2>3. ctx \in [Tasks -> Seq(Ptr)]
      BY DEF TypeOK
    <2>4. above \o ctx[currentTask'] \in Seq(Ptr)
      BY <2>2, <2>3
    <2>5. Load(above \o ctx[currentTask'], ctx, currentTask')
      BY <1>3 DEF Switch
    <2>6. cpu' \in Seq(Ptr) /\ context' \in [Tasks -> Seq(Ptr)]
      <3> HIDE DEF ctx
      <3> QED BY <2>2, <2>3, <2>4, <2>5, LoadType
    <2>7. quitSig' \in BOOLEAN /\ exitCode' \in {"none", "quitSig", "NO_TASKS"}
      BY <1>3 DEF Switch, TypeOK, exitVars
    <2> QED
      BY <2>2, <2>6, <2>7
  <1> QED
    BY <1>1, <1>2, <1>3 DEF schedule

-----------------------------------------------------------------------------
(* Type correctness.                                                       *)

\* The types hold in the beginning.
LEMMA TypeInit == Init => TypeOK
  <1> SUFFICES ASSUME Init PROVE TypeOK
    OBVIOUS
  <1>1. <<>> \in Seq(Ptr) /\ <<>> \in Seq(Nat)
    OBVIOUS
  <1>2. queues \in Queues
    BY DEF Init, Queues, Pointers, Ends, Ptr
  <1>3. /\ lockFlags \in [Tasks -> Seq(Nat)] /\ context \in [Tasks -> Seq(Ptr)]
        /\ cpu \in Seq(Ptr)
    BY <1>1 DEF Init
  <1>4. /\ taskState \in [Tasks -> SUBSET {"SUSPENDED", "EXITING"}]
        /\ extra \in [Tasks -> Int] /\ waitingFor \in [Tasks -> Ptr] /\ parent \in [Tasks -> Ptr]
        /\ pc \in [Tasks -> {"user", "queued", "suspending", "yield"}] /\ qEntry \in Ptr
    BY DEF Init, Ptr
  <1>5. /\ currentTask \in Tasks /\ alive \subseteq Tasks /\ nTasks \in Int /\ taskLocked \in Nat
        /\ exitCode \in {"none", "quitSig", "NO_TASKS"}
    BY TasksAssumption DEF Init
  <1>6. quitSig \in BOOLEAN /\ inTimer \in BOOLEAN
    BY DEF Init
  <1> QED
    BY <1>2, <1>3, <1>4, <1>5, <1>6 DEF TypeOK, Queues

\* A step that leaves the processor, the queues and the calls alone.
USE DEF Queues

\* yieldTask() keeps the types, ...
LEMMA YieldType ==
    ASSUME TypeOK, NEW t \in Tasks, NEW p \in {"user", "queued", "suspending", "yield"},
           yieldTask(t, p)
    PROVE  taskLocked' \in Nat /\ pc' \in [Tasks -> {"user", "queued", "suspending", "yield"}]
  BY DEF TypeOK, yieldTask, GoTo

\* ... also as a step of its own.
LEMMA TypeYield ==
    ASSUME TypeOK, NEW t \in Tasks, Yield(t) \/ WaitPoll(t) PROVE TypeOK'
  <1>1. taskLocked' \in Nat /\ pc' \in [Tasks -> {"user", "queued", "suspending", "yield"}]
    <2>1. yieldTask(t, "yield")
      BY DEF Yield, WaitPoll
    <2> QED
      BY <2>1, YieldType
  <1>2. CASE Yield(t)
    BY <1>1, <1>2 DEF TypeOK, Yield, taskVars, cpuVars, timerVars, exitVars
  <1>3. CASE WaitPoll(t)
    BY <1>1, <1>3 DEF TypeOK, WaitPoll, taskVars, cpuVars, timerVars, exitVars
  <1> QED
    BY <1>2, <1>3

\* schedule(), when a task enters it, keeps the types.
LEMMA TypeEnter ==
    ASSUME TypeOK, NEW t \in Tasks, Enter(t) PROVE TypeOK'
  <1>1. <<>> \in Seq(Ptr) /\ <<t>> \in Seq(Ptr) /\ schedule(<<>>, <<t>>)
    BY DEF Enter, Ptr
  <1> QED
    BY <1>1, ScheduleType DEF TypeOK, Enter, GoTo, taskVars, lockVars, timerVars

\* The switch of the stack keeps the types.
LEMMA TypeSwitchStack == TypeOK /\ SwitchStack => TypeOK'
  <1> SUFFICES ASSUME TypeOK, SwitchStack PROVE TypeOK'
    OBVIOUS
  <1>1. Tail(cpu) \in Seq(Ptr) /\ Load(Tail(cpu), context, currentTask)
    BY HeadTailProperties DEF TypeOK, SwitchStack
  <1>2. cpu' \in Seq(Ptr) /\ context' \in [Tasks -> Seq(Ptr)]
    BY <1>1, LoadType DEF TypeOK
  <1> QED
    BY <1>2 DEF TypeOK, SwitchStack, taskVars, lockVars, callVars, timerVars, exitVars

\* newTask() keeps the types.
LEMMA TypeNewTask ==
    ASSUME TypeOK, NEW t \in Tasks, NEW n \in Tasks, newTask(t, n) PROVE TypeOK'
  <1>1. queues' \in Queues
    BY EnqueueType DEF TypeOK, newTask
  <1>2. context' \in [Tasks -> Seq(Ptr)]
    <2>1. <<>> \in Seq(Ptr)
      OBVIOUS
    <2> QED
      BY <2>1 DEF TypeOK, newTask
  <1> QED
    BY <1>1, <1>2 DEF TypeOK, newTask, lockVars, timerVars, exitVars, Ptr

\* taskExit() keeps the types.
LEMMA TypeExit ==
    ASSUME TypeOK, NEW t \in Tasks, taskExit(t) PROVE TypeOK'
  BY DEF TypeOK, taskExit, yieldTask, GoTo, cpuVars, timerVars, exitVars

\* Freeing a task keeps the types.
LEMMA TypeDiscard ==
    ASSUME TypeOK, NEW n \in Tasks, Discard(n), waitingFor' \in [Tasks -> Ptr] PROVE TypeOK'
  <1>1. queues' \in Queues
    BY DequeueType DEF TypeOK, Discard
  <1>2. context' \in [Tasks -> Seq(Ptr)]
    <2>1. Overwrite(context, n) \in [Tasks -> Seq(Ptr)]
      BY OverwriteType DEF TypeOK
    <2>2. <<NULL>> \in Seq(Ptr)
      BY DEF Ptr
    <2> QED
      BY <2>1, <2>2 DEF Discard
  <1>3. parent' \in [Tasks -> Ptr]
    BY DEF TypeOK, Discard, Ptr
  <1>4. lockFlags' \in [Tasks -> Seq(Nat)]
    <2>1. <<>> \in Seq(Nat)
      OBVIOUS
    <2> QED
      BY <2>1 DEF TypeOK, Discard
  <1> QED
    BY <1>1, <1>2, <1>3, <1>4 DEF TypeOK, Discard, GoTo, timerVars, exitVars

\* Waiting for the tasks to end keeps the types.
LEMMA TypeWait ==
    ASSUME TypeOK, NEW t \in Tasks, NEW n \in Tasks,
           deleteTask(t, n) \/ waitTask(t, n) \/ WaitCollect(t) \/ WaitTimeOut(t)
    PROVE  TypeOK'
  <1>1. CASE deleteTask(t, n)
    <2>1. waitingFor' \in [Tasks -> Ptr]
      BY <1>1 DEF TypeOK, deleteTask, Ptr
    <2> QED
      BY <1>1, <2>1, TypeDiscard DEF deleteTask
  <1>2. CASE waitTask(t, n) \/ WaitTimeOut(t)
    <2>1. waitingFor' \in [Tasks -> Ptr]
      BY <1>2 DEF TypeOK, waitTask, WaitTimeOut, Ptr
    <2>2. UNCHANGED <<queues, taskVars, lockVars, cpuVars, pc, parent, timerVars, exitVars>>
      BY <1>2 DEF waitTask, WaitTimeOut
    <2> QED
      BY <2>1, <2>2 DEF TypeOK, taskVars, lockVars, cpuVars, timerVars, exitVars
  <1>3. CASE WaitCollect(t)
    <2>1. waitingFor[t] \in Tasks
      BY <1>3 DEF TypeOK, WaitCollect, Polling, Ptr
    <2>2. waitingFor' \in [Tasks -> Ptr]
      BY <1>3, <2>1 DEF TypeOK, WaitCollect, Ptr
    <2> QED
      BY <1>3, <2>1, <2>2, TypeDiscard DEF WaitCollect
  <1> QED
    BY <1>1, <1>2, <1>3

\* lockTask() and unlockTask() keep the types.
LEMMA TypeLock ==
    ASSUME TypeOK, NEW t \in Tasks, lockTask(t) \/ unlockTask(t) PROVE TypeOK'
  <1>1. CASE lockTask(t)
    <2>1. Append(lockFlags[t], taskLocked) \in Seq(Nat)
      BY DEF TypeOK
    <2> QED
      BY <1>1, <2>1 DEF TypeOK, lockTask, taskVars, cpuVars, callVars, timerVars, exitVars
  <1>2. CASE unlockTask(t)
    <2> DEFINE f == lockFlags[t]
    <2>1. f \in Seq(Nat) /\ f # <<>>
      BY <1>2 DEF TypeOK, unlockTask
    <2>2. f[Len(f)] \in Nat /\ SubSeq(f, 1, Len(f) - 1) \in Seq(Nat)
      BY <2>1, DropLast
    <2> QED
      BY <1>2, <2>2 DEF TypeOK, unlockTask, taskVars, cpuVars, callVars, timerVars, exitVars
  <1> QED
    BY <1>1, <1>2

\* suspendTask() keeps the types.
LEMMA TypeBlock ==
    ASSUME TypeOK, NEW t \in Tasks,
           Suspend(t) \/ DelaySuspend(t) \/ quitScheduler(t) PROVE TypeOK'
  <1>1. taskLocked' \in Nat /\ pc' \in [Tasks -> {"user", "queued", "suspending", "yield"}]
    <2>1. yieldTask(t, "suspending") \/ yieldTask(t, "yield")
      BY DEF Suspend, DelaySuspend, suspendTask, quitScheduler
    <2> QED
      BY <2>1, YieldType
  <1>2. CASE Suspend(t) \/ DelaySuspend(t)
    <2>1. /\ taskState' = [taskState EXCEPT ![t] = @ \cup {"SUSPENDED"}]
          /\ UNCHANGED <<queues, extra>>
          /\ UNCHANGED <<alive, nTasks, lockFlags, cpuVars, waitingFor, parent, timerVars, exitVars>>
      BY <1>2 DEF Suspend, DelaySuspend, suspendTask, cpuVars, timerVars, exitVars
    <2>2. taskState[t] \cup {"SUSPENDED"} \in SUBSET {"SUSPENDED", "EXITING"}
      BY DEF TypeOK
    <2>3. taskState' \in [Tasks -> SUBSET {"SUSPENDED", "EXITING"}]
      BY <2>1, <2>2 DEF TypeOK
    <2> QED
      BY <1>1, <2>1, <2>3 DEF TypeOK, cpuVars, timerVars, exitVars
  <1>3. CASE quitScheduler(t)
    <2>1. /\ quitSig' = TRUE
          /\ UNCHANGED <<queues, taskVars, lockFlags, cpuVars, waitingFor, parent, timerVars, exitCode>>
      BY <1>3 DEF quitScheduler
    <2> QED
      BY <1>1, <2>1 DEF TypeOK, taskVars, cpuVars, timerVars
  <1> QED
    BY <1>2, <1>3

\* delayTask() keeps the types.
LEMMA TypeDelay ==
    ASSUME TypeOK, NEW t \in Tasks, NEW d \in 0..MaxDelay, delayTask(t, d) PROVE TypeOK'
  <1>1. queues' \in Queues
    BY EnqueueType DEF TypeOK, delayTask
  <1>2. extra' \in [Tasks -> Int]
    BY BoundsAssumption DEF TypeOK, delayTask
  <1> QED
    BY <1>1, <1>2 DEF TypeOK, delayTask, GoTo, lockVars, cpuVars, timerVars, exitVars

\* resumeTask() keeps the types, ...
LEMMA ResumeType ==
    ASSUME TypeOK, NEW q \in Queues, NEW n \in Tasks, resumeTask(q, n)
    PROVE  queues' \in Queues /\ taskState' \in [Tasks -> SUBSET {"SUSPENDED", "EXITING"}]
  <1>1. taskState[n] \ {"SUSPENDED"} \in SUBSET {"SUSPENDED", "EXITING"}
    BY DEF TypeOK
  <1>2. enqueue(q, "runQueue", n) \in Queues
    BY EnqueueType
  <1> HIDE DEF Queues
  <1> QED
    BY <1>1, <1>2 DEF TypeOK, resumeTask

\* ... also as a step of its own.
LEMMA TypeResume ==
    ASSUME TypeOK, NEW t \in Tasks, NEW n \in Tasks, Resume(t, n) \/ InterruptResume(n)
    PROVE  TypeOK'
  <1>1. queues \in Queues /\ resumeTask(queues, n)
    BY DEF TypeOK, Resume, InterruptResume
  <1>2. queues' \in Queues /\ taskState' \in [Tasks -> SUBSET {"SUSPENDED", "EXITING"}]
    BY <1>1, ResumeType
  <1> QED
    BY <1>2 DEF TypeOK, Resume, InterruptResume, lockVars, cpuVars, callVars, timerVars, exitVars

\* The tick keeps the types.
LEMMA TypeTimer ==
    ASSUME TypeOK, taskTimer \/ TimerSleep \/ TimerWake \/ TimerReturn PROVE TypeOK'
  <1>1. CASE taskTimer
    BY <1>1 DEF TypeOK, taskTimer, Ends, taskVars, lockVars, cpuVars, callVars, exitVars
  <1>2. CASE TimerSleep
    <2>1. qEntry \in Tasks
      BY <1>2 DEF TypeOK, TimerSleep, Ptr
    <2>2. queues.next[qEntry] \in Ptr
      BY <2>1 DEF TypeOK, Pointers
    <2> QED
      BY <1>2, <2>1, <2>2 DEF TypeOK, TimerSleep, lockVars, cpuVars, callVars, exitVars
  <1>3. CASE TimerWake
    <2>1. qEntry \in Tasks
      BY <1>3 DEF TypeOK, TimerWake, Ptr
    <2>2. queues.next[qEntry] \in Ptr
      BY <2>1 DEF TypeOK, Pointers
    <2>3. queues' \in Queues /\ taskState' \in [Tasks -> SUBSET {"SUSPENDED", "EXITING"}]
      BY <1>3, <2>1, DequeueType, ResumeType DEF TypeOK, TimerWake
    <2>4. extra' \in [Tasks -> Int] /\ qEntry' \in Ptr
      BY <1>3, <2>1, <2>2 DEF TypeOK, TimerWake
    <2>5. UNCHANGED <<alive, nTasks, lockVars, cpuVars, callVars, inTimer, exitVars>>
      BY <1>3 DEF TimerWake
    <2> QED
      BY <2>3, <2>4, <2>5 DEF TypeOK, lockVars, cpuVars, callVars, exitVars
  <1>4. CASE TimerReturn
    BY <1>4 DEF TypeOK, TimerReturn, taskVars, lockVars, cpuVars, callVars, exitVars
  <1> QED
    BY <1>1, <1>2, <1>3, <1>4

\* Preemption keeps the types.
LEMMA TypePreempt == TypeOK /\ TimerPreempt => TypeOK'
  <1> SUFFICES ASSUME TypeOK, TimerPreempt PROVE TypeOK'
    OBVIOUS
  <1>1. <<>> \in Seq(Ptr) /\ cpu \in Seq(Ptr) /\ schedule(cpu, <<>>)
    BY DEF TypeOK, TimerPreempt
  <1> QED
    BY <1>1, ScheduleType DEF TypeOK, TimerPreempt, taskVars, lockVars, callVars

\* A step that changes nothing keeps the types.
LEMMA TypeStutter == TypeOK /\ UNCHANGED vars => TypeOK'
  BY DEF TypeOK, vars, taskVars, lockVars, cpuVars, callVars, timerVars, exitVars

\* Every step keeps the types.
LEMMA TypeNext == TypeOK /\ [Next]_vars => TypeOK'
  <1> SUFFICES ASSUME TypeOK, [Next]_vars PROVE TypeOK'
    OBVIOUS
  <1>1. ASSUME NEW t \in Tasks, TaskStep(t) PROVE TypeOK'
    BY <1>1, TypeYield, TypeEnter, TypeNewTask, TypeExit, TypeWait, TypeLock, TypeBlock,
       TypeDelay, TypeResume DEF TaskStep
  <1>2. ASSUME NEW n \in Tasks, InterruptResume(n) PROVE TypeOK'
    BY <1>2, TypeResume
  <1> QED
    BY <1>1, <1>2, TypeSwitchStack, TypeTimer, TypePreempt, TypeStutter
    DEF Next, Interrupt, Terminated

\* In every reachable state each variable of the scheduler has its type: no
\* queue operation, context switch or timer pass leaves the data it works on.
THEOREM TypeCorrect == Spec => []TypeOK
  BY TypeInit, TypeNext, PTL DEF Spec

-----------------------------------------------------------------------------
(* The scheduler lock.                                                     *)

\* LockInv is not inductive alone: unlockTask() puts back a saved flag, which
\* must not exceed the number of lockTask() calls made before it, and a task
\* that collects another one must not be the one it collects.
LockIInv ==
    /\ TypeOK
    /\ LockInv
    /\ \A t \in Tasks : \A i \in 1..Len(lockFlags[t]) : lockFlags[t][i] < i
    /\ \A t \in Tasks : waitingFor[t] # t

\* Steps that neither lock nor forget flags: they keep the lock or drop it,
\* and change the running task only when it is not locked.
LEMMA LockKept ==
    ASSUME LockIInv, TypeOK', lockFlags' = lockFlags,
           \A t \in Tasks : waitingFor'[t] # t,
           \/ taskLocked' = 0
           \/ taskLocked' = taskLocked /\ currentTask' = currentTask
           \/ taskLocked' = taskLocked /\ taskLocked = 0
    PROVE  LockIInv'
  <1>1. LockInv'
    <2>1. Len(lockFlags[currentTask']) \in Nat
      BY DEF TypeOK
    <2>2. taskLocked <= Len(lockFlags[currentTask])
      BY DEF LockIInv, LockInv
    <2>3. taskLocked' <= Len(lockFlags[currentTask'])
      BY <2>1, <2>2
    <2> QED
      BY <2>3 DEF LockInv
  <1>2. \A t \in Tasks : \A i \in 1..Len(lockFlags'[t]) : lockFlags'[t][i] < i
    BY DEF LockIInv
  <1> QED
    BY <1>1, <1>2 DEF LockIInv

\* schedule() changes the running task only if the scheduler is unlocked.
LEMMA ScheduleLock ==
    ASSUME NEW saved, NEW above, schedule(saved, above)
    PROVE  currentTask' = currentTask \/ taskLocked = 0
  BY DEF schedule, LockedOut, Quit, Switch, cpuVars

\* Freeing a task keeps the lock's invariant.
LEMMA LockDiscard ==
    ASSUME LockIInv, TypeOK', NEW n \in Tasks, n # currentTask, Discard(n),
           \A t \in Tasks : waitingFor'[t] # t
    PROVE  LockIInv'
  <1>1. /\ lockFlags' = [lockFlags EXCEPT ![n] = <<>>]
        /\ taskLocked' = taskLocked /\ currentTask' = currentTask
    BY DEF Discard
  <1>2. lockFlags'[currentTask'] = lockFlags[currentTask]
    BY <1>1 DEF LockIInv, TypeOK
  <1>3. ASSUME NEW t \in Tasks, NEW i \in 1..Len(lockFlags'[t]) PROVE lockFlags'[t][i] < i
    BY <1>1, <1>3 DEF LockIInv, TypeOK
  <1> QED
    BY <1>1, <1>2, <1>3 DEF LockIInv, LockInv

\* lockTask() keeps the lock's invariant.
LEMMA LockTask ==
    ASSUME LockIInv, TypeOK', NEW t \in Tasks, lockTask(t)
    PROVE  LockIInv'
  <1>1. /\ currentTask = t /\ currentTask' = t /\ taskLocked' = taskLocked + 1
        /\ lockFlags' = [lockFlags EXCEPT ![t] = Append(lockFlags[t], taskLocked)]
        /\ waitingFor' = waitingFor
    BY DEF lockTask, Call, InUser, Running, cpuVars, callVars
  <1>2. /\ lockFlags[t] \in Seq(Nat) /\ taskLocked \in Nat /\ taskLocked <= Len(lockFlags[t])
        /\ \A i \in 1..Len(lockFlags[t]) : lockFlags[t][i] < i
    BY <1>1 DEF LockIInv, LockInv, TypeOK
  <1>3. PICK f \in Seq(Nat) : f = lockFlags[t]
    BY <1>2
  <1>4. /\ lockFlags'[t] = Append(f, taskLocked)
        /\ \A u \in Tasks \ {t} : lockFlags'[u] = lockFlags[u]
    BY <1>1, <1>3 DEF LockIInv, TypeOK
  <1>5. Len(Append(f, taskLocked)) = Len(f) + 1
    BY <1>2
  <1>6. ASSUME NEW i \in 1..(Len(f) + 1) PROVE Append(f, taskLocked)[i] < i
    <2>1. CASE i = Len(f) + 1
      BY <1>2, <1>3, <2>1
    <2>2. CASE i # Len(f) + 1
      <3>1. i \in 1..Len(f) /\ Append(f, taskLocked)[i] = f[i]
        BY <1>2, <2>2
      <3> QED
        BY <1>2, <1>3, <3>1
    <2> QED
      BY <2>1, <2>2
  <1>7. \A u \in Tasks : \A i \in 1..Len(lockFlags'[u]) : lockFlags'[u][i] < i
    BY <1>4, <1>5, <1>6 DEF LockIInv
  <1>8. LockInv'
    BY <1>1, <1>2, <1>3, <1>4, <1>5 DEF LockInv
  <1> QED
    BY <1>1, <1>7, <1>8 DEF LockIInv

\* unlockTask() keeps the lock's invariant.
LEMMA UnlockTask ==
    ASSUME LockIInv, TypeOK', NEW t \in Tasks, unlockTask(t)
    PROVE  LockIInv'
  <1>1. /\ currentTask = t /\ currentTask' = t /\ waitingFor' = waitingFor
        /\ lockFlags[t] # <<>> /\ taskLocked' = lockFlags[t][Len(lockFlags[t])]
        /\ lockFlags' = [lockFlags EXCEPT ![t] = SubSeq(lockFlags[t], 1, Len(lockFlags[t]) - 1)]
    BY DEF unlockTask, Call, InUser, Running, cpuVars, callVars
  <1>2. PICK f \in Seq(Nat) : f = lockFlags[t]
    BY DEF LockIInv, TypeOK
  <1>3. f # <<>> /\ \A i \in 1..Len(f) : f[i] < i
    BY <1>1, <1>2 DEF LockIInv
  <1>4. /\ lockFlags'[t] = SubSeq(f, 1, Len(f) - 1)
        /\ \A u \in Tasks \ {t} : lockFlags'[u] = lockFlags[u]
    BY <1>1, <1>2 DEF LockIInv, TypeOK
  <1>5. /\ Len(f) \in Nat \ {0} /\ f[Len(f)] \in Nat /\ Len(lockFlags'[t]) = Len(f) - 1
        /\ \A i \in 1..(Len(f) - 1) : lockFlags'[t][i] = f[i]
    BY <1>3, <1>4, DropLast
  <1>6. LockInv'
    <2>1. taskLocked' = f[Len(f)] /\ f[Len(f)] < Len(f)
      BY <1>1, <1>2, <1>3, <1>5
    <2> QED
      BY <1>1, <1>5, <2>1 DEF LockInv
  <1>7. \A u \in Tasks : \A i \in 1..Len(lockFlags'[u]) : lockFlags'[u][i] < i
    <2>1. ASSUME NEW i \in 1..Len(lockFlags'[t]) PROVE lockFlags'[t][i] < i
      <3>1. i \in 1..(Len(f) - 1) /\ i \in 1..Len(f)
        BY <1>5, <2>1
      <3> QED
        BY <1>3, <1>5, <3>1
    <2> QED
      BY <1>4, <2>1 DEF LockIInv
  <1> QED
    BY <1>1, <1>6, <1>7 DEF LockIInv

\* Every step keeps the lock's invariant.
LEMMA LockNext == LockIInv /\ [Next]_vars => LockIInv'
  <1> SUFFICES ASSUME LockIInv, [Next]_vars PROVE LockIInv'
    OBVIOUS
  <1>0. TypeOK'
    BY TypeNext DEF LockIInv
  <1>1. ASSUME NEW t \in Tasks, Yield(t) \/ WaitPoll(t) \/ taskExit(t) \/ Suspend(t)
                                 \/ DelaySuspend(t) \/ quitScheduler(t)
        PROVE  LockIInv'
    <2>1. taskLocked' = 0 /\ lockFlags' = lockFlags /\ waitingFor' = waitingFor
      BY <1>1 DEF Yield, WaitPoll, taskExit, Suspend, DelaySuspend, suspendTask,
                  quitScheduler, yieldTask
    <2> QED
      BY <1>0, <2>1, LockKept DEF LockIInv
  <1>2. ASSUME NEW t \in Tasks, Enter(t) PROVE LockIInv'
    <2>1. /\ lockFlags' = lockFlags /\ waitingFor' = waitingFor /\ taskLocked' = taskLocked
          /\ schedule(<<>>, <<t>>)
      BY <1>2 DEF Enter, lockVars
    <2> QED
      BY <1>0, <2>1, ScheduleLock, LockKept DEF LockIInv
  <1>3. ASSUME NEW t \in Tasks, NEW n \in Tasks, newTask(t, n) PROVE LockIInv'
    BY <1>0, <1>3, LockKept DEF LockIInv, newTask, lockVars
  <1>4. ASSUME NEW t \in Tasks, NEW n \in Tasks, deleteTask(t, n) PROVE LockIInv'
    <2>1. n # currentTask /\ Discard(n)
      BY <1>4 DEF deleteTask, Call, InUser, Running
    <2>2. \A u \in Tasks : waitingFor'[u] # u
      BY <1>4, TasksAssumption DEF deleteTask, LockIInv, TypeOK
    <2> QED
      BY <1>0, <2>1, <2>2, LockDiscard
  <1>5. ASSUME NEW t \in Tasks, WaitCollect(t) PROVE LockIInv'
    <2>1. t = currentTask /\ waitingFor[t] \in Tasks /\ waitingFor[t] # t /\ Discard(waitingFor[t])
      BY <1>5 DEF WaitCollect, Polling, Running, LockIInv, TypeOK, Ptr
    <2>2. \A u \in Tasks : waitingFor'[u] # u
      BY <1>5, TasksAssumption DEF WaitCollect, LockIInv, TypeOK
    <2> QED
      BY <1>0, <2>1, <2>2, LockDiscard
  <1>6. ASSUME NEW t \in Tasks, NEW n \in Tasks, waitTask(t, n) \/ WaitTimeOut(t) PROVE LockIInv'
    <2>0. waitingFor \in [Tasks -> Ptr] /\ \A u \in Tasks : waitingFor[u] # u
      BY DEF LockIInv, TypeOK
    <2>1. \A u \in Tasks : waitingFor'[u] # u
      <3>1. CASE waitTask(t, n)
        <4>1. n # t /\ waitingFor' = [waitingFor EXCEPT ![t] = n]
          BY <3>1 DEF waitTask
        <4> QED
          BY <2>0, <4>1
      <3>2. CASE WaitTimeOut(t)
        <4>1. waitingFor' = [waitingFor EXCEPT ![t] = NULL]
          BY <3>2 DEF WaitTimeOut
        <4> QED
          BY <2>0, <4>1, TasksAssumption
      <3> QED
        BY <1>6, <3>1, <3>2
    <2>2. lockFlags' = lockFlags /\ taskLocked' = taskLocked /\ currentTask' = currentTask
      BY <1>6 DEF waitTask, WaitTimeOut, lockVars, cpuVars
    <2> QED
      BY <1>0, <2>1, <2>2, LockKept
  <1>7. ASSUME NEW t \in Tasks, NEW d \in 0..MaxDelay, delayTask(t, d) PROVE LockIInv'
    BY <1>0, <1>7, LockKept DEF delayTask, LockIInv, lockVars, cpuVars
  <1>8. ASSUME NEW t \in Tasks, NEW n \in Tasks, Resume(t, n) \/ InterruptResume(n) PROVE LockIInv'
    BY <1>0, <1>8, LockKept DEF Resume, InterruptResume, LockIInv, lockVars, cpuVars, callVars
  <1>9. CASE taskTimer \/ TimerSleep \/ TimerWake \/ TimerReturn
    BY <1>0, <1>9, LockKept DEF taskTimer, TimerSleep, TimerWake, TimerReturn,
       LockIInv, lockVars, cpuVars, callVars
  <1>10. CASE TimerPreempt
    BY <1>0, <1>10, ScheduleLock, LockKept DEF TimerPreempt, LockIInv, lockVars, callVars
  <1>11. CASE SwitchStack
    BY <1>0, <1>11, LockKept DEF SwitchStack, LockIInv, lockVars, callVars
  <1>12. CASE UNCHANGED vars
    BY <1>0, <1>12, LockKept DEF vars, LockIInv, lockVars, cpuVars, callVars
  <1>13. ASSUME NEW t \in Tasks, TaskStep(t) PROVE LockIInv'
    BY <1>0, <1>1, <1>2, <1>3, <1>4, <1>5, <1>6, <1>7, <1>8, <1>13, LockTask, UnlockTask
    DEF TaskStep
  <1> QED
    BY <1>8, <1>9, <1>10, <1>11, <1>12, <1>13, TasksAssumption DEF Next, Interrupt, Terminated

\* The lock is open in the beginning.
LEMMA LockInit == Init => LockIInv
  <1> SUFFICES ASSUME Init PROVE LockIInv
    OBVIOUS
  <1>1. TypeOK
    BY TypeInit
  <1>2. \A t \in Tasks : lockFlags[t] = <<>> /\ waitingFor[t] # t
    BY TasksAssumption DEF Init
  <1>3. taskLocked = 0 /\ Len(lockFlags[currentTask]) \in Nat
    BY <1>1 DEF Init, TypeOK
  <1> QED
    BY <1>1, <1>2, <1>3 DEF LockIInv, LockInv

\* Whatever the interleaving of lockTask(), unlockTask(), yields and clock
\* preemption, a locked scheduler was locked by the running task itself.
THEOREM LockOwned == Spec => []LockInv
  <1>1. LockIInv => LockInv
    BY DEF LockIInv
  <1> QED
    BY <1>1, LockInit, LockNext, PTL DEF Spec

\* A step that takes the processor from a task finds the scheduler unlocked.
LEMMA LockKeepsStep ==
    LockIInv /\ [Next]_vars => (taskLocked > 0 => currentTask' = currentTask)
  <1> SUFFICES ASSUME LockIInv, [Next]_vars PROVE taskLocked > 0 => currentTask' = currentTask
    OBVIOUS
  <1>1. ASSUME NEW t \in Tasks, TaskStep(t) PROVE currentTask' = currentTask \/ taskLocked = 0
    <2>1. CASE Enter(t)
      BY <2>1, ScheduleLock DEF Enter
    <2>2. CASE ~Enter(t)
      BY <1>1, <2>2 DEF TaskStep, Yield, taskExit, Suspend, DelaySuspend, suspendTask, WaitPoll,
         WaitCollect, WaitTimeOut, lockTask, unlockTask, quitScheduler, newTask, deleteTask,
         waitTask, Resume, delayTask, Discard, cpuVars
    <2> QED
      BY <2>1, <2>2
  <1>2. SwitchStack \/ Terminated \/ UNCHANGED vars => currentTask' = currentTask
    BY DEF SwitchStack, Terminated, vars, cpuVars
  <1>3. CASE Interrupt
    <2>1. CASE TimerPreempt
      BY <2>1, ScheduleLock DEF TimerPreempt
    <2>2. CASE taskTimer \/ TimerSleep \/ TimerWake \/ TimerReturn
      BY <2>2 DEF taskTimer, TimerSleep, TimerWake, TimerReturn, cpuVars
    <2>3. CASE \E n \in Tasks : InterruptResume(n)
      BY <2>3 DEF InterruptResume, cpuVars
    <2> QED
      BY <1>3, <2>1, <2>2, <2>3 DEF Interrupt
  <1>4. CASE \E t \in Tasks : TaskStep(t)
    BY <1>1, <1>4
  <1> QED
    BY <1>2, <1>3, <1>4 DEF Next

\* lockTask() keeps the processor for the task that called it, until that task
\* calls unlockTask() and for no other.
THEOREM LockHeld == Spec => LockSound
  <1>1. LockIInv' => LockInv'
    BY DEF LockIInv
  <1> QED
    BY <1>1, LockInit, LockNext, LockKeepsStep, PTL DEF Spec, LockSound

-----------------------------------------------------------------------------
(* The queue operations.  runQueue stands for the sequence r and delQueue  *)
(* for d; they share the links.                                            *)

Stands(q, Q, s) == IsList(s, q[Q].head, q.next, q.prev, NULL) /\ q[Q].tail = LastOf(s, NULL)

Both(q, r, d) ==
    /\ Stands(q, "runQueue", r) /\ Stands(q, "delQueue", d)
    /\ Elements(r) \cap Elements(d) = {}

HIDE DEF Queues

\* What enqueue() does to the links.
LEMMA EnqueueLinks ==
    ASSUME NEW q \in Queues, NEW Q \in {"runQueue", "delQueue"}, NEW t \in Tasks,
           q[Q].tail # t
    PROVE  LET e == enqueue(q, Q, t)
               last == q[Q].tail
           IN  /\ e.next[t] = NULL /\ (last # NULL => e.next[last] = t)
               /\ \A u \in Tasks \ {t, last} : e.next[u] = q.next[u]
               /\ e.prev[t] = last /\ \A u \in Tasks \ {t} : e.prev[u] = q.prev[u]
               /\ e[Q].head = (IF last # NULL THEN q[Q].head ELSE t) /\ e[Q].tail = t
               /\ \A P \in {"runQueue", "delQueue"} \ {Q} : e[P] = q[P]
  <1>1. CASE Q = "runQueue"
    BY <1>1 DEF enqueue, Queues, Pointers, Ends, Ptr
  <1>2. CASE Q = "delQueue"
    BY <1>2 DEF enqueue, Queues, Pointers, Ends, Ptr
  <1> QED
    BY <1>1, <1>2

\* What dequeue() does to the links.
LEMMA DequeueLinks ==
    ASSUME NEW q \in Queues, NEW Q \in {"runQueue", "delQueue"}, NEW t \in Tasks
    PROVE  LET e == dequeue(q, Q, t)
               before == q.prev[t]
               after == q.next[t]
           IN  /\ \A u \in Tasks : e.next[u] = IF u = before THEN after ELSE q.next[u]
               /\ \A u \in Tasks : e.prev[u] = IF u = after THEN before ELSE q.prev[u]
               /\ e[Q].head = IF before # NULL THEN q[Q].head ELSE after
               /\ e[Q].tail = IF after # NULL THEN q[Q].tail ELSE before
               /\ \A P \in {"runQueue", "delQueue"} \ {Q} : e[P] = q[P]
  <1>0. NULL \notin Tasks
    BY TasksAssumption
  <1>1. CASE Q = "runQueue"
    BY <1>0, <1>1 DEF dequeue, Queues, Pointers, Ends, Ptr
  <1>2. CASE Q = "delQueue"
    BY <1>0, <1>2 DEF dequeue, Queues, Pointers, Ends, Ptr
  <1> QED
    BY <1>1, <1>2

\* enqueue() appends a task that is on neither queue.
LEMMA EnqueueAppends ==
    ASSUME NEW q \in Queues, NEW Q \in {"runQueue", "delQueue"}, NEW P \in {"runQueue", "delQueue"},
           P # Q, NEW s \in Seq(Tasks), NEW o \in Seq(Tasks), NEW t \in Tasks,
           Stands(q, Q, s), Stands(q, P, o), Elements(s) \cap Elements(o) = {},
           t \notin Elements(s), t \notin Elements(o)
    PROVE  /\ Stands(enqueue(q, Q, t), Q, Append(s, t))
           /\ Stands(enqueue(q, Q, t), P, o)
           /\ Elements(Append(s, t)) = Elements(s) \cup {t}
           /\ Append(s, t) \in Seq(Tasks)
  <1> DEFINE e == enqueue(q, Q, t)
  <1>0. NULL \notin Tasks
    BY TasksAssumption
  <1>1. /\ IsList(s, q[Q].head, q.next, q.prev, NULL) /\ q[Q].tail = LastOf(s, NULL)
        /\ IsList(o, q[P].head, q.next, q.prev, NULL) /\ q[P].tail = LastOf(o, NULL)
    BY DEF Stands
  <1>2. LastOf(s, NULL) \in Elements(s) \cup {NULL}
    BY <1>1, Neighbours
  <1>3. q[Q].tail # t
    BY <1>0, <1>1, <1>2
  <1>4. /\ e.next[t] = NULL /\ (q[Q].tail # NULL => e.next[q[Q].tail] = t)
        /\ \A u \in Tasks \ {t, q[Q].tail} : e.next[u] = q.next[u]
        /\ e.prev[t] = q[Q].tail /\ \A u \in Tasks \ {t} : e.prev[u] = q.prev[u]
        /\ e[Q].head = (IF q[Q].tail # NULL THEN q[Q].head ELSE t) /\ e[Q].tail = t
        /\ e[P] = q[P]
    BY <1>3, EnqueueLinks
  <1> HIDE DEF e
  <1>5. IsList(Append(s, t), e[Q].head, e.next, e.prev, NULL) /\ LastOf(Append(s, t), NULL) = t
    <2> DEFINE hd == q[Q].head
               nx == q.next
               pv == q.prev
               nx2 == e.next
               pv2 == e.prev
               last == LastOf(s, NULL)
    <2>1. /\ IsList(s, hd, nx, pv, NULL)
          /\ nx2[t] = NULL /\ (last # NULL => nx2[last] = t)
          /\ \A u \in Tasks \ {t, last} : nx2[u] = nx[u]
          /\ pv2[t] = last /\ \A u \in Tasks \ {t} : pv2[u] = pv[u]
          /\ e[Q].head = IF last # NULL THEN hd ELSE t
      BY <1>1, <1>4
    <2> HIDE DEF hd, nx, pv, nx2, pv2
    <2>2. /\ IsList(Append(s, t), IF last # NULL THEN hd ELSE t, nx2, pv2, NULL)
          /\ LastOf(Append(s, t), NULL) = t
      BY <1>0, <2>1, AppendedList
    <2> QED
      BY <2>1, <2>2 DEF nx2, pv2
  <1>6. Elements(o) \subseteq Tasks
    BY ElementsIn
  <1>7. \A u \in Elements(o) : e.next[u] = q.next[u] /\ e.prev[u] = q.prev[u]
    <2> SUFFICES ASSUME NEW u \in Elements(o) PROVE e.next[u] = q.next[u] /\ e.prev[u] = q.prev[u]
      OBVIOUS
    <2>1. u \in Tasks /\ u # t /\ u # q[Q].tail
      BY <1>0, <1>1, <1>2, <1>6
    <2> QED
      BY <1>4, <2>1
  <1>8. IsList(o, e[P].head, e.next, e.prev, NULL) /\ e[P].tail = LastOf(o, NULL)
    <2>1. IsList(o, q[P].head, e.next, e.prev, NULL)
      BY <1>1, <1>7, SameList
    <2> QED
      BY <1>1, <1>4, <2>1
  <1>9. Elements(Append(s, t)) = Elements(s) \cup {t} /\ Append(s, t) \in Seq(Tasks)
    BY AppendElements
  <1> QED
    BY <1>4, <1>5, <1>8, <1>9 DEF Stands, e

\* dequeue() takes the k-th task off its queue.
LEMMA DequeueRemoves ==
    ASSUME NEW q \in Queues, NEW Q \in {"runQueue", "delQueue"}, NEW P \in {"runQueue", "delQueue"},
           P # Q, NEW s \in Seq(Tasks), NEW o \in Seq(Tasks), NEW k \in 1..Len(s),
           Stands(q, Q, s), Stands(q, P, o), Elements(s) \cap Elements(o) = {}
    PROVE  /\ Stands(dequeue(q, Q, s[k]), Q, Without(s, k))
           /\ Stands(dequeue(q, Q, s[k]), P, o)
           /\ Elements(Without(s, k)) = Elements(s) \ {s[k]}
           /\ Without(s, k) \in Seq(Tasks)
  <1> DEFINE t == s[k]
             e == dequeue(q, Q, t)
  <1>0. NULL \notin Tasks /\ t \in Tasks /\ t \in Elements(s)
    BY TasksAssumption, LenProperties DEF Elements
  <1>1. /\ IsList(s, q[Q].head, q.next, q.prev, NULL) /\ q[Q].tail = LastOf(s, NULL)
        /\ IsList(o, q[P].head, q.next, q.prev, NULL) /\ q[P].tail = LastOf(o, NULL)
    BY DEF Stands
  <1>2. q.next[t] \in Elements(s) \cup {NULL} /\ q.prev[t] \in Elements(s) \cup {NULL}
    BY <1>0, <1>1, Neighbours
  <1>3. /\ \A u \in Tasks : e.next[u] = IF u = q.prev[t] THEN q.next[t] ELSE q.next[u]
        /\ \A u \in Tasks : e.prev[u] = IF u = q.next[t] THEN q.prev[t] ELSE q.prev[u]
        /\ e[Q].head = IF q.prev[t] # NULL THEN q[Q].head ELSE q.next[t]
        /\ e[Q].tail = IF q.next[t] # NULL THEN q[Q].tail ELSE q.prev[t]
        /\ e[P] = q[P]
    BY <1>0, DequeueLinks
  <1>4. /\ IsList(Without(s, k), IF q.prev[s[k]] # NULL THEN q[Q].head ELSE q.next[s[k]], e.next, e.prev, NULL)
        /\ LastOf(Without(s, k), NULL) = IF q.next[s[k]] # NULL THEN LastOf(s, NULL) ELSE q.prev[s[k]]
    <2> HIDE DEF e
    <2>1. \A u \in Tasks \ {s[k]} : e.next[u] = IF u = q.prev[s[k]] THEN q.next[s[k]] ELSE q.next[u]
      BY <1>3
    <2>2. \A u \in Tasks \ {s[k]} : e.prev[u] = IF u = q.next[s[k]] THEN q.prev[s[k]] ELSE q.prev[u]
      BY <1>3
    <2> DEFINE hd == q[Q].head
               nx == q.next
               pv == q.prev
               nx2 == e.next
               pv2 == e.prev
    <2>3. /\ IsList(s, hd, nx, pv, NULL)
          /\ \A u \in Tasks \ {s[k]} : nx2[u] = IF u = pv[s[k]] THEN nx[s[k]] ELSE nx[u]
          /\ \A u \in Tasks \ {s[k]} : pv2[u] = IF u = nx[s[k]] THEN pv[s[k]] ELSE pv[u]
      BY <1>1, <2>1, <2>2
    <2> HIDE DEF hd, nx, pv, nx2, pv2
    <2>4. /\ IsList(Without(s, k), IF pv[s[k]] # NULL THEN hd ELSE nx[s[k]], nx2, pv2, NULL)
          /\ LastOf(Without(s, k), NULL) = IF nx[s[k]] # NULL THEN LastOf(s, NULL) ELSE pv[s[k]]
      BY <1>0, <2>3, UnlinkedList
    <2> QED
      BY <2>4 DEF hd, nx, pv, nx2, pv2
  <1>5. Elements(o) \subseteq Tasks
    BY ElementsIn
  <1>6. IsList(o, q[P].head, e.next, e.prev, NULL)
    <2> HIDE DEF e
    <2>1. \A u \in Elements(o) : e.next[u] = q.next[u] /\ e.prev[u] = q.prev[u]
      BY <1>0, <1>2, <1>3, <1>5
    <2> QED
      BY <1>1, <2>1, SameList
  <1>7. Elements(Without(s, k)) = Elements(s) \ {t} /\ Without(s, k) \in Seq(Tasks)
    BY <1>1, WithoutElements DEF IsList, Forward
  <1> HIDE DEF e
  <1> QED
    BY <1>1, <1>3, <1>4, <1>6, <1>7 DEF Stands, e

\* schedule() takes the first task off runQueue.
LEMMA TakeHeadRemoves ==
    ASSUME NEW q \in Queues, NEW r \in Seq(Tasks), NEW d \in Seq(Tasks), Both(q, r, d),
           q.runQueue.head # NULL
    PROVE  /\ Len(r) # 0 /\ q.runQueue.head = Head(r) /\ Head(r) \in Elements(r)
           /\ Both(takeHead(q), Tail(r), d) /\ Tail(r) \in Seq(Tasks)
           /\ Elements(Tail(r)) = Elements(r) \ {Head(r)}
  <1> DEFINE e == takeHead(q)
             t == r[1]
  <1>0. NULL \notin Tasks
    BY TasksAssumption
  <1>1. /\ IsList(r, q.runQueue.head, q.next, q.prev, NULL) /\ q.runQueue.tail = LastOf(r, NULL)
        /\ IsList(d, q.delQueue.head, q.next, q.prev, NULL) /\ q.delQueue.tail = LastOf(d, NULL)
    BY DEF Both, Stands
  <1>2. Len(r) \in Nat \ {0} /\ q.runQueue.head = t /\ 1 \in 1..Len(r)
    <2>1. Len(r) \in Nat
      BY LenProperties
    <2> QED
      BY <1>1, <2>1 DEF IsList, Forward
  <1>3. t \in Tasks /\ t \in Elements(r)
    BY <1>2, LenProperties DEF Elements
  <1>4. q.prev[t] = NULL /\ q.next[t] \in Elements(r) \cup {NULL}
    BY <1>1, <1>2, <1>3, Neighbours DEF IsList, Backward
  <1>5. /\ e.next = q.next /\ \A u \in Tasks : e.prev[u] = IF u = q.next[t] THEN NULL ELSE q.prev[u]
        /\ e.runQueue.head = q.next[t] /\ e.delQueue = q.delQueue
        /\ e.runQueue.tail = IF q.next[t] # NULL THEN q.runQueue.tail ELSE NULL
    BY <1>0, <1>2, <1>3 DEF takeHead, Queues, Pointers, Ends, Ptr
  <1>6. Without(r, 1) = Tail(r) /\ Head(r) = t
    BY <1>2, WithoutFirst
  <1> HIDE DEF e
  <1>7. /\ IsList(Tail(r), q.next[t], e.next, e.prev, NULL)
        /\ LastOf(Tail(r), NULL) = IF q.next[t] # NULL THEN LastOf(r, NULL) ELSE NULL
    <2>1. \A u \in Tasks \ {r[1]} : e.next[u] = IF u = q.prev[r[1]] THEN q.next[r[1]] ELSE q.next[u]
      BY <1>0, <1>4, <1>5
    <2>2. \A u \in Tasks \ {r[1]} : e.prev[u] = IF u = q.next[r[1]] THEN q.prev[r[1]] ELSE q.prev[u]
      BY <1>4, <1>5
    <2>3. /\ IsList(Without(r, 1), IF q.prev[r[1]] # NULL THEN q.runQueue.head ELSE q.next[r[1]], e.next, e.prev, NULL)
          /\ LastOf(Without(r, 1), NULL) = IF q.next[r[1]] # NULL THEN LastOf(r, NULL) ELSE q.prev[r[1]]
      <3> DEFINE hd == q.runQueue.head
                 nx == q.next
                 pv == q.prev
                 nx2 == e.next
                 pv2 == e.prev
      <3>1. /\ IsList(r, hd, nx, pv, NULL)
            /\ \A u \in Tasks \ {r[1]} : nx2[u] = IF u = pv[r[1]] THEN nx[r[1]] ELSE nx[u]
            /\ \A u \in Tasks \ {r[1]} : pv2[u] = IF u = nx[r[1]] THEN pv[r[1]] ELSE pv[u]
        BY <1>1, <2>1, <2>2
      <3> HIDE DEF hd, nx, pv, nx2, pv2
      <3>2. /\ IsList(Without(r, 1), IF pv[r[1]] # NULL THEN hd ELSE nx[r[1]], nx2, pv2, NULL)
            /\ LastOf(Without(r, 1), NULL) = IF nx[r[1]] # NULL THEN LastOf(r, NULL) ELSE pv[r[1]]
        BY <1>0, <1>2, <3>1, UnlinkedList
      <3> QED
        BY <3>2 DEF hd, nx, pv, nx2, pv2
    <2> QED
      BY <1>4, <1>6, <2>3
  <1>8. IsList(d, q.delQueue.head, e.next, e.prev, NULL)
    <2>1. Elements(d) \subseteq Tasks /\ Elements(r) \cap Elements(d) = {}
      BY ElementsIn DEF Both
    <2>2. \A u \in Elements(d) : e.next[u] = q.next[u] /\ e.prev[u] = q.prev[u]
      BY <1>0, <1>4, <1>5, <2>1
    <2> QED
      BY <1>1, <2>2, SameList
  <1>9. Elements(Tail(r)) = Elements(r) \ {t} /\ Tail(r) \in Seq(Tasks)
    <2>1. \A i, j \in 1..Len(r) : r[i] = r[j] => i = j
      BY <1>1 DEF IsList, Forward
    <2>2. Elements(Without(r, 1)) = Elements(r) \ {r[1]} /\ Without(r, 1) \in Seq(Tasks)
      BY <1>2, <2>1, WithoutElements
    <2> QED
      BY <1>6, <2>2
  <1> QED
    BY <1>1, <1>2, <1>3, <1>5, <1>6, <1>7, <1>8, <1>9 DEF Both, Stands, e

\* Walking a queue along the next pointers visits its tasks, in order.
LEMMA WalkQueue ==
    ASSUME NEW q \in Queues, NEW Q \in {"runQueue", "delQueue"}, NEW s \in Seq(Tasks),
           Stands(q, Q, s)
    PROVE  Members(q, Q) = Elements(s) /\ AsSequence(q, Q) = s /\ WellFormed(q, Q)
  <1> DEFINE n == Len(s)
             N == Cardinality(Tasks)
             f == [i \in 0..N |-> IF i < n THEN s[i + 1] ELSE NULL]
  <1>0. NULL \notin Tasks /\ IsFiniteSet(Tasks)
    BY TasksAssumption
  <1>1. IsList(s, q[Q].head, q.next, q.prev, NULL) /\ q[Q].tail = LastOf(s, NULL)
    BY DEF Stands
  <1>2. \A i, j \in 1..n : s[i] = s[j] => i = j
    BY <1>1 DEF IsList, Forward
  <1>3. n <= N /\ N \in Nat
    BY <1>0, <1>2, FewElements
  <1>4. n \in Nat /\ (\A i \in 1..n : s[i] \in Tasks /\ s[i] # NULL) /\ s \in [1..n -> Tasks]
    BY <1>0, LenProperties
  <1>5. Walk(q, Q) = f
    <2> DEFINE hd == q[Q].head
               nx == q.next
    <2>1. Forward(s, hd, nx, NULL)
      BY <1>1 DEF IsList
    <2> HIDE DEF hd, nx, N
    <2>2. (CHOOSE w : w = [i \in 0..N |-> IF i = 0 THEN hd
                                           ELSE IF w[i-1] = NULL THEN NULL ELSE nx[w[i-1]]]) = f
      BY <1>0, <1>3, <2>1, OneWalk
    <2> QED
      BY <2>2 DEF Walk, hd, nx, N
  <1> DEFINE M == {i \in 0..N : f[i] # NULL}
  <1> HIDE DEF n, N
  <1>6. M = 0..(n - 1) /\ Cardinality(M) = n
    <2>1. \A i \in 0..N : f[i] # NULL <=> i < n
      BY <1>3, <1>4
    <2>2. M = 0..(n - 1)
      BY <1>3, <1>4, <2>1
    <2>3. Cardinality(0..(n - 1)) = n
      BY <1>4, FS_Interval
    <2> HIDE DEF M
    <2> QED
      BY <2>2, <2>3
  <1>7. DOMAIN f = 0..N /\ \A i \in 1..n : i - 1 \in 0..N /\ f[i - 1] = s[i]
    BY <1>3, <1>4
  <1>8. {f[i] : i \in 0..N} \ {NULL} = {s[i] : i \in 1..n}
    <2>1. \A i \in 0..N : f[i] = NULL \/ (i + 1 \in 1..n /\ f[i] = s[i + 1])
      BY <1>3, <1>4
    <2>2. {f[i] : i \in 0..N} \ {NULL} \subseteq {s[i] : i \in 1..n}
      BY <2>1
    <2>3. {s[i] : i \in 1..n} \subseteq {f[i] : i \in 0..N} \ {NULL}
      BY <1>4, <1>7
    <2> QED
      BY <2>2, <2>3
  <1> HIDE DEF f
  <1>9. Members(q, Q) = Elements(s)
    BY <1>5, <1>7, <1>8 DEF Members, Elements, n
  <1>10. Length(q, Q) = n
    BY <1>5, <1>6, <1>7 DEF Length
  <1>11. AsSequence(q, Q) = s
    <2>1. AsSequence(q, Q) = [i \in 1..n |-> f[i - 1]]
      BY <1>5, <1>10 DEF AsSequence
    <2>2. s = [i \in 1..n |-> s[i]]
      BY <1>4
    <2> QED
      BY <1>7, <2>1, <2>2
  <1>12. WellFormed(q, Q)
    <2>1. Cardinality(Elements(s)) = n
      BY <1>2, CountElements DEF n
    <2>2. q[Q] \in [head : Ptr, tail : Ptr]
      BY DEF Queues, Ends
    <2>3. CASE n = 0
      <3>1. q[Q].head = NULL /\ q[Q].tail = NULL
        BY <1>1, <2>3 DEF IsList, Forward, LastOf, n
      <3>2. q[Q] = [head |-> NULL, tail |-> NULL]
        BY <2>2, <3>1
      <3> QED
        BY <1>9, <1>11, <2>1, <2>3, <3>2 DEF WellFormed, n
    <2>4. CASE n # 0
      <3>1. 1 \in 1..n /\ n \in 1..n /\ \A i \in 2..n : i \in 1..n /\ i # 1
        BY <1>4, <2>4
      <3>2. /\ q[Q].tail = s[n] /\ q.next[s[n]] = NULL /\ q.prev[s[1]] = NULL
            /\ \A i \in 2..n : q.prev[s[i]] = s[i - 1]
        BY <1>1, <2>4, <3>1 DEF IsList, Forward, Backward, LastOf, n
      <3> QED
        BY <1>9, <1>11, <2>1, <2>4, <3>2 DEF WellFormed, n
    <2> QED
      BY <2>3, <2>4
  <1> QED
    BY <1>9, <1>11, <1>12

\* The four ways the scheduler changes its two queues, seen as sequences.
LEMMA EnqueueRun ==
    ASSUME NEW q \in Queues, NEW r \in Seq(Tasks), NEW d \in Seq(Tasks), Both(q, r, d),
           NEW t \in Tasks, t \notin Elements(r), t \notin Elements(d)
    PROVE  /\ Append(r, t) \in Seq(Tasks) /\ Elements(Append(r, t)) = Elements(r) \cup {t}
           /\ Both(enqueue(q, "runQueue", t), Append(r, t), d)
  BY EnqueueAppends DEF Both

\* A task put on delQueue is its last.
LEMMA EnqueueDel ==
    ASSUME NEW q \in Queues, NEW r \in Seq(Tasks), NEW d \in Seq(Tasks), Both(q, r, d),
           NEW t \in Tasks, t \notin Elements(r), t \notin Elements(d)
    PROVE  /\ Append(d, t) \in Seq(Tasks) /\ Elements(Append(d, t)) = Elements(d) \cup {t}
           /\ Both(enqueue(q, "delQueue", t), r, Append(d, t))
  BY EnqueueAppends DEF Both

\* A task taken from runQueue leaves the others in order, ...
LEMMA DequeueRun ==
    ASSUME NEW q \in Queues, NEW r \in Seq(Tasks), NEW d \in Seq(Tasks), Both(q, r, d),
           NEW k \in 1..Len(r)
    PROVE  /\ Without(r, k) \in Seq(Tasks) /\ Elements(Without(r, k)) = Elements(r) \ {r[k]}
           /\ Both(dequeue(q, "runQueue", r[k]), Without(r, k), d)
  BY DequeueRemoves DEF Both

\* ... and one taken from delQueue.
LEMMA DequeueDel ==
    ASSUME NEW q \in Queues, NEW r \in Seq(Tasks), NEW d \in Seq(Tasks), Both(q, r, d),
           NEW k \in 1..Len(d)
    PROVE  /\ Without(d, k) \in Seq(Tasks) /\ Elements(Without(d, k)) = Elements(d) \ {d[k]}
           /\ Both(dequeue(q, "delQueue", d[k]), r, Without(d, k))
  BY DequeueRemoves DEF Both

-----------------------------------------------------------------------------
(* What is on the queues.                                                  *)

\* The assumption on the application and the processor without which the
\* queues do not hold: nobody deletes a task in delayTask(), and interrupts
\* strike in the windows of delayTask() and suspendTask() only if no task is
\* resumed from one.  The runs TaskInterruptWindow and TaskPreemptContext
\* show what happens otherwise.
Undisturbed ==
    /\ "deleteDelayed" \notin Calls
    /\ InterruptWindows => Calls \cap {"delay", "interruptResume"} = {}

\* A task on delQueue sleeps, or is about to and cannot be interrupted
Sleepers(d) ==
    \A t \in Elements(d) :
        /\ t \in alive
        /\ "SUSPENDED" \in taskState[t] \/ (t = currentTask /\ pc[t] = "queued" /\ cpu = <<>>)
        /\ t = currentTask => ~inTimer

Held(r, d) ==
    /\ Both(queues, r, d)
    /\ Elements(r) = Ready
    /\ Sleepers(d)
    /\ "delay" \notin Calls => Elements(d) = {}
    /\ inTimer /\ qEntry # NULL => qEntry \in Elements(d)

\* The running task keeps the processor, once it has blocked or exited, only
\* up to its call of schedule(), and with the scheduler unlocked
Turning ==
    /\ currentTask \in alive /\ Idle \in alive /\ taskState[Idle] = {} /\ pc[Idle] \in {"user", "yield"}
    /\ \A t \in Tasks : taskState[t] # {"SUSPENDED", "EXITING"}
    /\ exitCode = "none" =>
         /\ "EXITING" \in taskState[currentTask] => pc[currentTask] = "yield"
         /\ "SUSPENDED" \in taskState[currentTask] => pc[currentTask] = "suspending"
         /\ taskState[currentTask] # {} => cpu = <<>>
         /\ pc[currentTask] \in {"yield", "suspending"} => taskLocked = 0

\* A handle belongs to the live task that made it and is waited for by no other
Handles ==
    /\ parent[Idle] = NULL
    /\ \A t \in Tasks : waitingFor[t] # NULL => parent[waitingFor[t]] = t /\ t \in alive
    /\ \A n \in Tasks : parent[n] # NULL => n \in alive /\ parent[n] \in alive /\ parent[n] # n

Blocked == {t \in alive : taskState[t] # {}}

\* A step of RoundRobin, the line being r before it and r2 after it
Turn(r, r2) ==
    \/ UNCHANGED currentTask /\ r2 = r /\ Blocked' = Blocked
    \/ /\ currentTask # Idle /\ UNCHANGED currentTask /\ r2 = r
       /\ Blocked' = Blocked \cup {currentTask}
    \/ \E n \in Tasks : /\ n \notin Blocked \cup {currentTask, Idle} \cup Elements(r)
                        /\ r2 = Append(r, n) /\ UNCHANGED currentTask /\ Blocked' = Blocked
    \/ \E n \in Tasks : /\ n \in Blocked \ {currentTask}
                        /\ r2 = Append(r, n) /\ UNCHANGED currentTask /\ Blocked' = Blocked \ {n}
    \/ \E n \in Tasks : /\ n # currentTask /\ UNCHANGED currentTask /\ Blocked' = Blocked \ {n}
                        /\ \/ \E k \in 1..Len(r) : r[k] = n /\ r2 = Without(r, k)
                           \/ n \in Blocked /\ r2 = r
    \/ LET l == IF currentTask \in Blocked \cup {Idle} THEN r ELSE Append(r, currentTask)
       IN  /\ IF l = <<>> THEN currentTask' = Idle /\ r2 = l
                          ELSE currentTask' = Head(l) /\ r2 = Tail(l)
           /\ Blocked' = Blocked

TurnedTo(r, d2) == \E r2 \in Seq(Tasks) : Held(r2, d2)' /\ Turn(r, r2)

\* A task is RUNNING, SUSPENDED or EXITING.
LEMMA OneState ==
    ASSUME TypeOK, Turning, NEW n \in Tasks
    PROVE  taskState[n] \in {{}, {"SUSPENDED"}, {"EXITING"}}
  <1>1. taskState[n] \subseteq {"SUSPENDED", "EXITING"} /\ taskState[n] # {"SUSPENDED", "EXITING"}
    BY DEF TypeOK, Turning
  <1>2. CASE "EXITING" \in taskState[n]
    <2>1. "SUSPENDED" \notin taskState[n]
      <3>1. "SUSPENDED" \in taskState[n] => {"SUSPENDED", "EXITING"} \subseteq taskState[n]
        BY <1>2
      <3> QED
        BY <1>1, <3>1
    <2>2. taskState[n] = {"EXITING"}
      BY <1>1, <1>2, <2>1
    <2> QED
      BY <2>2
  <1>3. CASE "EXITING" \notin taskState[n] /\ "SUSPENDED" \in taskState[n]
    <2>1. taskState[n] = {"SUSPENDED"}
      BY <1>1, <1>3
    <2> QED
      BY <2>1
  <1>4. CASE "EXITING" \notin taskState[n] /\ "SUSPENDED" \notin taskState[n]
    <2>1. taskState[n] = {}
      BY <1>1, <1>4
    <2> QED
      BY <2>1
  <1> QED
    BY <1>2, <1>3, <1>4

\* Steps that leave the queues and the states of the tasks alone.
LEMMA QuietTurn ==
    ASSUME NEW r \in Seq(Tasks), NEW d \in Seq(Tasks), Held(r, d),
           UNCHANGED <<queues, currentTask, alive, taskState>>,
           \A t \in Elements(d) : "SUSPENDED" \in taskState[t] \/ (pc'[t] = "queued" /\ cpu' = <<>>),
           currentTask \in Elements(d) => ~inTimer',
           inTimer' /\ qEntry' # NULL => qEntry' \in Elements(d)
    PROVE  TurnedTo(r, d)
  <1>1. Both(queues, r, d)' /\ Elements(r) = Ready'
    BY DEF Held, Ready
  <1>2. Sleepers(d)'
    BY DEF Held, Sleepers
  <1>3. Held(r, d)'
    BY <1>1, <1>2 DEF Held
  <1>4. Turn(r, r)
    BY DEF Turn, Blocked
  <1> QED
    BY <1>3, <1>4 DEF TurnedTo

\* While the running task is not inside delayTask(), whoever is on delQueue is
\* suspended.
LEMMA AsleepAll ==
    ASSUME Turning, exitCode = "none", NEW d \in Seq(Tasks), Sleepers(d), pc[currentTask] # "queued"
    PROVE  /\ \A t \in Elements(d) : "SUSPENDED" \in taskState[t]
           /\ pc[currentTask] # "suspending" => currentTask \notin Elements(d)
  BY DEF Turning, Sleepers

\* The running task exits or suspends itself.
LEMMA BlockTurn ==
    ASSUME TypeOK, Turning, NEW r \in Seq(Tasks), NEW d \in Seq(Tasks), Held(r, d),
           NEW t \in Tasks, taskExit(t) \/ Suspend(t) \/ DelaySuspend(t)
    PROVE  TurnedTo(r, d)
  <1>1. /\ t = currentTask /\ ~inTimer /\ exitCode = "none" /\ pc[t] \in {"user", "queued"}
        /\ UNCHANGED <<queues, currentTask, alive, inTimer>>
    BY DEF taskExit, Suspend, DelaySuspend, suspendTask, Call, InUser, Running, Live, cpuVars, timerVars
  <1>2. PICK s \in SUBSET {"SUSPENDED", "EXITING"} :
            /\ s # {} /\ taskState' = [taskState EXCEPT ![t] = s]
            /\ "SUSPENDED" \in s \/ pc[t] = "user"
    <2>1. taskState[t] \cup {"SUSPENDED"} \in SUBSET {"SUSPENDED", "EXITING"}
      BY DEF TypeOK
    <2>2. CASE taskExit(t)
      BY <2>2 DEF taskExit, Call, InUser
    <2>3. CASE Suspend(t) \/ DelaySuspend(t)
      BY <2>1, <2>3 DEF Suspend, DelaySuspend, suspendTask
    <2> QED
      BY <2>2, <2>3
  <1>3. t # Idle /\ t \in alive
    BY <1>1 DEF taskExit, Suspend, DelaySuspend, Call, Turning
  <1>4. /\ taskState'[t] = s /\ \A u \in Tasks \ {t} : taskState'[u] = taskState[u]
    BY <1>2 DEF TypeOK
  <1>5. pc[t] = "user" => t \notin Elements(d)
    BY <1>1, AsleepAll DEF Held
  <1>6. Elements(d) \subseteq Tasks
    BY ElementsIn
  <1>7. Sleepers(d)'
    <2> SUFFICES ASSUME NEW u \in Elements(d)
                 PROVE  u \in alive' /\ "SUSPENDED" \in taskState'[u] /\ ~inTimer'
      BY <1>1 DEF Sleepers
    <2>1. u \in alive /\ (u # t => "SUSPENDED" \in taskState[u])
      BY <1>1 DEF Held, Sleepers
    <2> QED
      BY <1>1, <1>2, <1>4, <1>5, <1>6, <2>1
  <1>8. Ready' = Ready
    BY <1>1, <1>4 DEF Ready, TypeOK
  <1>9. Held(r, d)'
    BY <1>1, <1>7, <1>8 DEF Held
  <1>10. Blocked' = Blocked \cup {t}
    BY <1>1, <1>2, <1>3, <1>4 DEF Blocked, TypeOK
  <1>11. Turn(r, r)
    BY <1>1, <1>3, <1>10 DEF Turn
  <1> QED
    BY <1>9, <1>11 DEF TurnedTo

\* delayTask() puts the running task on delQueue.
LEMMA DelayTurn ==
    ASSUME Undisturbed, TypeOK, Turning, NEW r \in Seq(Tasks), NEW d \in Seq(Tasks), Held(r, d),
           NEW t \in Tasks, NEW ticks, delayTask(t, ticks)
    PROVE  TurnedTo(r, Append(d, t))
  <1>1. /\ t = currentTask /\ ~inTimer /\ exitCode = "none" /\ pc[t] = "user" /\ cpu = <<>>
        /\ "delay" \in Calls /\ queues' = enqueue(queues, "delQueue", t)
        /\ pc' = [pc EXCEPT ![t] = "queued"]
        /\ UNCHANGED <<currentTask, cpu, taskState, alive, inTimer>>
    BY DEF delayTask, Call, InUser, Running, Live, cpuVars, timerVars, GoTo
  <1>2. t \notin Elements(d) /\ t \notin Elements(r) /\ t \in alive
    BY <1>1, AsleepAll DEF Held, Ready, Turning
  <1>3. queues \in Queues
    BY DEF TypeOK, Queues
  <1>4. /\ Append(d, t) \in Seq(Tasks) /\ Elements(Append(d, t)) = Elements(d) \cup {t}
        /\ Both(queues, r, Append(d, t))'
    BY <1>1, <1>2, <1>3, EnqueueDel DEF Held
  <1>5. Sleepers(Append(d, t))'
    <2>1. pc'[t] = "queued"
      BY <1>1 DEF TypeOK
    <2>2. \A u \in Elements(d) : "SUSPENDED" \in taskState[u] /\ u \in alive
      BY <1>1, AsleepAll DEF Held, Sleepers
    <2> QED
      BY <1>1, <1>2, <1>4, <2>1, <2>2 DEF Sleepers
  <1>6. Ready' = Ready
    BY <1>1 DEF Ready
  <1>7. Held(r, Append(d, t))'
    BY <1>1, <1>4, <1>5, <1>6 DEF Held
  <1>8. Turn(r, r)
    BY <1>1 DEF Turn, Blocked
  <1> QED
    BY <1>4, <1>7, <1>8 DEF TurnedTo

\* newTask() puts the new task on runQueue.
LEMMA NewTurn ==
    ASSUME TypeOK, Turning, NEW r \in Seq(Tasks), NEW d \in Seq(Tasks), Held(r, d),
           NEW t \in Tasks, NEW n \in Tasks, newTask(t, n)
    PROVE  TurnedTo(r, d)
  <1>1. /\ n \notin alive /\ alive' = alive \cup {n} /\ taskState' = [taskState EXCEPT ![n] = {}]
        /\ queues' = enqueue(queues, "runQueue", n) /\ ~inTimer
        /\ UNCHANGED <<currentTask, cpu, pc, inTimer>>
    BY DEF newTask, Call, InUser, Running, timerVars
  <1>2. n # currentTask /\ n # Idle /\ n \notin Elements(r) /\ n \notin Elements(d)
    BY <1>1 DEF Turning, Held, Ready, Sleepers
  <1>3. queues \in Queues
    BY DEF TypeOK, Queues
  <1>4. /\ Append(r, n) \in Seq(Tasks) /\ Elements(Append(r, n)) = Elements(r) \cup {n}
        /\ Both(queues, Append(r, n), d)'
    BY <1>1, <1>2, <1>3, EnqueueRun DEF Held
  <1>5. taskState'[n] = {} /\ \A u \in Tasks \ {n} : taskState'[u] = taskState[u]
    BY <1>1 DEF TypeOK
  <1>6. alive \subseteq Tasks /\ Elements(d) \subseteq Tasks
    BY ElementsIn DEF TypeOK
  <1>7. Ready' = Ready \cup {n}
    BY <1>1, <1>2, <1>5, <1>6 DEF Ready
  <1>8. Sleepers(d)'
    BY <1>1, <1>2, <1>5, <1>6 DEF Held, Sleepers
  <1>9. Held(Append(r, n), d)'
    BY <1>1, <1>4, <1>7, <1>8 DEF Held
  <1>10. Blocked' = Blocked /\ n \notin Blocked
    BY <1>1, <1>5, <1>6 DEF Blocked
  <1>11. Turn(r, Append(r, n))
    BY <1>1, <1>2, <1>10 DEF Turn
  <1> QED
    BY <1>4, <1>9, <1>11 DEF TurnedTo

\* deleteTask() and waitTask() take a task that can run off runQueue.
LEMMA DiscardTurn ==
    ASSUME TypeOK, Turning, NEW r \in Seq(Tasks), NEW d \in Seq(Tasks), Held(r, d),
           NEW n \in Tasks, n # currentTask, n # Idle, n \in alive, n \notin Elements(d),
           ~inTimer, Discard(n)
    PROVE  TurnedTo(r, d)
  <1>1. /\ queues' = IF taskState[n] = {} THEN dequeue(queues, "runQueue", n) ELSE queues
        /\ alive' = alive \ {n} /\ pc' = [pc EXCEPT ![n] = "user"]
        /\ UNCHANGED <<currentTask, cpu, taskState, inTimer>>
    BY DEF Discard, GoTo, timerVars
  <1>2. queues \in Queues /\ Both(queues, r, d) /\ Elements(r) = Ready
    BY DEF TypeOK, Queues, Held
  <1>3. Sleepers(d)'
    <2>1. \A u \in Tasks \ {n} : pc'[u] = pc[u]
      BY <1>1 DEF TypeOK
    <2>2. Elements(d) \subseteq Tasks
      BY ElementsIn
    <2> QED
      BY <1>1, <2>1, <2>2 DEF Held, Sleepers
  <1>4. Ready' = Ready \ {n} /\ Blocked' = Blocked \ {n}
    BY <1>1 DEF Ready, Blocked
  <1>5. CASE taskState[n] = {}
    <2>1. PICK k \in 1..Len(r) : r[k] = n
      BY <1>2, <1>5 DEF Ready, Elements
    <2>2. /\ Without(r, k) \in Seq(Tasks) /\ Elements(Without(r, k)) = Elements(r) \ {n}
          /\ Both(queues, Without(r, k), d)'
      BY <1>1, <1>2, <1>5, <2>1, DequeueRun
    <2>3. Held(Without(r, k), d)'
      BY <1>1, <1>2, <1>3, <1>4, <2>2 DEF Held
    <2>4. Turn(r, Without(r, k))
      BY <1>1, <1>4, <2>1 DEF Turn
    <2> QED
      BY <2>2, <2>3, <2>4 DEF TurnedTo
  <1>6. CASE taskState[n] # {}
    <2>1. n \notin Ready /\ n \in Blocked
      BY <1>6 DEF Ready, Blocked
    <2>2. Held(r, d)'
      BY <1>1, <1>2, <1>3, <1>4, <1>6, <2>1 DEF Held
    <2>3. Turn(r, r)
      BY <1>1, <1>4, <2>1 DEF Turn
    <2> QED
      BY <2>2, <2>3 DEF TurnedTo
  <1> QED
    BY <1>5, <1>6

\* resumeTask() puts a suspended task on runQueue; taskTimer() has taken it
\* off delQueue before, which leaves the queues q and r, d2.
LEMMA WakeTurn ==
    ASSUME TypeOK, Turning, exitCode = "none",
           NEW r \in Seq(Tasks), NEW d \in Seq(Tasks), Held(r, d),
           NEW n \in Tasks, n \in alive, "SUSPENDED" \in taskState[n], n # currentTask,
           NEW q \in Queues, NEW d2 \in Seq(Tasks), Both(q, r, d2),
           Elements(d2) = Elements(d) \ {n}, resumeTask(q, n),
           UNCHANGED <<currentTask, cpu, pc, alive, inTimer>>,
           inTimer' /\ qEntry' # NULL => qEntry' \in Elements(d2)
    PROVE  TurnedTo(r, d2)
  <1>1. taskState[n] = {"SUSPENDED"} /\ n # Idle
    BY OneState DEF Turning
  <1>2. queues' = enqueue(q, "runQueue", n) /\ taskState' = [taskState EXCEPT ![n] = {}]
    <2>1. taskState[n] \ {"SUSPENDED"} = {}
      BY <1>1
    <2> QED
      BY <2>1 DEF resumeTask
  <1>3. n \notin Elements(r) /\ n \notin Elements(d2)
    BY <1>1 DEF Held, Ready
  <1>4. /\ Append(r, n) \in Seq(Tasks) /\ Elements(Append(r, n)) = Elements(r) \cup {n}
        /\ Both(queues, Append(r, n), d2)'
    BY <1>2, <1>3, EnqueueRun
  <1>5. /\ taskState'[n] = {} /\ \A u \in Tasks \ {n} : taskState'[u] = taskState[u]
        /\ alive \subseteq Tasks /\ Elements(d2) \subseteq Tasks
    BY <1>2, ElementsIn DEF TypeOK
  <1>6. Ready' = Ready \cup {n} /\ Blocked' = Blocked \ {n} /\ n \in Blocked
    BY <1>1, <1>5 DEF Ready, Blocked
  <1>7. Sleepers(d2)'
    BY <1>3, <1>5 DEF Held, Sleepers
  <1>8. Held(Append(r, n), d2)'
    BY <1>4, <1>6, <1>7 DEF Held
  <1>9. Turn(r, Append(r, n))
    BY <1>6 DEF Turn
  <1> QED
    BY <1>4, <1>8, <1>9 DEF TurnedTo

\* resumeTask() called by a task or by an interrupt handler.
LEMMA ResumeTurn ==
    ASSUME Undisturbed, TypeOK, Turning, NEW r \in Seq(Tasks), NEW d \in Seq(Tasks), Held(r, d),
           NEW t \in Tasks, NEW n \in Tasks, Resume(t, n) \/ InterruptResume(n)
    PROVE  TurnedTo(r, d)
  <1>1. /\ exitCode = "none" /\ ~inTimer /\ n \in alive /\ "SUSPENDED" \in taskState[n]
        /\ n \notin Members(queues, "delQueue") /\ resumeTask(queues, n)
        /\ UNCHANGED <<currentTask, cpu, pc, alive, inTimer>>
    BY DEF Resume, InterruptResume, Resumable, Call, InUser, Running, Live, Interruptible,
           cpuVars, callVars, timerVars
  <1>2. queues \in Queues /\ Both(queues, r, d)
    BY DEF TypeOK, Queues, Held
  <1>3. n \notin Elements(d)
    BY <1>1, <1>2, WalkQueue DEF Both
  <1>4. n # currentTask
    <2>1. CASE Resume(t, n)
      BY <1>1, <2>1 DEF Resume, Call, InUser, Running, Turning
    <2>2. CASE InterruptResume(n)
      BY <1>1, <2>2 DEF InterruptResume, Interruptible, InWindow, Undisturbed, Turning
    <2> QED
      BY <2>1, <2>2
  <1>5. Elements(d) = Elements(d) \ {n}
    BY <1>3
  <1> QED
    BY <1>1, <1>2, <1>4, <1>5, WakeTurn

\* taskTimer() takes the task under its cursor off delQueue and resumes it.
LEMMA TimerWakeTurn ==
    ASSUME TypeOK, Turning, NEW r \in Seq(Tasks), NEW d \in Seq(Tasks), Held(r, d), TimerWake
    PROVE  \E k \in 1..Len(d) : d[k] = qEntry /\ TurnedTo(r, Without(d, k))
  <1>1. /\ exitCode = "none" /\ inTimer /\ qEntry # NULL /\ qEntry' = queues.next[qEntry]
        /\ resumeTask(dequeue(queues, "delQueue", qEntry), qEntry)
        /\ UNCHANGED <<currentTask, cpu, pc, alive, inTimer>>
    BY DEF TimerWake, Live, cpuVars, callVars
  <1>2. queues \in Queues /\ Both(queues, r, d) /\ qEntry \in Elements(d)
    BY <1>1 DEF TypeOK, Queues, Held
  <1>3. PICK k \in 1..Len(d) : d[k] = qEntry
    BY <1>2 DEF Elements
  <1>4. qEntry \in Tasks
    BY <1>2, ElementsIn
  <1>5. qEntry \in alive /\ "SUSPENDED" \in taskState[qEntry] /\ qEntry # currentTask
    BY <1>1, <1>2 DEF Held, Sleepers
  <1>6. /\ Without(d, k) \in Seq(Tasks) /\ Elements(Without(d, k)) = Elements(d) \ {qEntry}
        /\ Both(dequeue(queues, "delQueue", qEntry), r, Without(d, k))
    BY <1>2, <1>3, DequeueDel
  <1>7. dequeue(queues, "delQueue", qEntry) \in Queues
    BY <1>2, <1>4, DequeueType
  <1>8. qEntry' # NULL => qEntry' \in Elements(Without(d, k))
    <2>1. IsList(d, queues.delQueue.head, queues.next, queues.prev, NULL)
      BY <1>2 DEF Both, Stands
    <2>2. queues.next[qEntry] \in (Elements(d) \ {qEntry}) \cup {NULL}
      BY <1>2, <2>1, Neighbours
    <2> QED
      BY <1>1, <1>6, <2>2
  <1>9. TurnedTo(r, Without(d, k))
    BY <1>1, <1>4, <1>5, <1>6, <1>7, <1>8, WakeTurn
  <1> QED
    BY <1>3, <1>9

\* schedule() gives the processor to the first task in line.
LEMMA SwitchTurn ==
    ASSUME TypeOK, Turning, NEW r \in Seq(Tasks), NEW d \in Seq(Tasks), Held(r, d),
           \A t \in Elements(d) : "SUSPENDED" \in taskState[t],
           NEW saved, NEW above, Switch(saved, above), UNCHANGED <<alive, taskState>>, ~inTimer'
    PROVE  TurnedTo(r, d) /\ currentTask' \in alive /\ taskState[currentTask'] = {}
  <1> DEFINE waits == currentTask \in Blocked \cup {Idle}
  <1>0. queues \in Queues /\ Both(queues, r, d) /\ Elements(r) = Ready /\ currentTask \in Tasks
    BY DEF TypeOK, Queues, Held
  <1>1. /\ IF Requeued.runQueue.head # NULL
           THEN currentTask' = Requeued.runQueue.head /\ queues' = takeHead(Requeued)
           ELSE currentTask' = Idle /\ queues' = Requeued
    BY DEF Switch
  <1>2. waits <=> ~(currentTask # Idle /\ taskState[currentTask] = {})
    BY DEF Blocked, Turning
  <1>3. PICK l \in Seq(Tasks) :
            /\ l = IF waits THEN r ELSE Append(r, currentTask)
            /\ Both(Requeued, l, d) /\ Requeued \in Queues
            /\ Elements(l) = {t \in alive \ {Idle} : taskState[t] = {}}
    <2>1. CASE waits
      BY <1>0, <1>2, <2>1 DEF Requeued, Ready
    <2>2. CASE ~waits
      <3>1. currentTask \notin Elements(r) /\ currentTask \notin Elements(d) /\ currentTask \in alive
        BY <1>0, <1>2, <2>2 DEF Ready, Turning
      <3>2. Requeued = enqueue(queues, "runQueue", currentTask)
        BY <1>2, <2>2 DEF Requeued
      <3>3. enqueue(queues, "runQueue", currentTask) \in Queues
        BY <1>0, EnqueueType
      <3>4. /\ Append(r, currentTask) \in Seq(Tasks)
            /\ Elements(Append(r, currentTask)) = Elements(r) \cup {currentTask}
            /\ Both(enqueue(queues, "runQueue", currentTask), Append(r, currentTask), d)
        BY <1>0, <2>2, <3>1, EnqueueRun
      <3> QED
        BY <1>0, <1>2, <2>2, <3>1, <3>2, <3>3, <3>4 DEF Ready
    <2> QED
      BY <2>1, <2>2
  <1>4. Blocked' = Blocked
    BY DEF Blocked
  <1>5. Sleepers(d)'
    BY DEF Held, Sleepers
  <1>6. CASE Requeued.runQueue.head # NULL
    <2>1. /\ Len(l) # 0 /\ currentTask' = Head(l) /\ Head(l) \in Elements(l)
          /\ Both(queues, Tail(l), d)' /\ Tail(l) \in Seq(Tasks)
          /\ Elements(Tail(l)) = Elements(l) \ {Head(l)}
      <3>1. PICK q \in Queues : q = Requeued
        BY <1>3
      <3>2. Both(q, l, d) /\ q.runQueue.head # NULL
        BY <1>3, <1>6, <3>1
      <3>3. currentTask' = q.runQueue.head /\ queues' = takeHead(q)
        BY <1>1, <1>6, <3>1
      <3>4. /\ Len(l) # 0 /\ q.runQueue.head = Head(l) /\ Head(l) \in Elements(l)
            /\ Both(takeHead(q), Tail(l), d) /\ Tail(l) \in Seq(Tasks)
            /\ Elements(Tail(l)) = Elements(l) \ {Head(l)}
        BY <3>2, TakeHeadRemoves
      <3> QED
        BY <3>3, <3>4
    <2>2. Ready' = Elements(Tail(l)) /\ Idle # currentTask'
      BY <1>3, <2>1 DEF Ready
    <2>3. Held(Tail(l), d)'
      BY <1>5, <2>1, <2>2 DEF Held
    <2>4. l # <<>>
      BY <2>1
    <2>5. Turn(r, Tail(l))
      BY <1>3, <1>4, <2>1, <2>4 DEF Turn
    <2> QED
      BY <1>3, <2>1, <2>3, <2>5 DEF TurnedTo
  <1>7. CASE Requeued.runQueue.head = NULL
    <2>1. Len(l) = 0 /\ l = <<>>
      <3>1. IsList(l, Requeued.runQueue.head, Requeued.next, Requeued.prev, NULL)
        BY <1>3 DEF Both, Stands
      <3>2. Len(l) # 0 => l[1] \in Tasks
        BY <1>3, LenProperties
      <3>3. Len(l) = 0
        BY <1>7, <3>1, <3>2, TasksAssumption DEF IsList, Forward
      <3> QED
        BY <1>3, <3>3
    <2>2. Elements(l) = {}
      BY <2>1 DEF Elements
    <2>3. currentTask' = Idle /\ queues' = Requeued
      BY <1>1, <1>7
    <2>4. Held(l, d)'
      BY <1>3, <1>5, <2>2, <2>3 DEF Held, Ready
    <2>5. Turn(r, l)
      BY <1>3, <1>4, <2>1, <2>3 DEF Turn
    <2> QED
      BY <1>3, <2>3, <2>4, <2>5 DEF TurnedTo, Turning
  <1> QED
    BY <1>6, <1>7

\* schedule() called by a task in yieldTask() or by the clock: it turns, or
\* leaves everything as it is.
LEMMA ScheduleTurn ==
    ASSUME TypeOK, Turning, NEW r \in Seq(Tasks), NEW d \in Seq(Tasks), Held(r, d),
           \A t \in Elements(d) : "SUSPENDED" \in taskState[t],
           NEW saved, NEW above, schedule(saved, above),
           UNCHANGED <<alive, taskState, qEntry>>, ~inTimer'
    PROVE  /\ TurnedTo(r, d)
           /\ \/ UNCHANGED <<currentTask, cpu>> /\ ((taskLocked # 0 /\ UNCHANGED exitVars) \/ exitCode' # "none")
              \/ currentTask' \in alive /\ taskState[currentTask'] = {} /\ taskLocked = 0
  <1>1. CASE LockedOut \/ Quit
    <2>1. UNCHANGED <<queues, currentTask, cpu>>
      BY <1>1 DEF LockedOut, Quit, cpuVars
    <2>2. TurnedTo(r, d)
      BY <2>1, QuietTurn
    <2>3. (taskLocked # 0 /\ UNCHANGED exitVars) \/ exitCode' # "none"
      BY <1>1 DEF LockedOut, Quit
    <2> QED
      BY <2>1, <2>2, <2>3
  <1>2. CASE Switch(saved, above)
    <2>1. TurnedTo(r, d) /\ currentTask' \in alive /\ taskState[currentTask'] = {}
      BY <1>2, SwitchTurn
    <2> QED
      BY <1>2, <2>1 DEF Switch
  <1> QED
    BY <1>1, <1>2 DEF schedule

\* schedule() in its turn takes the front of the line, which is able to run.
LEMMA EnterTurn ==
    ASSUME TypeOK, Turning, NEW r \in Seq(Tasks), NEW d \in Seq(Tasks), Held(r, d),
           NEW t \in Tasks, Enter(t)
    PROVE  /\ TurnedTo(r, d)
           /\ \/ UNCHANGED <<currentTask, cpu>> /\ exitCode' # "none"
              \/ currentTask' \in alive /\ taskState[currentTask'] = {} /\ taskLocked = 0
  <1>1. /\ t = currentTask /\ pc[t] \in {"yield", "suspending"} /\ exitCode = "none" /\ ~inTimer
        /\ schedule(<<>>, <<t>>) /\ UNCHANGED <<alive, taskState, qEntry, inTimer>>
    BY DEF Enter, Running, Live, taskVars, timerVars
  <1>2. \A u \in Elements(d) : "SUSPENDED" \in taskState[u]
    BY <1>1, AsleepAll DEF Held
  <1>3. taskLocked = 0
    BY <1>1 DEF Turning
  <1> QED
    BY <1>1, <1>2, <1>3, ScheduleTurn

\* So it does when the clock preempts a task.
LEMMA PreemptTurn ==
    ASSUME TypeOK, Turning, NEW r \in Seq(Tasks), NEW d \in Seq(Tasks), Held(r, d), TimerPreempt
    PROVE  /\ TurnedTo(r, d)
           /\ \/ UNCHANGED <<currentTask, cpu>> /\ ((taskLocked # 0 /\ UNCHANGED exitVars) \/ exitCode' # "none")
              \/ currentTask' \in alive /\ taskState[currentTask'] = {} /\ taskLocked = 0
  <1>1. inTimer /\ ~inTimer' /\ schedule(cpu, <<>>) /\ UNCHANGED <<alive, taskState, qEntry>>
    BY DEF TimerPreempt, taskVars
  <1>2. \A u \in Elements(d) : "SUSPENDED" \in taskState[u]
    BY <1>1 DEF Held, Sleepers
  <1> QED
    BY <1>1, <1>2, ScheduleTurn

\* A running task that has been waiting for another one discards it.
LEMMA CollectTurn ==
    ASSUME Undisturbed, TypeOK, Turning, Handles,
           NEW r \in Seq(Tasks), NEW d \in Seq(Tasks), Held(r, d),
           NEW t \in Tasks, NEW n \in Tasks,
           deleteTask(t, n) \/ (WaitCollect(t) /\ n = waitingFor[t])
    PROVE  TurnedTo(r, d)
  <1>1. /\ t = currentTask /\ ~inTimer /\ Discard(n)
    BY DEF deleteTask, WaitCollect, Polling, Call, InUser, Running
  <1>2. parent[n] = t /\ n # t /\ n \in alive /\ n # Idle
    <2>1. parent[n] = t
      BY TasksAssumption DEF deleteTask, WaitCollect, Polling, Handles
    <2> QED
      BY <2>1, TasksAssumption DEF Handles
  <1>3. n \notin Elements(d)
    <2>1. CASE deleteTask(t, n)
      <3>1. queues \in Queues /\ Stands(queues, "delQueue", d)
        BY DEF TypeOK, Queues, Held, Both
      <3>2. n \notin Members(queues, "delQueue")
        BY <2>1 DEF deleteTask, Undisturbed
      <3> QED
        BY <3>1, <3>2, WalkQueue
    <2>2. CASE WaitCollect(t) /\ n = waitingFor[t]
      <3>1. "EXITING" \in taskState[n]
        BY <2>2 DEF WaitCollect
      <3>2. "SUSPENDED" \notin taskState[n]
        BY <3>1, OneState
      <3> QED
        BY <1>1, <1>2, <3>2 DEF Held, Sleepers
    <2> QED
      BY <2>1, <2>2
  <1> QED
    BY <1>1, <1>2, <1>3, DiscardTurn

\* Every step of the scheduler keeps the queues and is a turn.
LEMMA TurnNext ==
    ASSUME Undisturbed, TypeOK, Turning, Handles,
           NEW r \in Seq(Tasks), NEW d \in Seq(Tasks), Held(r, d), [Next]_vars
    PROVE  \/ TurnedTo(r, d)
           \/ TimerWake /\ \E k \in 1..Len(d) : d[k] = qEntry /\ TurnedTo(r, Without(d, k))
           \/ \E t \in Tasks, ticks \in 0..MaxDelay : delayTask(t, ticks) /\ TurnedTo(r, Append(d, t))
  <1>0. queues \in Queues /\ Both(queues, r, d) /\ Sleepers(d)
    BY DEF TypeOK, Queues, Held
  <1>1. ASSUME NEW t \in Tasks, Yield(t) \/ WaitPoll(t) \/ quitScheduler(t)
        PROVE  TurnedTo(r, d)
    <2>1. /\ pc[currentTask] = "user" /\ exitCode = "none" /\ ~inTimer
          /\ UNCHANGED <<queues, currentTask, alive, taskState, inTimer, qEntry>>
      BY <1>1 DEF Yield, WaitPoll, quitScheduler, Polling, Call, InUser, Running, Live,
                  taskVars, cpuVars, timerVars
    <2> QED
      BY <1>0, <2>1, AsleepAll, QuietTurn DEF Held
  <1>2. ASSUME NEW t \in Tasks, NEW n \in Tasks,
               waitTask(t, n) \/ WaitTimeOut(t) \/ lockTask(t) \/ unlockTask(t)
        PROVE  TurnedTo(r, d)
    <2>1. /\ ~inTimer /\ UNCHANGED <<queues, currentTask, alive, taskState, inTimer, qEntry, pc, cpu>>
      BY <1>2 DEF waitTask, WaitTimeOut, lockTask, unlockTask, Polling, Call, InUser, Running,
                  taskVars, cpuVars, timerVars, callVars
    <2>2. \A u \in Elements(d) : "SUSPENDED" \in taskState[u] \/ (pc'[u] = "queued" /\ cpu' = <<>>)
      BY <1>0, <2>1 DEF Sleepers
    <2> QED
      BY <2>1, <2>2, QuietTurn DEF Held
  <1>3. CASE taskTimer
    <2>1. /\ exitCode = "none" /\ (InterruptWindows \/ ~InWindow) /\ qEntry' = queues.delQueue.head
          /\ UNCHANGED <<queues, currentTask, alive, taskState, pc, cpu>>
      BY <1>3 DEF taskTimer, Interruptible, Live, taskVars, cpuVars, callVars
    <2>2. currentTask \notin Elements(d)
      BY <1>0, <2>1 DEF InWindow, Undisturbed, Held, Sleepers, Turning
    <2>3. qEntry' \in Elements(d) \cup {NULL}
      BY <1>0, <2>1, Neighbours DEF Both, Stands
    <2>4. \A u \in Elements(d) : "SUSPENDED" \in taskState[u] \/ (pc'[u] = "queued" /\ cpu' = <<>>)
      BY <1>0, <2>1 DEF Sleepers
    <2> QED
      BY <2>1, <2>2, <2>3, <2>4, QuietTurn
  <1>4. CASE TimerSleep
    <2>1. /\ inTimer /\ inTimer' /\ qEntry # NULL /\ qEntry' = queues.next[qEntry]
          /\ UNCHANGED <<queues, currentTask, alive, taskState, pc, cpu>>
      BY <1>4 DEF TimerSleep, cpuVars, callVars
    <2>2. qEntry \in Elements(d)
      BY <2>1 DEF Held
    <2>3. qEntry' \in Elements(d) \cup {NULL}
      BY <1>0, <2>1, <2>2, Neighbours DEF Both, Stands
    <2>4. /\ \A u \in Elements(d) : "SUSPENDED" \in taskState[u] \/ (pc'[u] = "queued" /\ cpu' = <<>>)
          /\ currentTask \notin Elements(d)
      BY <1>0, <2>1 DEF Sleepers
    <2> QED
      BY <2>1, <2>3, <2>4, QuietTurn
  <1>5. CASE TimerReturn \/ UNCHANGED vars
    <2>1. /\ UNCHANGED <<queues, currentTask, alive, taskState, pc, cpu, qEntry>>
          /\ ~inTimer' \/ inTimer' = inTimer
      BY <1>5 DEF TimerReturn, vars, taskVars, cpuVars, callVars, timerVars
    <2>2. /\ \A u \in Elements(d) : "SUSPENDED" \in taskState[u] \/ (pc'[u] = "queued" /\ cpu' = <<>>)
          /\ currentTask \in Elements(d) => ~inTimer'
      BY <1>0, <2>1 DEF Sleepers
    <2> QED
      BY <2>1, <2>2, QuietTurn DEF Held
  <1>6. CASE SwitchStack
    <2>1. /\ exitCode = "none" /\ ~inTimer /\ cpu # <<>>
          /\ UNCHANGED <<queues, currentTask, alive, taskState, pc, inTimer, qEntry>>
      BY <1>6 DEF SwitchStack, Live, taskVars, callVars, timerVars
    <2>2. \A u \in Elements(d) : "SUSPENDED" \in taskState[u]
      BY <1>0, <2>1 DEF Sleepers
    <2> QED
      BY <2>1, <2>2, QuietTurn DEF Held
  <1>7. ASSUME NEW t \in Tasks, WaitCollect(t) PROVE TurnedTo(r, d)
    <2>1. waitingFor[t] \in Tasks
      BY <1>7 DEF WaitCollect, Polling, TypeOK, Ptr
    <2> QED
      BY <1>7, <2>1, CollectTurn
  <1>8. ASSUME NEW t \in Tasks, TaskStep(t)
        PROVE  \/ TurnedTo(r, d)
               \/ \E ticks \in 0..MaxDelay : delayTask(t, ticks) /\ TurnedTo(r, Append(d, t))
    BY <1>1, <1>2, <1>7, <1>8, EnterTurn, BlockTurn, DelayTurn, NewTurn, CollectTurn, ResumeTurn
    DEF TaskStep
  <1>9. CASE \E n \in Tasks : InterruptResume(n)
    BY <1>9, ResumeTurn, TasksAssumption
  <1> QED
    BY <1>3, <1>4, <1>5, <1>6, <1>8, <1>9, TimerWakeTurn, PreemptTurn DEF Next, Interrupt, Terminated

\* Whatever the step, runQueue is afterwards the line that a turn leaves.
LEMMA TurnedSome ==
    ASSUME Undisturbed, TypeOK, Turning, Handles,
           NEW r \in Seq(Tasks), NEW d \in Seq(Tasks), Held(r, d), [Next]_vars
    PROVE  \E d2 \in Seq(Tasks) : TurnedTo(r, d2)
  <1>1. \A t \in Tasks : Append(d, t) \in Seq(Tasks)
    OBVIOUS
  <1>2. \A k \in 1..Len(d) : Without(d, k) \in Seq(Tasks)
    BY WithoutElements DEF Held, Both, Stands, IsList, Forward
  <1> QED
    BY <1>1, <1>2, TurnNext

-----------------------------------------------------------------------------
(* The running task, the handles and the count.                            *)

\* A blocked or exited task runs no further than its call of schedule().
LEMMA TurningNext ==
    ASSUME Undisturbed, TypeOK, TypeOK', Turning, Handles,
           NEW r \in Seq(Tasks), NEW d \in Seq(Tasks), Held(r, d), [Next]_vars
    PROVE  Turning'
  <1>0. /\ currentTask \in Tasks /\ Idle \in Tasks
        /\ pc \in [Tasks -> {"user", "queued", "suspending", "yield"}]
        /\ taskState \in [Tasks -> SUBSET {"SUSPENDED", "EXITING"}]
    BY TasksAssumption DEF TypeOK
  <1>1. ASSUME NEW t \in Tasks, Yield(t) \/ WaitPoll(t) \/ quitScheduler(t)
        PROVE  Turning'
    <2>1. /\ t = currentTask /\ pc[t] = "user" /\ exitCode = "none" /\ taskLocked' = 0
          /\ pc' = [pc EXCEPT ![t] = "yield"]
          /\ UNCHANGED <<currentTask, alive, taskState, cpu>>
      BY <1>1 DEF Yield, WaitPoll, quitScheduler, Polling, Call, InUser, Running, Live,
                  taskVars, cpuVars, yieldTask, GoTo
    <2> QED
      BY <1>0, <2>1 DEF Turning
  <1>2. ASSUME NEW t \in Tasks, NEW n \in Tasks,
               waitTask(t, n) \/ WaitTimeOut(t) \/ lockTask(t) \/ unlockTask(t)
        PROVE  Turning'
    <2>1. /\ pc[currentTask] = "user" /\ UNCHANGED <<currentTask, alive, taskState, pc, cpu, exitCode>>
      BY <1>2 DEF waitTask, WaitTimeOut, lockTask, unlockTask, Polling, Call, InUser, Running,
                  taskVars, cpuVars, callVars, exitVars
    <2> QED
      BY <2>1 DEF Turning
  <1>3. ASSUME NEW t \in Tasks, taskExit(t) \/ Suspend(t) \/ DelaySuspend(t)
        PROVE  Turning'
    <2>1. /\ t = currentTask /\ pc[t] # "yield" /\ t # Idle /\ exitCode = "none" /\ taskLocked' = 0
          /\ cpu = <<>> /\ UNCHANGED <<currentTask, alive, cpu>>
      BY <1>3 DEF taskExit, Suspend, DelaySuspend, suspendTask, Call, InUser, Running, Live,
                  cpuVars, yieldTask, Turning
    <2>2. "EXITING" \notin taskState[t]
      BY <2>1 DEF Turning
    <2>3. \/ pc'[t] = "yield" /\ taskState' = [taskState EXCEPT ![t] = {"EXITING"}]
          \/ pc'[t] = "suspending" /\ taskState' = [taskState EXCEPT ![t] = @ \cup {"SUSPENDED"}]
      BY <1>0, <1>3 DEF taskExit, Suspend, DelaySuspend, suspendTask, yieldTask, GoTo
    <2>4. pc'[Idle] = pc[Idle]
      BY <1>0, <1>3, <2>1 DEF taskExit, Suspend, DelaySuspend, suspendTask, yieldTask, GoTo
    <2>5. /\ "EXITING" \in taskState'[t] => pc'[t] = "yield"
          /\ "SUSPENDED" \in taskState'[t] => pc'[t] = "suspending"
          /\ taskState'[t] # {"SUSPENDED", "EXITING"}
          /\ \A u \in Tasks \ {t} : taskState'[u] = taskState[u]
      <3>1. \/ pc'[t] = "yield" /\ taskState'[t] = {"EXITING"}
            \/ pc'[t] = "suspending" /\ taskState'[t] = taskState[t] \cup {"SUSPENDED"}
        BY <1>0, <2>1, <2>3
      <3>2. "EXITING" \in taskState'[t] <=> pc'[t] = "yield"
        BY <2>2, <3>1
      <3>3. "SUSPENDED" \in taskState'[t] => pc'[t] = "suspending"
        BY <3>1
      <3>4. \A u \in Tasks \ {t} : taskState'[u] = taskState[u]
        BY <1>0, <2>3
      <3>5. taskState'[t] # {"SUSPENDED", "EXITING"}
        <4>1. ~("EXITING" \in taskState'[t] /\ "SUSPENDED" \in taskState'[t])
          BY <3>2, <3>3
        <4> QED
          BY <4>1
      <3> QED
        BY <3>2, <3>3, <3>4, <3>5
    <2> QED
      BY <1>0, <2>1, <2>4, <2>5 DEF Turning
  <1>4. ASSUME NEW t \in Tasks, NEW n \in Tasks, newTask(t, n) PROVE Turning'
    <2>1. /\ n \notin alive /\ alive' = alive \cup {n} /\ taskState' = [taskState EXCEPT ![n] = {}]
          /\ UNCHANGED <<currentTask, cpu, pc, taskLocked, exitCode>>
      BY <1>4 DEF newTask, lockVars, exitVars
    <2> QED
      BY <1>0, <2>1 DEF Turning
  <1>5. ASSUME NEW t \in Tasks, NEW ticks, delayTask(t, ticks) PROVE Turning'
    <2>1. /\ t = currentTask /\ pc[t] = "user" /\ t # Idle /\ exitCode = "none"
          /\ pc' = [pc EXCEPT ![t] = "queued"]
          /\ UNCHANGED <<currentTask, alive, taskState, cpu>>
      BY <1>5 DEF delayTask, Call, InUser, Running, Live, cpuVars, GoTo
    <2> QED
      BY <1>0, <2>1 DEF Turning
  <1>6. ASSUME NEW t \in Tasks, NEW n \in Tasks,
               deleteTask(t, n) \/ (WaitCollect(t) /\ n = waitingFor[t])
        PROVE  Turning'
    <2>1. parent[n] = t /\ t = currentTask
      BY <1>6, TasksAssumption
      DEF deleteTask, WaitCollect, Polling, Call, InUser, Running, Handles
    <2>2. n # t /\ n # Idle
      BY <2>1, TasksAssumption DEF Handles
    <2>3. /\ alive' = alive \ {n} /\ pc' = [pc EXCEPT ![n] = "user"]
          /\ UNCHANGED <<currentTask, taskState, cpu, taskLocked, exitCode>>
      BY <1>6 DEF deleteTask, WaitCollect, Discard, GoTo, exitVars
    <2> QED
      BY <1>0, <2>1, <2>2, <2>3 DEF Turning
  <1>7. ASSUME NEW n \in Tasks, NEW q, resumeTask(q, n),
               UNCHANGED <<currentTask, alive, cpu, pc, taskLocked, exitCode>>
        PROVE  Turning'
    <2>1. \A u \in Tasks : taskState'[u] = taskState[u] \/ taskState'[u] = taskState[u] \ {"SUSPENDED"}
      BY <1>0, <1>7 DEF resumeTask
    <2>2. \A u \in Tasks : taskState'[u] \subseteq taskState[u] /\ taskState'[u] # {"SUSPENDED", "EXITING"}
      BY <2>1 DEF Turning
    <2>3. taskState'[Idle] = {} /\ (taskState'[currentTask] # {} => taskState[currentTask] # {})
      BY <1>0, <2>2 DEF Turning
    <2> QED
      BY <1>0, <1>7, <2>2, <2>3 DEF Turning
  <1>8. ASSUME NEW t \in Tasks, NEW n \in Tasks, Resume(t, n) \/ InterruptResume(n) PROVE Turning'
    BY <1>7, <1>8 DEF Resume, InterruptResume, lockVars, cpuVars, callVars, exitVars
  <1>9. CASE TimerWake
    <2>1. qEntry \in Tasks
      BY <1>9 DEF TimerWake, TypeOK, Ptr
    <2> QED
      BY <1>7, <1>9, <2>1 DEF TimerWake, lockVars, cpuVars, callVars, exitVars
  <1>10. CASE taskTimer \/ TimerSleep \/ TimerReturn \/ UNCHANGED vars
    <2>1. UNCHANGED <<currentTask, alive, taskState, pc, cpu, taskLocked, exitCode>>
      BY <1>10 DEF taskTimer, TimerSleep, TimerReturn, vars, taskVars, lockVars, cpuVars,
                   callVars, exitVars
    <2> QED
      BY <2>1 DEF Turning
  <1>11. CASE SwitchStack
    <2>1. cpu # <<>> /\ exitCode = "none" /\ UNCHANGED <<currentTask, alive, taskState, pc, taskLocked, exitCode>>
      BY <1>11 DEF SwitchStack, Live, taskVars, lockVars, callVars, exitVars
    <2> QED
      BY <2>1 DEF Turning
  <1>12. ASSUME NEW t \in Tasks, Enter(t) PROVE Turning'
    <2>1. /\ pc' = [pc EXCEPT ![t] = "user"] /\ UNCHANGED <<alive, taskState, taskLocked>>
      BY <1>12 DEF Enter, GoTo, taskVars, lockVars
    <2>2. \/ currentTask' = currentTask /\ exitCode' # "none"
          \/ currentTask' \in alive /\ taskState[currentTask'] = {} /\ taskLocked = 0
      BY <1>12, EnterTurn
    <2> QED
      BY <1>0, <2>1, <2>2 DEF Turning
  <1>13. CASE TimerPreempt
    <2>1. UNCHANGED <<alive, taskState, taskLocked, pc>>
      BY <1>13 DEF TimerPreempt, taskVars, lockVars, callVars
    <2>2. \/ UNCHANGED <<currentTask, cpu>> /\ (exitCode' = exitCode \/ exitCode' # "none")
          \/ currentTask' \in alive /\ taskState[currentTask'] = {} /\ taskLocked = 0
      BY <1>13, PreemptTurn DEF exitVars
    <2> QED
      BY <2>1, <2>2 DEF Turning
  <1>14. ASSUME NEW t \in Tasks, WaitCollect(t) PROVE Turning'
    <2>1. waitingFor[t] \in Tasks
      BY <1>14 DEF WaitCollect, Polling, TypeOK, Ptr
    <2> QED
      BY <1>6, <1>14, <2>1
  <1>15. ASSUME NEW t \in Tasks, TaskStep(t) PROVE Turning'
    BY <1>1, <1>2, <1>3, <1>4, <1>5, <1>6, <1>8, <1>12, <1>14, <1>15 DEF TaskStep
  <1>16. CASE \E n \in Tasks : InterruptResume(n)
    BY <1>8, <1>16, TasksAssumption
  <1> QED
    BY <1>9, <1>10, <1>11, <1>13, <1>15, <1>16 DEF Next, Interrupt, Terminated

\* Handles stay with the tasks that made them.
LEMMA HandlesNext ==
    ASSUME TypeOK, Turning, Handles, [Next]_vars
    PROVE  Handles'
  <1>0. /\ parent \in [Tasks -> Ptr] /\ waitingFor \in [Tasks -> Ptr] /\ alive \subseteq Tasks
        /\ NULL \notin Tasks /\ Idle \in Tasks /\ currentTask \in alive
    BY TasksAssumption DEF TypeOK, Turning
  <1>1. ASSUME NEW t \in Tasks, NEW n \in Tasks, newTask(t, n) PROVE Handles'
    <2>1. /\ n \notin alive /\ alive' = alive \cup {n} /\ parent' = [parent EXCEPT ![n] = t]
          /\ waitingFor' = waitingFor /\ t \in alive
      BY <1>0, <1>1 DEF newTask, Call, InUser, Running
    <2>2. n # Idle /\ parent[n] = NULL
      BY <1>0, <2>1 DEF Handles, Turning
    <2> QED
      BY <1>0, <2>1, <2>2 DEF Handles, Ptr
  <1>2. ASSUME NEW t \in Tasks, NEW n \in Tasks, waitTask(t, n) PROVE Handles'
    <2>1. /\ parent[n] = t /\ waitingFor' = [waitingFor EXCEPT ![t] = n] /\ t \in alive
          /\ UNCHANGED <<parent, alive>>
      BY <1>0, <1>2 DEF waitTask, Call, InUser, Running, taskVars
    <2> QED
      BY <1>0, <2>1 DEF Handles
  <1>3. ASSUME NEW t \in Tasks, WaitTimeOut(t) PROVE Handles'
    <2>1. waitingFor' = [waitingFor EXCEPT ![t] = NULL] /\ UNCHANGED <<parent, alive>>
      BY <1>3 DEF WaitTimeOut, taskVars
    <2> QED
      BY <1>0, <2>1 DEF Handles
  <1>4. ASSUME NEW t \in Tasks, NEW n \in Tasks,
               deleteTask(t, n) \/ (WaitCollect(t) /\ n = waitingFor[t])
        PROVE  Handles'
    <2>1. parent[n] = t
      BY <1>0, <1>4 DEF deleteTask, WaitCollect, Polling, Handles
    <2>2. n # t /\ n # Idle
      BY <1>0, <2>1 DEF Handles
    <2>3. /\ alive' = alive \ {n}
          /\ \A u \in Tasks : parent'[u] = IF u = n \/ parent[u] = n THEN NULL ELSE parent[u]
      BY <1>4 DEF deleteTask, WaitCollect, Discard
    <2>4. /\ waitingFor'[n] = NULL /\ waitingFor'[t] = NULL
          /\ \A u \in Tasks \ {n, t} : waitingFor'[u] = waitingFor[u]
      BY <1>0, <1>4, <2>2 DEF deleteTask, WaitCollect, Call, InUser
    <2>5. parent'[Idle] = NULL
      BY <1>0, <2>3 DEF Handles
    <2>6. ASSUME NEW u \in Tasks, waitingFor'[u] # NULL
          PROVE  parent'[waitingFor'[u]] = u /\ u \in alive'
      <3>1. u # n /\ u # t /\ waitingFor'[u] = waitingFor[u] /\ waitingFor[u] \in Tasks
        BY <1>0, <2>4, <2>6 DEF Ptr
      <3>2. parent[waitingFor[u]] = u /\ u \in alive
        BY <2>6, <3>1 DEF Handles
      <3> QED
        BY <2>1, <2>3, <3>1, <3>2
    <2>7. ASSUME NEW u \in Tasks, parent'[u] # NULL
          PROVE  u \in alive' /\ parent'[u] \in alive' /\ parent'[u] # u
      BY <2>3, <2>7 DEF Handles
    <2> QED
      BY <2>5, <2>6, <2>7 DEF Handles
  <1>5. ASSUME UNCHANGED <<parent, waitingFor, alive>> PROVE Handles'
    BY <1>5 DEF Handles
  <1>6. ASSUME NEW t \in Tasks, WaitCollect(t) PROVE Handles'
    <2>1. waitingFor[t] \in Tasks
      BY <1>0, <1>6 DEF WaitCollect, Polling, Ptr
    <2> QED
      BY <1>4, <1>6, <2>1
  <1>7. ASSUME NEW t \in Tasks, TaskStep(t) PROVE Handles'
    <2>1. CASE \/ Yield(t) \/ Enter(t) \/ taskExit(t) \/ Suspend(t) \/ DelaySuspend(t) \/ WaitPoll(t)
               \/ lockTask(t) \/ unlockTask(t) \/ quitScheduler(t)
               \/ \E n \in Tasks : Resume(t, n)
               \/ \E d \in 0..MaxDelay : delayTask(t, d)
      BY <1>5, <2>1 DEF Yield, Enter, taskExit, Suspend, DelaySuspend, suspendTask, WaitPoll,
         lockTask, unlockTask, quitScheduler, Resume, delayTask, taskVars, callVars
    <2> QED
      BY <1>1, <1>2, <1>3, <1>4, <1>6, <1>7, <2>1 DEF TaskStep
  <1>8. CASE Interrupt \/ SwitchStack \/ UNCHANGED vars
    BY <1>5, <1>8 DEF Interrupt, taskTimer, TimerSleep, TimerWake, TimerReturn, TimerPreempt,
       InterruptResume, SwitchStack, vars, taskVars, callVars
  <1> QED
    BY <1>7, <1>8 DEF Next, Terminated

\* nTasks goes up and down with the live tasks that have not exited.
LEMMA CountNext ==
    ASSUME TypeOK, TypeOK', Turning, Handles, CountInv, [Next]_vars
    PROVE  CountInv'
  <1> DEFINE Counted == {t \in alive : "EXITING" \notin taskState[t]}
  <1>0. /\ taskState \in [Tasks -> SUBSET {"SUSPENDED", "EXITING"}] /\ alive \subseteq Tasks
        /\ IsFiniteSet(Counted) /\ nTasks = Cardinality(Counted) /\ Cardinality(Counted) \in Nat
    <2>1. IsFiniteSet(Counted)
      BY TasksAssumption, FS_Subset DEF TypeOK
    <2> QED
      BY <2>1, FS_CardinalityType DEF TypeOK, CountInv
  <1>1. ASSUME nTasks' = nTasks, Counted' = Counted PROVE CountInv'
    BY <1>0, <1>1 DEF CountInv
  <1>2. ASSUME NEW n \in Tasks, n \in Counted, nTasks' = nTasks - 1, Counted' = Counted \ {n}
        PROVE  CountInv'
    <2>1. Cardinality(Counted \ {n}) = Cardinality(Counted) - 1
      BY <1>0, <1>2, FS_RemoveElement
    <2>2. nTasks' = Cardinality(Counted')
      BY <1>0, <1>2, <2>1
    <2> QED
      BY <2>2 DEF CountInv
  <1>3. ASSUME NEW n \in Tasks, n \notin Counted, nTasks' = nTasks + 1, Counted' = Counted \cup {n}
        PROVE  CountInv'
    <2>1. Cardinality(Counted \cup {n}) = Cardinality(Counted) + 1
      BY <1>0, <1>3, FS_AddElement
    <2>2. nTasks' = Cardinality(Counted')
      BY <1>0, <1>3, <2>1
    <2> QED
      BY <2>2 DEF CountInv
  <1>4. ASSUME NEW t \in Tasks, NEW n \in Tasks, newTask(t, n) PROVE CountInv'
    <2>1. /\ n \notin alive /\ alive' = alive \cup {n} /\ nTasks' = nTasks + 1
          /\ taskState' = [taskState EXCEPT ![n] = {}]
      BY <1>4 DEF newTask
    <2>2. Counted' = Counted \cup {n}
      <3>1. /\ \A u \in alive : u # n /\ taskState'[u] = taskState[u]
            /\ taskState'[n] = {}
        BY <1>0, <2>1
      <3> QED
        BY <2>1, <3>1
    <2> QED
      BY <1>3, <2>1, <2>2
  <1>5. ASSUME NEW t \in Tasks, taskExit(t) PROVE CountInv'
    <2>1. /\ t = currentTask /\ pc[t] = "user" /\ exitCode = "none" /\ nTasks' = nTasks - 1
          /\ taskState' = [taskState EXCEPT ![t] = {"EXITING"}] /\ alive' = alive
      BY <1>5 DEF taskExit, Call, InUser, Running, Live
    <2>2. t \in Counted
      BY <2>1 DEF Turning
    <2>3. Counted' = Counted \ {t}
      <3>1. /\ \A u \in alive \ {t} : taskState'[u] = taskState[u]
            /\ taskState'[t] = {"EXITING"}
        BY <1>0, <2>1
      <3> QED
        BY <2>1, <3>1
    <2> QED
      BY <1>2, <2>1, <2>2, <2>3
  <1>6. ASSUME NEW t \in Tasks, Suspend(t) \/ DelaySuspend(t) PROVE CountInv'
    <2>1. /\ nTasks' = nTasks /\ taskState' = [taskState EXCEPT ![t] = @ \cup {"SUSPENDED"}]
          /\ alive' = alive
      BY <1>6 DEF Suspend, DelaySuspend, suspendTask
    <2>2. \A u \in Tasks : "EXITING" \in taskState'[u] <=> "EXITING" \in taskState[u]
      BY <1>0, <2>1
    <2>3. Counted' = Counted
      BY <1>0, <2>1, <2>2
    <2> QED
      BY <1>1, <2>1, <2>3
  <1>7. ASSUME NEW n \in Tasks, NEW q, resumeTask(q, n), UNCHANGED <<alive, nTasks>> PROVE CountInv'
    <2>1. \A u \in Tasks : "EXITING" \in taskState'[u] <=> "EXITING" \in taskState[u]
      BY <1>0, <1>7 DEF resumeTask
    <2>2. Counted' = Counted
      BY <1>0, <1>7, <2>1
    <2> QED
      BY <1>1, <1>7, <2>2
  <1>8. ASSUME NEW n \in alive, Discard(n) PROVE CountInv'
    <2>1. /\ nTasks' = IF "EXITING" \in taskState[n] THEN nTasks ELSE nTasks - 1
          /\ alive' = alive \ {n} /\ taskState' = taskState
      BY <1>8 DEF Discard
    <2>2. Counted' = Counted \ {n}
      BY <2>1
    <2>3. CASE "EXITING" \in taskState[n]
      <3>1. Counted' = Counted
        BY <2>2, <2>3
      <3> QED
        BY <1>1, <2>1, <2>3, <3>1
    <2>4. CASE "EXITING" \notin taskState[n]
      <3>1. n \in Counted /\ n \in Tasks
        BY <1>0, <2>4
      <3> QED
        BY <1>2, <2>1, <2>2, <2>4, <3>1
    <2> QED
      BY <2>3, <2>4
  <1>9. ASSUME UNCHANGED <<alive, taskState, nTasks>> PROVE CountInv'
    <2>1. Counted' = Counted
      BY <1>9
    <2> QED
      BY <1>1, <1>9, <2>1
  <1> HIDE DEF Counted
  <1>10. ASSUME NEW t \in Tasks, TaskStep(t) PROVE CountInv'
    <2>1. CASE \/ Yield(t) \/ Enter(t) \/ WaitPoll(t) \/ WaitTimeOut(t)
               \/ lockTask(t) \/ unlockTask(t) \/ quitScheduler(t)
               \/ \E n \in Tasks : waitTask(t, n)
               \/ \E d \in 0..MaxDelay : delayTask(t, d)
      BY <1>9, <2>1 DEF Yield, Enter, WaitPoll, WaitTimeOut, lockTask, unlockTask, quitScheduler,
         waitTask, delayTask, taskVars
    <2>2. ASSUME NEW n \in Tasks, Resume(t, n) PROVE CountInv'
      BY <1>7, <2>2 DEF Resume
    <2>3. ASSUME NEW n \in Tasks, deleteTask(t, n) PROVE CountInv'
      BY <1>8, <2>3 DEF deleteTask
    <2>4. CASE WaitCollect(t)
      <3>1. waitingFor[t] \in Tasks /\ waitingFor[t] # NULL /\ Discard(waitingFor[t])
        BY <2>4 DEF WaitCollect, Polling, TypeOK, Ptr
      <3>2. waitingFor[t] \in alive
        BY <3>1, TasksAssumption DEF Handles
      <3> QED
        BY <1>8, <3>1, <3>2
    <2> QED
      BY <1>4, <1>5, <1>6, <1>10, <2>1, <2>2, <2>3, <2>4 DEF TaskStep
  <1>11. CASE Interrupt
    <2>1. CASE TimerWake
      <3>1. qEntry \in Tasks
        BY <2>1 DEF TimerWake, TypeOK, Ptr
      <3> QED
        BY <1>7, <2>1, <3>1 DEF TimerWake
    <2>2. CASE \E n \in Tasks : InterruptResume(n)
      BY <1>7, <2>2 DEF InterruptResume
    <2>3. CASE taskTimer \/ TimerSleep \/ TimerReturn \/ TimerPreempt
      BY <1>9, <2>3 DEF taskTimer, TimerSleep, TimerReturn, TimerPreempt, taskVars
    <2> QED
      BY <1>11, <2>1, <2>2, <2>3 DEF Interrupt
  <1>12. CASE SwitchStack \/ UNCHANGED vars
    BY <1>9, <1>12 DEF SwitchStack, vars, taskVars
  <1> QED
    BY <1>10, <1>11, <1>12 DEF Next, Terminated

-----------------------------------------------------------------------------
(* The theorems.                                                           *)

\* What the queues hold is only inductive together with how far a blocked task
\* still runs, whom handles belong to, and that each handle is used at most once.
TaskIInv ==
    /\ Undisturbed
    /\ TypeOK /\ Turning /\ Handles /\ CountInv
    /\ \E r, d \in Seq(Tasks) : Held(r, d)

\* The queues hold the invariant in the beginning, ...
LEMMA TaskIInit == Init /\ Undisturbed => TaskIInv
  <1> SUFFICES ASSUME Init, Undisturbed PROVE TaskIInv
    OBVIOUS
  <1>1. TypeOK
    BY TypeInit
  <1>2. Turning /\ Handles
    BY TasksAssumption DEF Init, Turning, Handles
  <1>3. CountInv
    <2>1. {t \in alive : "EXITING" \notin taskState[t]} = {Main, Idle}
      BY TasksAssumption DEF Init
    <2>2. Cardinality({Main, Idle}) = 2
      <3>1. Cardinality({Main}) = 1 /\ IsFiniteSet({Main})
        BY FS_Singleton
      <3>2. {Main} \cup {Idle} = {Main, Idle}
        OBVIOUS
      <3>3. Cardinality({Main} \cup {Idle}) = 1 + 1
        BY <3>1, TasksAssumption, FS_AddElement
      <3> QED
        BY <3>2, <3>3
    <2> QED
      BY <2>1, <2>2 DEF Init, CountInv
  <1>4. Held(<<>>, <<>>) /\ <<>> \in Seq(Tasks)
    <2>1. Len(<<>>) = 0 /\ Elements(<<>>) = {} /\ <<>> \in Seq(Tasks)
      BY DEF Elements
    <2>2. Both(queues, <<>>, <<>>)
      BY <2>1 DEF Init, Both, Stands, IsList, Forward, Backward, LastOf
    <2>3. Ready = {}
      BY DEF Init, Ready
    <2> QED
      BY <2>1, <2>2, <2>3 DEF Init, Held, Sleepers
  <1> QED
    BY <1>1, <1>2, <1>3, <1>4 DEF TaskIInv

\* ... and every step keeps it.
LEMMA TaskINext == TaskIInv /\ [Next]_vars => TaskIInv'
  <1> SUFFICES ASSUME TaskIInv, [Next]_vars PROVE TaskIInv'
    OBVIOUS
  <1>1. PICK r \in Seq(Tasks), d \in Seq(Tasks) : Held(r, d)
    BY DEF TaskIInv
  <1>2. Undisturbed /\ TypeOK /\ Turning /\ Handles /\ CountInv
    BY DEF TaskIInv
  <1>3. TypeOK'
    BY <1>2, TypeNext
  <1>4. Turning' /\ Handles' /\ CountInv'
    BY <1>1, <1>2, <1>3, TurningNext, HandlesNext, CountNext
  <1>5. \E d2 \in Seq(Tasks) : TurnedTo(r, d2)
    BY <1>1, <1>2, TurnedSome
  <1>6. \E r2, d2 \in Seq(Tasks) : Held(r2, d2)'
    BY <1>5 DEF TurnedTo
  <1>7. Undisturbed'
    BY <1>2 DEF Undisturbed
  <1> QED
    BY <1>3, <1>4, <1>6, <1>7 DEF TaskIInv

\* The invariant says what RunQueueSound, DelQueueSound and HandlesSound do.
LEMMA TaskISound ==
    ASSUME TaskIInv
    PROVE  RunQueueSound /\ DelQueueSound /\ HandlesSound
  <1>1. PICK r \in Seq(Tasks), d \in Seq(Tasks) : Held(r, d)
    BY DEF TaskIInv
  <1>2. queues \in Queues /\ Stands(queues, "runQueue", r) /\ Stands(queues, "delQueue", d)
    BY <1>1 DEF TaskIInv, TypeOK, Queues, Held, Both
  <1>3. Members(queues, "runQueue") = Elements(r) /\ WellFormed(queues, "runQueue")
    BY <1>2, WalkQueue
  <1>4. Members(queues, "delQueue") = Elements(d) /\ WellFormed(queues, "delQueue")
    BY <1>2, WalkQueue
  <1>5. RunQueueSound
    BY <1>1, <1>3 DEF RunQueueSound, Held
  <1>6. DelQueueSound
    BY <1>1, <1>4 DEF DelQueueSound, Held, Sleepers
  <1>7. HandlesSound
    <2>1. HandlesLive
      <3>1. ASSUME NEW t \in alive, waitingFor[t] # NULL PROVE waitingFor[t] \in alive
        <4>1. t \in Tasks /\ waitingFor[t] \in Tasks
          BY <3>1 DEF TaskIInv, TypeOK, Ptr
        <4>2. parent[waitingFor[t]] # NULL
          BY <3>1, <4>1, TasksAssumption DEF TaskIInv, Handles
        <4> QED
          BY <4>1, <4>2 DEF TaskIInv, Handles
      <3> QED
        BY <3>1 DEF HandlesLive, TaskIInv, Turning
    <2> QED
      BY <2>1 DEF HandlesSound, TaskIInv
  <1> QED
    BY <1>5, <1>6, <1>7

\* However tasks are made, exit, sleep, are resumed and deleted, and wherever
\* the clock preempts them: runQueue is a sound list of exactly the tasks able
\* to run and not running, so that none is lost and none is run twice.
THEOREM RunQueueHolds == Spec /\ Undisturbed => []RunQueueSound
  <1>1. TaskIInv => RunQueueSound
    BY TaskISound
  <1> QED
    BY <1>1, TaskIInit, TaskINext, PTL DEF Spec

\* delQueue is a sound list of live tasks that sleep or are about to.
THEOREM DelQueueHolds == Spec /\ Undisturbed => []DelQueueSound
  <1>1. TaskIInv => DelQueueSound
    BY TaskISound
  <1> QED
    BY <1>1, TaskIInit, TaskINext, PTL DEF Spec

\* nTasks, which tells schedule() when to end, counts the live tasks that have
\* not exited; nobody runs or waits for a deleted task.
THEOREM HandlesHold == Spec /\ Undisturbed => []HandlesSound
  <1>1. TaskIInv => HandlesSound
    BY TaskISound
  <1> QED
    BY <1>1, TaskIInit, TaskINext, PTL DEF Spec

\* A turn is a step of RoundRobin.
LEMMA TurnIsStep ==
    ASSUME NEW r \in Seq(Tasks), NEW r2 \in Seq(Tasks), Turn(r, r2),
           AsSequence(queues, "runQueue") = r, AsSequence(queues, "runQueue")' = r2
    PROVE  [Turns!Next]_(Turns!vars)
  <1>0. Blocked = {t \in alive : taskState[t] # {}} /\ Blocked' = {t \in alive : taskState[t] # {}}'
    BY DEF Blocked
  <1>1. CASE UNCHANGED currentTask /\ r2 = r /\ Blocked' = Blocked
    BY <1>0, <1>1 DEF Turns!vars
  <1>2. CASE /\ currentTask # Idle /\ UNCHANGED currentTask /\ r2 = r
             /\ Blocked' = Blocked \cup {currentTask}
    <2>1. Turns!Block
      BY <1>0, <1>2 DEF Turns!Block
    <2> QED
      BY <2>1 DEF Turns!Next
  <1>3. ASSUME NEW n \in Tasks, n \notin Blocked \cup {currentTask, Idle} \cup Elements(r),
               r2 = Append(r, n), UNCHANGED currentTask, Blocked' = Blocked
        PROVE  Turns!Spawn(n)
    BY <1>0, <1>3 DEF Turns!Spawn, Turns!InLine, Elements
  <1>4. ASSUME NEW n \in Tasks, n \in Blocked \ {currentTask},
               r2 = Append(r, n), UNCHANGED currentTask, Blocked' = Blocked \ {n}
        PROVE  Turns!Wake(n)
    BY <1>0, <1>4 DEF Turns!Wake
  <1>5. ASSUME NEW n \in Tasks, n # currentTask, UNCHANGED currentTask, Blocked' = Blocked \ {n},
               \/ \E k \in 1..Len(r) : r[k] = n /\ r2 = Without(r, k)
               \/ n \in Blocked /\ r2 = r
        PROVE  Turns!Remove(n)
    <2>1. \A k \in 1..Len(r) : Without(r, k) = SubSeq(r, 1, k - 1) \o SubSeq(r, k + 1, Len(r))
      BY WithoutSubSeqs
    <2> QED
      BY <1>0, <1>5, <2>1 DEF Turns!Remove
  <1>6. CASE LET l == IF currentTask \in Blocked \cup {Idle} THEN r ELSE Append(r, currentTask)
             IN  /\ IF l = <<>> THEN currentTask' = Idle /\ r2 = l
                                ELSE currentTask' = Head(l) /\ r2 = Tail(l)
                 /\ Blocked' = Blocked
    <2>1. Turns!Dispatch
      BY <1>0, <1>6 DEF Turns!Dispatch
    <2> QED
      BY <2>1 DEF Turns!Next
  <1> QED
    BY <1>1, <1>2, <1>3, <1>4, <1>5, <1>6 DEF Turn, Turns!Next

\* Every step is one of RoundRobin, or none.
LEMMA TaskIStep == TaskIInv /\ [Next]_vars => [Turns!Next]_(Turns!vars)
  <1> SUFFICES ASSUME TaskIInv, [Next]_vars PROVE [Turns!Next]_(Turns!vars)
    OBVIOUS
  <1>1. PICK r \in Seq(Tasks), d \in Seq(Tasks) : Held(r, d)
    BY DEF TaskIInv
  <1>2. \E d2 \in Seq(Tasks) : TurnedTo(r, d2)
    BY <1>1, TurnedSome DEF TaskIInv
  <1>3. PICK r2 \in Seq(Tasks), d2 \in Seq(Tasks) : Held(r2, d2)' /\ Turn(r, r2)
    BY <1>2 DEF TurnedTo
  <1>4. AsSequence(queues, "runQueue") = r
    <2>1. queues \in Queues /\ Stands(queues, "runQueue", r)
      BY <1>1 DEF TaskIInv, TypeOK, Queues, Held, Both
    <2> QED
      BY <2>1, WalkQueue
  <1>5. AsSequence(queues', "runQueue") = r2
    <2>1. TaskIInv'
      BY TaskINext
    <2>2. queues' \in Queues /\ Stands(queues', "runQueue", r2)
      BY <1>3, <2>1 DEF TaskIInv, TypeOK, Queues, Held, Both
    <2> QED
      BY <2>2, WalkQueue
  <1> QED
    BY <1>3, <1>4, <1>5, TurnIsStep

\* The initial states are those of RoundRobin.
LEMMA TaskITurns == Init /\ Undisturbed => Turns!Init
  <1> SUFFICES ASSUME Init, Undisturbed PROVE Turns!Init
    OBVIOUS
  <1>1. queues \in Queues /\ Stands(queues, "runQueue", <<>>) /\ <<>> \in Seq(Tasks)
    BY TypeInit DEF TypeOK, Queues, Init, Stands, IsList, Forward, Backward, LastOf
  <1>2. AsSequence(queues, "runQueue") = <<>>
    BY <1>1, WalkQueue
  <1>3. {t \in alive : taskState[t] # {}} = {}
    BY TasksAssumption DEF Init
  <1> QED
    BY <1>2, <1>3 DEF Init, Turns!Init

\* The scheduler with its linked queues implements RoundRobin: whatever becomes
\* able to run goes to the back of the line and the front of it runs next.
THEOREM TurnsTaken == Spec /\ Undisturbed => RunsInTurn
  BY TaskIInit, TaskINext, TaskIStep, TaskITurns, PTL DEF Spec, RunsInTurn, Turns!Spec

-----------------------------------------------------------------------------
(* Contexts, without preemption.                                           *)

\* In the cooperative system the processor has at most one frame to unwind, and
\* what a live task saved is its own frame.
ContextIInv ==
    /\ TaskIInv /\ ~PreEmptive
    /\ cpu = <<>> \/ \E t \in Tasks : cpu = <<t>>
    /\ \A t \in alive : context[t] = <<>>

\* Every step keeps the invariant of the contexts.
LEMMA ContextNext == ContextIInv /\ [Next]_vars => ContextIInv'
  <1> SUFFICES ASSUME ContextIInv, [Next]_vars PROVE ContextIInv'
    OBVIOUS
  <1>0. /\ TaskIInv /\ ~PreEmptive /\ TypeOK /\ alive \subseteq Tasks /\ context \in [Tasks -> Seq(Ptr)]
        /\ (cpu = <<>> \/ \E t \in Tasks : cpu = <<t>>) /\ \A t \in alive : context[t] = <<>>
    BY DEF ContextIInv, TaskIInv, TypeOK
  <1>1. TaskIInv'
    BY <1>0, TaskINext
  <1>2. ASSUME UNCHANGED <<cpu, context>>, alive' \subseteq alive PROVE ContextIInv'
    BY <1>0, <1>1, <1>2 DEF ContextIInv
  <1>3. ASSUME NEW t \in Tasks, NEW ctx, \A u \in alive : ctx[u] = <<>>
        PROVE  \A u \in alive : Overwrite(ctx, t)[u] = <<>>
    <2>1. CutAt(<<>>, t) = <<>>
      BY DEF CutAt
    <2> QED
      BY <1>0, <1>3, <2>1 DEF Overwrite
  <1>4. ASSUME NEW t \in Tasks, NEW n \in Tasks, newTask(t, n) PROVE ContextIInv'
    <2>1. cpu' = cpu /\ context' = [context EXCEPT ![n] = <<>>] /\ alive' = alive \cup {n}
      BY <1>4 DEF newTask
    <2>2. \A u \in alive' : context'[u] = <<>>
      BY <1>0, <2>1
    <2> QED
      BY <1>0, <1>1, <2>1, <2>2 DEF ContextIInv
  <1>5. ASSUME NEW n \in Tasks, Discard(n) PROVE ContextIInv'
    <2>1. /\ cpu' = cpu /\ alive' = alive \ {n}
          /\ context' = [Overwrite(context, n) EXCEPT ![n] = <<NULL>>]
      BY <1>5 DEF Discard
    <2>2. \A u \in alive' : context'[u] = Overwrite(context, n)[u]
      BY <1>0, <2>1 DEF Overwrite
    <2>3. \A u \in alive' : context'[u] = <<>>
      BY <1>0, <1>3, <2>1, <2>2
    <2> QED
      BY <1>0, <1>1, <2>1, <2>3 DEF ContextIInv
  <1>6. ASSUME NEW t \in Tasks, Enter(t) PROVE ContextIInv'
    <2>1. /\ exitCode = "none" /\ schedule(<<>>, <<t>>) /\ alive' = alive
      BY <1>6 DEF Enter, Running, Live, taskVars
    <2>2. CASE LockedOut \/ Quit
      BY <1>2, <2>1, <2>2 DEF LockedOut, Quit, cpuVars
    <2>3. CASE Switch(<<>>, <<t>>)
      <3>1. exitCode' = "none"
        BY <2>1, <2>3 DEF Switch, exitVars
      <3>2. PICK r \in Seq(Tasks), d \in Seq(Tasks) : Held(r, d)
        BY <1>0 DEF TaskIInv
      <3>3. currentTask' \in alive
        BY <1>0, <1>6, <3>1, <3>2, EnterTurn DEF TaskIInv
      <3> DEFINE ctx == [context EXCEPT ![currentTask] = <<>>]
      <3>4. \A u \in alive : ctx[u] = <<>>
        BY <1>0
      <3>5. <<t>> \o ctx[currentTask'] = <<t>> /\ <<t>> # <<>>
        <4>1. ctx[currentTask'] = <<>>
          BY <3>3, <3>4
        <4> HIDE DEF ctx
        <4> QED
          BY <4>1
      <3>6. Load(<<t>> \o ctx[currentTask'], ctx, currentTask')
        BY <2>3 DEF Switch
      <3>7. cpu' = <<t>> /\ context' = [ctx EXCEPT ![currentTask'] = <<>>]
        <4> HIDE DEF ctx
        <4> QED
          BY <3>5, <3>6 DEF Load
      <3>8. \A u \in alive' : context'[u] = <<>>
        BY <1>0, <2>1, <3>4, <3>7
      <3> QED
        BY <1>1, <3>7, <3>8 DEF ContextIInv
    <2> QED
      BY <2>1, <2>2, <2>3 DEF schedule
  <1>7. CASE SwitchStack
    <2>1. cpu # <<>> /\ Load(Tail(cpu), context, currentTask) /\ alive' = alive
      BY <1>7 DEF SwitchStack, taskVars
    <2>2. Tail(cpu) = <<>>
      <3>1. PICK t \in Tasks : cpu = <<t>>
        BY <1>0, <2>1
      <3>2. Tail(<<t>>) = <<>>
        OBVIOUS
      <3> QED
        BY <3>1, <3>2
    <2>3. cpu' = <<>> /\ context' = Overwrite(context, currentTask)
      BY <2>1, <2>2 DEF Load
    <2>4. \A u \in alive : Overwrite(context, currentTask)[u] = <<>>
      BY <1>0, <1>3 DEF TypeOK
    <2> QED
      BY <1>1, <2>1, <2>3, <2>4 DEF ContextIInv
  <1>8. ASSUME NEW t \in Tasks, TaskStep(t) PROVE ContextIInv'
    <2>1. CASE \/ Yield(t) \/ taskExit(t) \/ Suspend(t) \/ DelaySuspend(t) \/ WaitPoll(t) \/ WaitTimeOut(t)
               \/ lockTask(t) \/ unlockTask(t) \/ quitScheduler(t)
               \/ \E n \in Tasks : waitTask(t, n) \/ Resume(t, n)
               \/ \E d \in 0..MaxDelay : delayTask(t, d)
      BY <1>2, <2>1 DEF Yield, taskExit, Suspend, DelaySuspend, suspendTask, WaitPoll, WaitTimeOut,
         lockTask, unlockTask, quitScheduler, waitTask, Resume, delayTask, taskVars, cpuVars
    <2>2. ASSUME NEW n \in Tasks, deleteTask(t, n) PROVE ContextIInv'
      BY <1>5, <2>2 DEF deleteTask
    <2>3. CASE WaitCollect(t)
      <3>1. waitingFor[t] \in Tasks /\ Discard(waitingFor[t])
        BY <1>0, <2>3 DEF WaitCollect, Polling, TypeOK, Ptr
      <3> QED
        BY <1>5, <3>1
    <2> QED
      BY <1>4, <1>6, <1>8, <2>1, <2>2, <2>3 DEF TaskStep
  <1>9. CASE Interrupt \/ UNCHANGED vars
    BY <1>0, <1>2, <1>9 DEF Interrupt, taskTimer, TimerSleep, TimerWake, TimerReturn, TimerPreempt,
       InterruptResume, vars, taskVars, cpuVars
  <1> QED
    BY <1>7, <1>8, <1>9 DEF Next, Terminated

\* Without preemption the processor never loads a context that was overwritten
\* or freed; the run TaskPreemptContext shows that with it, it does.
THEOREM ContextHolds == Spec /\ Undisturbed /\ ~PreEmptive => []ContextSound
  <1>1. Init /\ Undisturbed /\ ~PreEmptive => ContextIInv
    BY TaskIInit, TasksAssumption DEF Init, ContextIInv
  <1>2. ContextIInv => ContextSound
    <2> SUFFICES ASSUME ContextIInv PROVE ContextSound
      OBVIOUS
    <2>1. ASSUME NEW t \in Tasks, cpu = <<t>> PROVE Head(cpu) # NULL
      BY <2>1, TasksAssumption
    <2> QED
      BY <2>1 DEF ContextIInv, ContextSound, Wild
  <1> QED
    BY <1>1, <1>2, ContextNext, PTL DEF Spec

-----------------------------------------------------------------------------
(* How long delayTask() takes.                                             *)

Due(t) == IF asked[t] > 1 THEN asked[t] ELSE 1

\* taskTimer() has yet to come to the i-th task on delQueue
Pending(d, i) == inTimer /\ \E k \in 1..Len(d) : d[k] = qEntry /\ k <= i

\* The ticks a sleeping task has left and those it has slept make up the ticks
\* it asked for; one that taskTimer() has yet to come to is a tick behind
Ticking(d) ==
    \A i \in 1..Len(d) :
        IF Pending(d, i)
        THEN /\ extra[d[i]] + slept[d[i]] = asked[d[i]] + 1
             /\ 1 <= slept[d[i]] /\ slept[d[i]] <= Due(d[i])
        ELSE extra[d[i]] + slept[d[i]] = asked[d[i]] /\ slept[d[i]] < Due(d[i])

DelayIInv ==
    /\ TaskIInv
    /\ asked \in [Tasks -> Nat] /\ slept \in [Tasks -> Nat]
    /\ \E r, d \in Seq(Tasks) : Held(r, d) /\ Ticking(d)

\* What a step must do with delQueue and the histories to be in order.
DelayStep(d) ==
    \E r2, d2 \in Seq(Tasks) :
        /\ Held(r2, d2)' /\ Ticking(d2)'
        /\ \A t \in Elements(d) \ Elements(d2) : slept[t] = Due(t)

\* What a step makes of the ticks a task has slept, and was to sleep.
LEMMA DelayTypes ==
    ASSUME DelayIInv, DelayNext
    PROVE  /\ asked' \in [Tasks -> Nat] /\ slept' \in [Tasks -> Nat]
           /\ \A t \in Tasks :
                 IF pc[t] # "queued" /\ pc'[t] = "queued"
                 THEN asked'[t] = extra'[t] /\ slept'[t] = 0
                 ELSE /\ asked'[t] = asked[t]
                      /\ slept'[t] = IF ~inTimer /\ inTimer' /\ t \in Members(queues, "delQueue")
                                     THEN slept[t] + 1 ELSE slept[t]
  <1> DEFINE starts(t) == pc[t] # "queued" /\ pc'[t] = "queued"
             ticks(t) == ~inTimer /\ inTimer' /\ t \in Members(queues, "delQueue")
  <1>0. asked \in [Tasks -> Nat] /\ slept \in [Tasks -> Nat] /\ pc \in [Tasks -> {"user", "queued", "suspending", "yield"}]
    BY DEF DelayIInv, TaskIInv, TypeOK
  <1>1. /\ asked' = [t \in Tasks |-> IF starts(t) THEN extra'[t] ELSE asked[t]]
        /\ slept' = [t \in Tasks |-> IF starts(t) THEN 0 ELSE IF ticks(t) THEN slept[t] + 1 ELSE slept[t]]
    BY DEF DelayNext
  <1>2. ASSUME NEW t \in Tasks, starts(t) PROVE extra'[t] \in Nat
    <2>1. /\ Next /\ pc[t] # "queued" /\ pc'[t] = "queued"
      BY <1>2 DEF DelayNext
    <2>2. \E d \in 0..MaxDelay : delayTask(t, d)
      <3>1. ASSUME NEW u \in Tasks, TaskStep(u) PROVE \E d \in 0..MaxDelay : delayTask(t, d)
        <4>1. CASE \E d \in 0..MaxDelay : delayTask(u, d)
          BY <1>0, <2>1, <4>1 DEF delayTask, GoTo
        <4>2. CASE \/ taskExit(u) \/ Yield(u) \/ Enter(u) \/ Suspend(u) \/ DelaySuspend(u) \/ WaitPoll(u)
                   \/ WaitCollect(u) \/ quitScheduler(u) \/ \E n \in Tasks : deleteTask(u, n)
          <5>1. \/ pc'[t] = pc[t] \/ pc'[t] \in {"user", "yield", "suspending"}
            BY <1>0, <4>2 DEF taskExit, Yield, Enter, Suspend, DelaySuspend, suspendTask, WaitPoll,
               WaitCollect, quitScheduler, deleteTask, Discard, yieldTask, GoTo
          <5> QED
            BY <2>1, <5>1
        <4>3. CASE \/ WaitTimeOut(u) \/ lockTask(u) \/ unlockTask(u)
                   \/ \E n \in Tasks : newTask(u, n) \/ waitTask(u, n) \/ Resume(u, n)
          BY <2>1, <4>3 DEF WaitTimeOut, lockTask, unlockTask, newTask, waitTask, Resume, callVars
        <4> QED
          BY <3>1, <4>1, <4>2, <4>3 DEF TaskStep
      <3>2. CASE Interrupt \/ SwitchStack \/ Terminated
        BY <2>1, <3>2 DEF Interrupt, taskTimer, TimerSleep, TimerWake, TimerReturn, TimerPreempt,
           InterruptResume, SwitchStack, Terminated, vars, callVars
      <3> QED
        BY <2>1, <3>1, <3>2 DEF Next
    <2>3. PICK d \in 0..MaxDelay : delayTask(t, d)
      BY <2>2
    <2>4. extra'[t] = d
      BY <2>3 DEF delayTask, DelayIInv, TaskIInv, TypeOK
    <2> QED
      BY <2>4, BoundsAssumption
  <1> QED
    BY <1>0, <1>1, <1>2

\* Steps that neither tick nor change delQueue.
LEMMA DelayQuiet ==
    ASSUME NEW r \in Seq(Tasks), NEW d \in Seq(Tasks), Held(r, d), Ticking(d), TurnedTo(r, d),
           \A t \in Elements(d) : extra'[t] = extra[t] /\ asked'[t] = asked[t] /\ slept'[t] = slept[t],
           \/ UNCHANGED <<inTimer, qEntry>>
           \/ ~inTimer' /\ (inTimer => qEntry = NULL)
    PROVE  DelayStep(d)
  <1>1. \A i \in 1..Len(d) : d[i] \in Elements(d) /\ d[i] # NULL
    BY LenProperties, TasksAssumption DEF Elements
  <1>2. \A i \in 1..Len(d) : Pending(d, i)' <=> Pending(d, i)
    BY <1>1 DEF Pending
  <1>3. Ticking(d)'
    BY <1>1, <1>2 DEF Ticking, Due
  <1> QED
    BY <1>3 DEF TurnedTo, DelayStep

\* The clock strikes: every sleeping task is a tick behind.
LEMMA DelayTick ==
    ASSUME DelayIInv, DelayNext, NEW r \in Seq(Tasks), NEW d \in Seq(Tasks), Held(r, d), Ticking(d),
           TurnedTo(r, d), taskTimer
    PROVE  DelayStep(d)
  <1>1. /\ ~inTimer /\ inTimer' /\ qEntry' = queues.delQueue.head /\ UNCHANGED <<extra, pc>>
    BY DEF taskTimer, Interruptible, taskVars, callVars
  <1>2. queues \in Queues /\ Stands(queues, "delQueue", d)
    BY DEF DelayIInv, TaskIInv, TypeOK, Queues, Held, Both
  <1>3. Members(queues, "delQueue") = Elements(d)
    BY <1>2, WalkQueue
  <1>4. Len(d) \in Nat /\ \A i \in 1..Len(d) : d[i] \in Tasks /\ d[i] \in Elements(d)
    BY LenProperties DEF Elements
  <1>5. \A i \in 1..Len(d) : Pending(d, i)'
    <2>1. Len(d) # 0 => qEntry' = d[1] /\ 1 \in 1..Len(d)
      BY <1>1, <1>2, <1>4 DEF Stands, IsList, Forward
    <2> QED
      BY <1>1, <1>4, <2>1 DEF Pending
  <1>6. \A t \in Elements(d) : t \in Tasks /\ asked'[t] = asked[t] /\ slept'[t] = slept[t] + 1
    BY <1>1, <1>3, ElementsIn, DelayTypes
  <1>7. \A t \in Tasks : extra[t] \in Int /\ asked[t] \in Nat /\ slept[t] \in Nat
    BY DEF DelayIInv, TaskIInv, TypeOK
  <1>8. Ticking(d)'
    <2> SUFFICES ASSUME NEW i \in 1..Len(d)
                 PROVE  /\ extra'[d[i]] + slept'[d[i]] = asked'[d[i]] + 1
                        /\ 1 <= slept'[d[i]] /\ slept'[d[i]] <= Due(d[i])'
      BY <1>5 DEF Ticking
    <2>1. extra[d[i]] + slept[d[i]] = asked[d[i]] /\ slept[d[i]] < Due(d[i])
      BY <1>1 DEF Ticking, Pending
    <2>2. Due(d[i])' = Due(d[i]) /\ Due(d[i]) \in Nat
      BY <1>4, <1>6, <1>7 DEF Due
    <2>3. /\ extra'[d[i]] = extra[d[i]] /\ asked'[d[i]] = asked[d[i]] /\ slept'[d[i]] = slept[d[i]] + 1
          /\ extra[d[i]] \in Int /\ asked[d[i]] \in Nat /\ slept[d[i]] \in Nat
      BY <1>1, <1>4, <1>6, <1>7
    <2> QED
      BY <2>1, <2>2, <2>3
  <1> QED
    BY <1>8 DEF TurnedTo, DelayStep

\* Where taskTimer()'s cursor goes next, and who is pending at it.
LEMMA CursorMoves ==
    ASSUME DelayIInv, NEW r \in Seq(Tasks), NEW d \in Seq(Tasks), Held(r, d), inTimer,
           NEW k \in 1..Len(d), d[k] = qEntry
    PROVE  /\ queues.next[qEntry] = IF k = Len(d) THEN NULL ELSE d[k + 1]
           /\ \A i \in 1..Len(d) : Pending(d, i) <=> k <= i
           /\ Len(d) \in Nat /\ \A i, j \in 1..Len(d) : d[i] = d[j] => i = j
           /\ \A i \in 1..Len(d) : /\ d[i] \in Tasks /\ d[i] \in Elements(d) /\ d[i] # NULL
                                    /\ extra[d[i]] \in Int /\ asked[d[i]] \in Nat /\ slept[d[i]] \in Nat
  <1>1. Stands(queues, "delQueue", d)
    BY DEF Held, Both
  <1>2. Len(d) \in Nat /\ \A i \in 1..Len(d) : d[i] \in Tasks /\ d[i] \in Elements(d)
    BY LenProperties DEF Elements
  <1>3. /\ \A i, j \in 1..Len(d) : d[i] = d[j] => i = j
        /\ queues.next[qEntry] = IF k = Len(d) THEN NULL ELSE d[k + 1]
    BY <1>1 DEF Stands, IsList, Forward
  <1>4. \A i \in 1..Len(d) : Pending(d, i) <=> k <= i
    BY <1>3 DEF Pending
  <1> QED
    BY <1>2, <1>3, <1>4, TasksAssumption DEF DelayIInv, TaskIInv, TypeOK

\* taskTimer() counts a tick off a task that sleeps on.
LEMMA DelaySleeps ==
    ASSUME DelayIInv, DelayNext, NEW r \in Seq(Tasks), NEW d \in Seq(Tasks), Held(r, d), Ticking(d),
           TurnedTo(r, d), TimerSleep
    PROVE  DelayStep(d)
  <1>1. /\ inTimer /\ inTimer' /\ qEntry # NULL /\ extra[qEntry] - 1 > 0
        /\ extra' = [extra EXCEPT ![qEntry] = @ - 1] /\ qEntry' = queues.next[qEntry] /\ pc' = pc
    BY DEF TimerSleep, callVars
  <1>2. PICK k \in 1..Len(d) : d[k] = qEntry
    BY <1>1 DEF Held, Elements
  <1>3. /\ qEntry' = IF k = Len(d) THEN NULL ELSE d[k + 1]
        /\ \A i \in 1..Len(d) : Pending(d, i) <=> k <= i
        /\ Len(d) \in Nat /\ \A i, j \in 1..Len(d) : d[i] = d[j] => i = j
        /\ \A i \in 1..Len(d) : /\ d[i] \in Tasks /\ d[i] \in Elements(d) /\ d[i] # NULL
                                 /\ extra[d[i]] \in Int /\ asked[d[i]] \in Nat /\ slept[d[i]] \in Nat
    BY <1>1, <1>2, CursorMoves
  <1>4. \A i \in 1..Len(d) : Pending(d, i)' <=> k + 1 <= i
    <2>1. CASE k = Len(d)
      BY <1>1, <1>3, <2>1 DEF Pending
    <2>2. CASE k # Len(d)
      <3>1. k + 1 \in 1..Len(d) /\ qEntry' = d[k + 1]
        BY <1>3, <2>2
      <3> QED
        BY <1>1, <1>3, <3>1 DEF Pending
    <2> QED
      BY <2>1, <2>2
  <1>5. \A t \in Tasks : asked'[t] = asked[t] /\ slept'[t] = slept[t]
    BY <1>1, DelayTypes
  <1>6. extra \in [Tasks -> Int] /\ asked \in [Tasks -> Nat] /\ slept \in [Tasks -> Nat]
    BY DEF DelayIInv, TaskIInv, TypeOK
  <1>7. Ticking(d)'
    <2> SUFFICES ASSUME NEW i \in 1..Len(d)
                 PROVE  IF Pending(d, i)'
                        THEN /\ extra'[d[i]] + slept'[d[i]] = asked'[d[i]] + 1
                             /\ 1 <= slept'[d[i]] /\ slept'[d[i]] <= Due(d[i])'
                        ELSE extra'[d[i]] + slept'[d[i]] = asked'[d[i]] /\ slept'[d[i]] < Due(d[i])'
      BY DEF Ticking
    <2>1. /\ asked'[d[i]] = asked[d[i]] /\ slept'[d[i]] = slept[d[i]]
          /\ extra[d[i]] \in Int /\ asked[d[i]] \in Nat /\ slept[d[i]] \in Nat /\ Due(d[i])' = Due(d[i])
      BY <1>3, <1>5 DEF Due
    <2>2. CASE i = k
      <3>1. extra'[d[i]] = extra[d[i]] - 1 /\ extra[d[i]] - 1 > 0
        BY <1>1, <1>2, <1>3, <1>6, <2>2
      <3>2. extra[d[i]] + slept[d[i]] = asked[d[i]] + 1
        BY <1>3, <2>2 DEF Ticking
      <3>3. ~Pending(d, i)'
        BY <1>3, <1>4, <2>2
      <3>4. slept[d[i]] < asked[d[i]]
        BY <2>1, <3>1, <3>2
      <3>5. slept[d[i]] < Due(d[i])
        BY <2>1, <3>4 DEF Due
      <3>6. extra'[d[i]] + slept'[d[i]] = asked'[d[i]]
        <4>1. extra[d[i]] \in Int /\ asked[d[i]] \in Nat /\ slept[d[i]] \in Nat
          BY <2>1
        <4>2. \A e \in Int, s, a \in Nat : e + s = a + 1 => (e - 1) + s = a
          OBVIOUS
        <4>3. (extra[d[i]] - 1) + slept[d[i]] = asked[d[i]]
          BY <3>2, <4>1, <4>2
        <4> QED
          BY <2>1, <3>1, <4>3
      <3>7. slept'[d[i]] < Due(d[i])'
        BY <2>1, <3>5
      <3> QED
        BY <3>3, <3>6, <3>7
    <2>3. CASE i # k
      <3>1. d[i] # qEntry /\ extra'[d[i]] = extra[d[i]]
        BY <1>1, <1>2, <1>3, <1>6, <2>3
      <3>2. Pending(d, i)' <=> Pending(d, i)
        BY <1>3, <1>4, <2>3
      <3>3. IF Pending(d, i)
            THEN /\ extra[d[i]] + slept[d[i]] = asked[d[i]] + 1
                 /\ 1 <= slept[d[i]] /\ slept[d[i]] <= Due(d[i])
            ELSE extra[d[i]] + slept[d[i]] = asked[d[i]] /\ slept[d[i]] < Due(d[i])
        BY DEF Ticking
      <3> QED
        BY <2>1, <3>1, <3>2, <3>3
    <2> QED
      BY <2>2, <2>3
  <1> QED
    BY <1>7 DEF TurnedTo, DelayStep

\* taskTimer() wakes a task: it has slept its ticks.
LEMMA DelayWakes ==
    ASSUME DelayIInv, DelayNext, NEW r \in Seq(Tasks), NEW d \in Seq(Tasks), Held(r, d), Ticking(d),
           NEW k \in 1..Len(d), d[k] = qEntry, TurnedTo(r, Without(d, k)), TimerWake
    PROVE  DelayStep(d)
  <1>1. /\ inTimer /\ inTimer' /\ qEntry # NULL /\ extra[qEntry] - 1 <= 0
        /\ extra' = [extra EXCEPT ![qEntry] = @ - 1] /\ qEntry' = queues.next[qEntry] /\ pc' = pc
    BY DEF TimerWake, callVars
  <1>3. /\ qEntry' = IF k = Len(d) THEN NULL ELSE d[k + 1]
        /\ \A i \in 1..Len(d) : Pending(d, i) <=> k <= i
        /\ Len(d) \in Nat /\ \A i, j \in 1..Len(d) : d[i] = d[j] => i = j
        /\ \A i \in 1..Len(d) : /\ d[i] \in Tasks /\ d[i] \in Elements(d) /\ d[i] # NULL
                                 /\ extra[d[i]] \in Int /\ asked[d[i]] \in Nat /\ slept[d[i]] \in Nat
    BY <1>1, CursorMoves
  <1>4. PICK w \in Seq(Tasks) :
            /\ w = Without(d, k) /\ Len(w) = Len(d) - 1 /\ Elements(w) = Elements(d) \ {d[k]}
            /\ \A i \in 1..(Len(d) - 1) : w[i] = IF i < k THEN d[i] ELSE d[i + 1]
    BY <1>3, WithoutElements
  <1>5. \A t \in Tasks : asked'[t] = asked[t] /\ slept'[t] = slept[t]
    BY <1>1, DelayTypes
  <1>6. extra \in [Tasks -> Int] /\ asked \in [Tasks -> Nat] /\ slept \in [Tasks -> Nat]
    BY DEF DelayIInv, TaskIInv, TypeOK
  <1>7. ASSUME NEW i \in 1..Len(w)
        PROVE  \E j \in 1..Len(d) : j # k /\ w[i] = d[j] /\ (Pending(w, i)' <=> Pending(d, j))
    <2>0. i \in 1..(Len(d) - 1) /\ i \in 1..Len(d)
      BY <1>3, <1>4
    <2>1. CASE i < k
      <3>1. w[i] = d[i] /\ ~Pending(d, i) /\ i # k
        BY <1>3, <1>4, <2>0, <2>1
      <3>2. ~Pending(w, i)'
        <4> SUFFICES ASSUME NEW j \in 1..Len(w), w[j] = qEntry', j <= i PROVE FALSE
          BY DEF Pending
        <4>0. /\ Len(w) = Len(d) - 1 /\ Len(d) \in Nat /\ k \in 1..Len(d) /\ i \in 1..Len(d) /\ i < k
              /\ j \in 1..Len(w) /\ j <= i
          BY <1>3, <1>4, <2>0, <2>1
        <4>1. j \in 1..(Len(d) - 1) /\ j < k /\ j \in 1..Len(d) /\ (k # Len(d) => k + 1 \in 1..Len(d) /\ j # k + 1)
          BY <4>0
        <4>2. w[j] = d[j]
          BY <1>4, <4>1
        <4> QED
          BY <1>3, <4>1, <4>2
      <3> QED
        BY <2>0, <3>1, <3>2
    <2>2. CASE ~(i < k)
      <3>1. i + 1 \in 1..Len(d) /\ i + 1 # k /\ k <= i + 1 /\ k # Len(d) /\ k <= i /\ k \in 1..(Len(d) - 1)
        BY <1>3, <2>0, <2>2
      <3>2. w[i] = d[i + 1] /\ Pending(d, i + 1) /\ w[k] = d[k + 1]
        BY <1>3, <1>4, <2>0, <2>2, <3>1
      <3>3. Pending(w, i)'
        BY <1>1, <1>3, <1>4, <3>1, <3>2 DEF Pending
      <3> QED
        BY <3>1, <3>2, <3>3
    <2> QED
      BY <2>1, <2>2
  <1>8. Ticking(w)'
    <2> SUFFICES ASSUME NEW i \in 1..Len(w)
                 PROVE  IF Pending(w, i)'
                        THEN /\ extra'[w[i]] + slept'[w[i]] = asked'[w[i]] + 1
                             /\ 1 <= slept'[w[i]] /\ slept'[w[i]] <= Due(w[i])'
                        ELSE extra'[w[i]] + slept'[w[i]] = asked'[w[i]] /\ slept'[w[i]] < Due(w[i])'
      BY DEF Ticking
    <2>1. PICK j \in 1..Len(d) : j # k /\ w[i] = d[j] /\ (Pending(w, i)' <=> Pending(d, j))
      BY <1>7
    <2>2. /\ asked'[d[j]] = asked[d[j]] /\ slept'[d[j]] = slept[d[j]] /\ Due(d[j])' = Due(d[j])
          /\ extra'[d[j]] = extra[d[j]]
      BY <1>1, <1>3, <1>5, <1>6, <2>1 DEF Due
    <2> QED
      BY <2>1, <2>2 DEF Ticking
  <1>9. slept[d[k]] = Due(d[k])
    <2>1. /\ extra[d[k]] + slept[d[k]] = asked[d[k]] + 1 /\ 1 <= slept[d[k]] /\ slept[d[k]] <= Due(d[k])
          /\ extra[d[k]] - 1 <= 0 /\ extra[d[k]] \in Int /\ asked[d[k]] \in Nat /\ slept[d[k]] \in Nat
      BY <1>1, <1>3 DEF Ticking
    <2> QED
      BY <2>1 DEF Due
  <1> QED
    BY <1>4, <1>8, <1>9 DEF TurnedTo, DelayStep

\* delayTask() puts a task on delQueue that has slept no tick yet.
LEMMA DelayStarts ==
    ASSUME DelayIInv, DelayNext, NEW r \in Seq(Tasks), NEW d \in Seq(Tasks), Held(r, d), Ticking(d),
           NEW t \in Tasks, NEW ticks \in 0..MaxDelay, delayTask(t, ticks), TurnedTo(r, Append(d, t))
    PROVE  DelayStep(d)
  <1>1. /\ t = currentTask /\ ~inTimer /\ ~inTimer' /\ exitCode = "none" /\ pc[t] = "user"
        /\ extra' = [extra EXCEPT ![t] = ticks] /\ pc' = [pc EXCEPT ![t] = "queued"]
    BY DEF delayTask, Call, InUser, Running, Live, timerVars, GoTo
  <1>2. ticks \in Nat /\ extra \in [Tasks -> Int] /\ asked \in [Tasks -> Nat] /\ slept \in [Tasks -> Nat]
        /\ pc \in [Tasks -> {"user", "queued", "suspending", "yield"}]
    <2>1. ticks \in Nat
      BY BoundsAssumption
    <2>2. TypeOK /\ asked \in [Tasks -> Nat] /\ slept \in [Tasks -> Nat]
      BY DEF DelayIInv, TaskIInv
    <2>3. extra \in [Tasks -> Int] /\ pc \in [Tasks -> {"user", "queued", "suspending", "yield"}]
      BY <2>2 DEF TypeOK
    <2> QED
      BY <2>1, <2>2, <2>3
  <1>3. t \notin Elements(d)
    BY <1>1, AsleepAll DEF DelayIInv, TaskIInv, Held
  <1>4. /\ \A u \in Tasks \ {t} : extra'[u] = extra[u] /\ asked'[u] = asked[u] /\ slept'[u] = slept[u]
        /\ extra'[t] = ticks /\ asked'[t] = ticks /\ slept'[t] = 0
    <2>1. \A u \in Tasks \ {t} : pc'[u] = pc[u] /\ extra'[u] = extra[u]
      BY <1>1, <1>2
    <2>2. pc[t] # "queued" /\ pc'[t] = "queued" /\ extra'[t] = ticks
      BY <1>1, <1>2
    <2> QED
      BY <1>1, <2>1, <2>2, DelayTypes
  <1>5. Len(d) \in Nat /\ \A i \in 1..Len(d) : d[i] \in Tasks \ {t}
    BY <1>3, LenProperties DEF Elements
  <1>6. PICK a \in Seq(Tasks) :
            /\ a = Append(d, t) /\ Len(a) = Len(d) + 1 /\ a[Len(d) + 1] = t
            /\ Elements(a) = Elements(d) \cup {t} /\ \A i \in 1..Len(d) : a[i] = d[i]
    <2>1. /\ Append(d, t) \in Seq(Tasks) /\ Len(Append(d, t)) = Len(d) + 1 /\ Append(d, t)[Len(d) + 1] = t
          /\ Elements(Append(d, t)) = Elements(d) \cup {t} /\ \A i \in 1..Len(d) : Append(d, t)[i] = d[i]
      BY AppendElements
    <2> QED
      BY <2>1
  <1>7. Ticking(a)'
    <2> SUFFICES ASSUME NEW i \in 1..Len(a)
                 PROVE  extra'[a[i]] + slept'[a[i]] = asked'[a[i]] /\ slept'[a[i]] < Due(a[i])'
      BY <1>1 DEF Ticking, Pending
    <2>1. CASE i = Len(d) + 1
      BY <1>2, <1>4, <1>6, <2>1 DEF Due
    <2>2. CASE i # Len(d) + 1
      <3>1. i \in 1..Len(d) /\ a[i] = d[i] /\ d[i] \in Tasks \ {t}
        BY <1>5, <1>6, <2>2
      <3>2. extra[d[i]] + slept[d[i]] = asked[d[i]] /\ slept[d[i]] < Due(d[i])
        BY <1>1, <3>1 DEF Ticking, Pending
      <3>3. Due(d[i])' = Due(d[i])
        BY <1>4, <3>1 DEF Due
      <3> QED
        BY <1>4, <3>1, <3>2, <3>3
    <2> QED
      BY <2>1, <2>2
  <1> QED
    BY <1>6, <1>7 DEF TurnedTo, DelayStep

\* Any other step leaves the sleeping tasks and their ticks alone.
LEMMA DelayOther ==
    ASSUME DelayIInv, DelayNext, NEW r \in Seq(Tasks), NEW d \in Seq(Tasks), Held(r, d), Ticking(d),
           TurnedTo(r, d), ~taskTimer, ~TimerSleep, ~TimerWake,
           \A t \in Tasks, ticks \in 0..MaxDelay : ~delayTask(t, ticks)
    PROVE  DelayStep(d)
  <1>0. /\ Next /\ Turning /\ Undisturbed /\ Elements(d) \subseteq Tasks
        /\ pc \in [Tasks -> {"user", "queued", "suspending", "yield"}] /\ extra \in [Tasks -> Int]
        /\ currentTask \in Tasks
    BY ElementsIn DEF DelayNext, DelayIInv, TaskIInv, TypeOK
  <1>1. queues \in Queues /\ Stands(queues, "delQueue", d)
    BY DEF DelayIInv, TaskIInv, TypeOK, Queues, Held, Both
  <1>2. Members(queues, "delQueue") = Elements(d)
    BY <1>1, WalkQueue
  <1>3. /\ \A u \in Elements(d) : extra'[u] = extra[u]
        /\ \A u \in Tasks : pc'[u] = pc[u] \/ pc'[u] # "queued"
        /\ UNCHANGED <<inTimer, qEntry>> \/ (~inTimer' /\ (inTimer => qEntry = NULL))
    <2> DEFINE Same == /\ \A u \in Elements(d) : extra'[u] = extra[u]
                       /\ \A u \in Tasks : pc'[u] = pc[u] \/ pc'[u] # "queued"
                       /\ UNCHANGED <<inTimer, qEntry>> \/ (~inTimer' /\ (inTimer => qEntry = NULL))
    <2>1. ASSUME NEW t \in Tasks, Yield(t) \/ Enter(t) \/ WaitPoll(t) \/ quitScheduler(t)
                                   \/ Suspend(t) \/ DelaySuspend(t) \/ WaitCollect(t)
                                   \/ \E n \in Tasks : deleteTask(t, n)
          PROVE  Same
      <3>1. UNCHANGED <<extra, inTimer, qEntry>>
        BY <2>1 DEF Yield, Enter, WaitPoll, quitScheduler, Suspend, DelaySuspend, suspendTask,
           WaitCollect, deleteTask, Discard, taskVars, timerVars
      <3>2. \E u \in Tasks, p \in {"user", "yield", "suspending"} : pc' = [pc EXCEPT ![u] = p]
        <4>1. ASSUME WaitCollect(t) PROVE waitingFor[t] \in Tasks
          BY <4>1 DEF WaitCollect, Polling, DelayIInv, TaskIInv, TypeOK, Ptr
        <4> QED
          BY <2>1, <4>1 DEF Yield, Enter, WaitPoll, quitScheduler, Suspend, DelaySuspend, suspendTask,
             WaitCollect, deleteTask, Discard, yieldTask, GoTo
      <3> QED
        BY <1>0, <3>1, <3>2
    <2>2. ASSUME NEW t \in Tasks, WaitTimeOut(t) \/ lockTask(t) \/ unlockTask(t)
                                   \/ \E n \in Tasks : waitTask(t, n)
          PROVE  Same
      BY <2>2 DEF WaitTimeOut, lockTask, unlockTask, waitTask, taskVars, timerVars, callVars
    <2>3. ASSUME NEW t \in Tasks, taskExit(t) PROVE Same
      <3>1. /\ t = currentTask /\ exitCode = "none" /\ pc[t] = "user" /\ UNCHANGED <<inTimer, qEntry>>
            /\ extra' = [extra EXCEPT ![t] = 0] /\ pc' = [pc EXCEPT ![t] = "yield"]
        BY <2>3 DEF taskExit, Call, InUser, Running, Live, timerVars, yieldTask, GoTo
      <3>2. t \notin Elements(d)
        BY <1>0, <3>1, AsleepAll DEF Held
      <3> QED
        BY <1>0, <3>1, <3>2
    <2>4. ASSUME NEW t \in Tasks, NEW n \in Tasks, newTask(t, n) PROVE Same
      <3>1. n \notin alive /\ UNCHANGED <<inTimer, qEntry, pc>> /\ extra' = [extra EXCEPT ![n] = 0]
        BY <2>4 DEF newTask, timerVars
      <3>2. n \notin Elements(d)
        BY <3>1 DEF Held, Sleepers
      <3> QED
        BY <1>0, <3>1, <3>2
    <2>5. ASSUME NEW n \in Tasks, InterruptResume(n) \/ \E t \in Tasks : Resume(t, n) PROVE Same
      <3>1. n \notin Elements(d) /\ UNCHANGED <<inTimer, qEntry, pc>> /\ extra' = [extra EXCEPT ![n] = 0]
        BY <1>2, <2>5 DEF Resume, InterruptResume, Resumable, timerVars, callVars
      <3> QED
        BY <1>0, <3>1
    <2>6. ASSUME SwitchStack \/ TimerReturn \/ TimerPreempt \/ Terminated PROVE Same
      BY <2>6 DEF SwitchStack, TimerReturn, TimerPreempt, Terminated, vars, taskVars, callVars, timerVars
    <2> HIDE DEF Same
    <2>7. ASSUME NEW t \in Tasks, TaskStep(t) PROVE Same
      BY <2>1, <2>2, <2>3, <2>4, <2>5, <2>7 DEF TaskStep
    <2>8. ASSUME Interrupt PROVE Same
      <3>1. TimerReturn \/ TimerPreempt \/ \E n \in Tasks : InterruptResume(n)
        BY <2>8 DEF Interrupt
      <3> QED
        BY <2>5, <2>6, <3>1
    <2>9. Same
      BY <1>0, <2>6, <2>7, <2>8 DEF Next
    <2> QED
      BY <2>9 DEF Same
  <1>4. \A u \in Elements(d) : asked'[u] = asked[u] /\ slept'[u] = slept[u]
    <2>1. ~(~inTimer /\ inTimer')
      BY <1>3 DEF DelayIInv, TaskIInv, TypeOK
    <2> QED
      BY <1>0, <1>3, <2>1, DelayTypes
  <1> QED
    BY <1>3, <1>4, DelayQuiet

\* Every step keeps the ticks in order.
LEMMA DelayNextStep ==
    ASSUME DelayIInv, DelayNext, NEW r \in Seq(Tasks), NEW d \in Seq(Tasks), Held(r, d), Ticking(d)
    PROVE  DelayStep(d)
  <1>0. Undisturbed /\ TypeOK /\ Turning /\ Handles /\ Next
    BY DEF DelayIInv, TaskIInv, DelayNext
  <1>1. CASE TimerWake
    <2>1. PICK k \in 1..Len(d) : d[k] = qEntry /\ TurnedTo(r, Without(d, k))
      BY <1>0, <1>1, TimerWakeTurn
    <2> QED
      BY <1>1, <2>1, DelayWakes
  <1>2. ASSUME NEW t \in Tasks, NEW ticks \in 0..MaxDelay, delayTask(t, ticks)
        PROVE  DelayStep(d)
    <2>1. TurnedTo(r, Append(d, t))
      BY <1>0, <1>2, DelayTurn
    <2> QED
      BY <1>2, <2>1, DelayStarts
  <1>3. CASE ~TimerWake /\ \A t \in Tasks, ticks \in 0..MaxDelay : ~delayTask(t, ticks)
    <2>1. TurnedTo(r, d)
      BY <1>0, <1>3, TurnNext
    <2> QED
      BY <1>3, <2>1, DelayTick, DelaySleeps, DelayOther
  <1> QED
    BY <1>1, <1>2, <1>3

\* The ticks of a sleeping task are inductive together with what the queues
\* hold; a task that leaves delQueue has slept its ticks.
LEMMA DelayINext ==
    ASSUME DelayIInv, [DelayNext]_delayVars
    PROVE  /\ DelayIInv'
           /\ \A t \in Tasks :
                (t \in Members(queues, "delQueue") /\ t \notin Members(queues', "delQueue"))
                    => slept[t] = IF asked[t] > 1 THEN asked[t] ELSE 1
  <1>1. PICK r \in Seq(Tasks), d \in Seq(Tasks) : Held(r, d) /\ Ticking(d)
    BY DEF DelayIInv
  <1>2. CASE DelayNext
    <2>1. PICK r2 \in Seq(Tasks), d2 \in Seq(Tasks) :
            Held(r2, d2)' /\ Ticking(d2)' /\ \A t \in Elements(d) \ Elements(d2) : slept[t] = Due(t)
      BY <1>1, <1>2, DelayNextStep DEF DelayStep
    <2>2. TaskIInv'
      BY <1>2, TaskINext DEF DelayIInv, DelayNext
    <2>3. asked' \in [Tasks -> Nat] /\ slept' \in [Tasks -> Nat]
      BY <1>2, DelayTypes
    <2>4. DelayIInv'
      BY <2>1, <2>2, <2>3 DEF DelayIInv
    <2>5. Members(queues, "delQueue") = Elements(d) /\ Members(queues', "delQueue") = Elements(d2)
      <3>1. queues \in Queues /\ Stands(queues, "delQueue", d)
        BY <1>1 DEF DelayIInv, TaskIInv, TypeOK, Queues, Held, Both
      <3>2. queues' \in Queues /\ Stands(queues', "delQueue", d2)
        BY <2>1, <2>2 DEF TaskIInv, TypeOK, Queues, Held, Both
      <3> QED
        BY <3>1, <3>2, WalkQueue
    <2> QED
      BY <2>1, <2>4, <2>5 DEF Due
  <1>3. CASE UNCHANGED delayVars
    <2>1. UNCHANGED vars /\ UNCHANGED <<asked, slept>>
      BY <1>3 DEF delayVars
    <2>2. UNCHANGED <<extra, inTimer, qEntry, queues>>
      BY <2>1 DEF vars, taskVars, timerVars
    <2>3. TaskIInv'
      BY <2>1, TaskINext DEF DelayIInv
    <2>4. Held(r, d)' /\ Ticking(d)'
      BY <1>1, <2>1, <2>2 DEF vars, taskVars, callVars, cpuVars, timerVars, Held, Both, Stands, Ready,
         Sleepers, Ticking, Pending, Due
    <2> QED
      BY <2>1, <2>2, <2>3, <2>4 DEF DelayIInv
  <1> QED
    BY <1>2, <1>3

\* Between ticks a sleeping task has ticks to go.
LEMMA DelayISound == DelayIInv => NoOversleep
  <1> SUFFICES ASSUME DelayIInv, ~inTimer, NEW t \in Members(queues, "delQueue")
               PROVE  slept[t] < IF asked[t] > 1 THEN asked[t] ELSE 1
    BY DEF NoOversleep
  <1>1. PICK r \in Seq(Tasks), d \in Seq(Tasks) : Held(r, d) /\ Ticking(d)
    BY DEF DelayIInv
  <1>2. queues \in Queues /\ Stands(queues, "delQueue", d)
    BY <1>1 DEF DelayIInv, TaskIInv, TypeOK, Queues, Held, Both
  <1>3. PICK i \in 1..Len(d) : t = d[i]
    BY <1>2, WalkQueue DEF Elements
  <1> QED
    BY <1>1, <1>3 DEF Ticking, Pending, Due

\* No task sleeps in the beginning.
LEMMA DelayIInit == DelayInit /\ Undisturbed => DelayIInv
  <1> SUFFICES ASSUME DelayInit, Undisturbed PROVE DelayIInv
    OBVIOUS
  <1>1. TaskIInv
    BY TaskIInit DEF DelayInit
  <1>2. queues.delQueue.head = NULL
    BY DEF DelayInit, Init
  <1>3. PICK r \in Seq(Tasks), d \in Seq(Tasks) : Held(r, d)
    BY <1>1 DEF TaskIInv
  <1>4. Len(d) = 0
    <2>1. queues.delQueue.head = IF Len(d) = 0 THEN NULL ELSE d[1]
      BY <1>3 DEF Held, Both, Stands, IsList, Forward
    <2>2. Len(d) # 0 => d[1] \in Tasks
      BY LenProperties
    <2> QED
      BY <1>2, <2>1, <2>2, TasksAssumption
  <1>5. Ticking(d)
    BY <1>4 DEF Ticking
  <1> QED
    BY <1>1, <1>3, <1>5 DEF DelayIInv, DelayInit

\* A delay lasts exactly the ticks it was asked for, at least one, however many
\* tasks sleep and in whatever order they fell asleep.
THEOREM DelayKept == DelaySpec /\ Undisturbed => DelayExact
  BY DelayIInit, DelayINext, DelayISound, PTL DEF DelaySpec, DelayExact

=============================================================================
