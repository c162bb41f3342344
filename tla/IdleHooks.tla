----------------------------- MODULE IdleHooks ------------------------------
(***************************************************************************)
(* The idle task of litetask and its hooks, kernel/idle.c: functions that  *)
(* it calls in turn, in a table that a semaphore guards.                   *)
(*                                                                         *)
(* The semaphore is what kernel/clib/semaphor.c implements: an owner and   *)
(* a line of tasks, the first of which is the next owner.                  *)
(***************************************************************************)
EXTENDS IOSys

CONSTANTS
    IdleTask,       \* the idle task, which runs when no other can
    MaxIdleHooks,   \* MAX_IDLEHOOKS: the size of the table
    Hooks,          \* bound: the functions that programs hook in
    HooksEdit       \* whether hooks call setIdleHook() and clearIdleHook() themselves

ASSUME HooksAssumption == IdleTask \notin Tasks \cup {NULL} /\ NULL \notin Hooks /\ MaxIdleHooks \in Nat \ {0} /\ HooksEdit \in BOOLEAN

VARIABLES
    idleHooks,      \* the table: functions, and NULL for a free entry
    idleSem,        \* its semaphore: the owner, and those who wait for it
    idle,           \* the idle task: where it is, and at which entry
    hooked,         \* history: the functions set and not cleared, with how often
    notRun          \* history: the functions set when the idle task last began its
                    \* round, that it has not called since and nobody has cleared

hookVars == <<idleHooks, idleSem, idle, hooked, notRun>>

HookEntries == 0 .. MaxIdleHooks - 1

HooksInit ==
    /\ idleHooks = [i \in HookEntries |-> NULL]
    /\ idleSem = [owner |-> NULL, line |-> <<>>]
    /\ idle = [at |-> "yield", i |-> 0]
    /\ hooked = [f \in Hooks |-> 0] /\ notRun = {}

\* getSemaphore() with NOTIMEOUT, and where the task then goes
getIdleSem(t, frame) ==
    IF idleSem.owner = NULL
    THEN /\ idleSem' = [idleSem EXCEPT !.owner = t]
         /\ Enter(t, [frame EXCEPT !.at = "find"]) /\ UNCHANGED asleep
    ELSE /\ idleSem' = [idleSem EXCEPT !.line = Append(@, t)]
         /\ Enter(t, [frame EXCEPT !.at = "find"]) /\ asleep' = asleep \cup {t}

\* putSemaphore(): the first of the line is the owner when it runs again
putIdleSem ==
    IF idleSem.line = <<>>
    THEN idleSem' = [idleSem EXCEPT !.owner = NULL] /\ UNCHANGED asleep
    ELSE idleSem' = [owner |-> Head(idleSem.line), line |-> Tail(idleSem.line)] /\ Resume({Head(idleSem.line)})

\* setIdleHook(): the semaphore, ...
setIdleHook(t, f) ==
    /\ Idle(t)
    /\ IF f = NULL
       THEN Leave(t, -1) /\ UNCHANGED <<idleSem, asleep>>
       ELSE getIdleSem(t, [op |-> "setIdleHook", f |-> f, i |-> 0, at |-> "get", got |-> 0])
    /\ UNCHANGED <<idleHooks, idle, hooked, notRun>>

\* clearIdleHook() does not look whether there is a function
clearIdleHook(t, f) ==
    /\ Idle(t)
    /\ getIdleSem(t, [op |-> "clearIdleHook", f |-> f, i |-> 0, at |-> "get", got |-> 0])
    /\ UNCHANGED <<idleHooks, idle, hooked, notRun>>

\* The entries the calls look for, a free one and the function's
Wanted(t) == {i \in HookEntries : idleHooks[i] = IF call[t].op = "setIdleHook" THEN NULL ELSE call[t].f}

\* ... the first entry wanted, or none, ...
hookFind(t) ==
    /\ Runs(t, "setIdleHook", "find") \/ Runs(t, "clearIdleHook", "find")
    /\ IF Wanted(t) = {}
       THEN putIdleSem /\ Leave(t, -1)
       ELSE /\ call' = [call EXCEPT ![t].at = "store", ![t].i = CHOOSE i \in Wanted(t) : \A j \in Wanted(t) : i <= j]
            /\ UNCHANGED <<idleSem, asleep>>
    /\ UNCHANGED <<idleHooks, idle, hooked, notRun>>

\* ... and the entry written.  Clearing NULL clears what is clear
hookStore(t) ==
    LET f == call[t].f
    IN  /\ Runs(t, "setIdleHook", "store") \/ Runs(t, "clearIdleHook", "store")
        /\ idleHooks' = [idleHooks EXCEPT ![call[t].i] = IF call[t].op = "setIdleHook" THEN f ELSE NULL]
        /\ hooked' = IF f = NULL THEN hooked
                        ELSE [hooked EXCEPT ![f] = @ + IF call[t].op = "setIdleHook" THEN 1 ELSE -1]
        /\ notRun' = IF call[t].op = "clearIdleHook" THEN notRun \ {f} ELSE notRun
        /\ putIdleSem
        /\ Leave(t, 0)
        /\ UNCHANGED idle

\* The idle task takes the semaphore if it is free, and else tries again after it
\* has yielded
idleGet ==
    /\ idle.at = "yield" /\ idleSem.owner = NULL
    /\ idleSem' = [idleSem EXCEPT !.owner = IdleTask]
    /\ idle' = [at |-> "test", i |-> 0]
    /\ notRun' = {f \in Hooks : hooked[f] > 0}
    /\ UNCHANGED <<idleHooks, hooked, asleep, call>>

\* Faulty: gives the semaphore back before it calls the function
idleTestUnlocked ==
    /\ idle.at = "test"
    /\ IF idle.i = MaxIdleHooks
       THEN idle' = [idle EXCEPT !.at = "yield"] /\ putIdleSem
       ELSE /\ idle' = IF idleHooks[idle.i] = NULL THEN [idle EXCEPT !.i = @ + 1] ELSE [idle EXCEPT !.at = "call"]
            /\ IF idle.i = 0 THEN putIdleSem ELSE UNCHANGED <<idleSem, asleep>>
    /\ UNCHANGED <<idleHooks, hooked, notRun, call>>

\* The next entry is looked at, or the semaphore is put back after the last ...
idleTest ==
    /\ idle.at = "test"
    /\ IF idle.i = MaxIdleHooks
       THEN idle' = [idle EXCEPT !.at = "yield"] /\ putIdleSem
       ELSE /\ idle' = IF idleHooks[idle.i] = NULL THEN [idle EXCEPT !.i = @ + 1] ELSE [idle EXCEPT !.at = "call"]
            /\ UNCHANGED <<idleSem, asleep>>
    /\ UNCHANGED <<idleHooks, hooked, notRun, call>>

\* ... and read again to call the function, which may preempt nobody but can
\* be preempted.  One that edits the table waits for the semaphore it runs under
idleCall ==
    /\ idle.at = "call"
    /\ notRun' = notRun \ {idleHooks[idle.i]}
    /\ \E edits \in {FALSE, HooksEdit} :
        /\ idle' = IF edits THEN [idle EXCEPT !.at = "waits"] ELSE [at |-> "test", i |-> idle.i + 1]
        /\ idleSem' = IF edits THEN [idleSem EXCEPT !.line = Append(@, IdleTask)] ELSE idleSem
    /\ UNCHANGED <<idleHooks, hooked, asleep, call>>

HookStep ==
    \/ idleGet \/ idleTest \/ idleCall
    \/ \E t \in Tasks : hookFind(t) \/ hookStore(t)

-----------------------------------------------------------------------------
(* Properties.                                                             *)

\* The idle task calls only functions that are set, each of them in every round
\* unless it is cleared first; the table holds what the calls that
\* returned 0 have set and cleared; and the idle task, which runs when
\* nobody else can, never waits.
HooksRun ==
    /\ idle.at = "call" => idleHooks[idle.i] # NULL
    /\ idle.at = "yield" => notRun = {}
    /\ idle.at # "waits"
    /\ \A f \in Hooks : Cardinality({i \in HookEntries : idleHooks[i] = f}) = hooked[f]
=============================================================================
