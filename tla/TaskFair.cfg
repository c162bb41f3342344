\* Liveness of the cooperative system.
SPECIFICATION FairSpec
CONSTANTS
    Main = Main
    Idle = Idle
    NULL = NULL
    a = a
    b = b
    Tasks = {Main, Idle, a}
    Calls = {"new", "exit", "wait", "suspend", "interruptResume", "delay", "lock", "quit"}
    PreEmptive = FALSE
    InterruptWindows = FALSE
    MaxDelay = 2
    MaxLock = 1
INVARIANT ContextSound
PROPERTIES ReadyRuns DelayEnds WaitEnds
