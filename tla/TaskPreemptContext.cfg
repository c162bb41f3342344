\* The clock preempts while schedExit switches stacks.
SPECIFICATION Spec
CONSTANTS
    Main = Main
    Idle = Idle
    NULL = NULL
    a = a
    b = b
    Tasks = {Main, Idle, a, b}
    Calls = {"new", "suspend", "resume"}
    PreEmptive = TRUE
    InterruptWindows = TRUE
    MaxDelay = 0
    MaxLock = 0
INVARIANT ContextSound
