\* Interrupt handlers that resume tasks, with interrupts in the windows.
SPECIFICATION Spec
CONSTANTS
    Main = Main
    Idle = Idle
    NULL = NULL
    a = a
    b = b
    Tasks = {Main, Idle, a, b}
    Calls = {"new", "suspend", "interruptResume"}
    PreEmptive = FALSE
    InterruptWindows = TRUE
    MaxDelay = 0
    MaxLock = 0
INVARIANT NoTaskLost
