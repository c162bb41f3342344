\* Blocking in the cooperative system, with a history of the delays.
SPECIFICATION DelaySpec
CONSTANTS
    Main = Main
    Idle = Idle
    NULL = NULL
    a = a
    b = b
    Tasks = {Main, Idle, a, b}
    Calls = {"new", "delay", "suspend", "interruptResume"}
    PreEmptive = FALSE
    InterruptWindows = FALSE
    MaxDelay = 2
    MaxLock = 0
SYMMETRY Symmetry
INVARIANT DelQueueSound
PROPERTIES DelayExact RunsInTurn
