\* A lock and a signal shared by three tasks; two tasks may
\* both find the semaphore timer not running and start it.
SPECIFICATION Spec
CONSTANTS
    NULL = NULL
    a = a
    b = b
    c = c
    Tasks = {a, b, c}
    Sems = {"lock", "signal"}
    Signals = {"signal"}
    StartRace = TRUE
    Timeouts = {2}
SYMMETRY Symmetry
INVARIANTS LocksPassed ListsSound
