\* The clock preempts at every point; no interrupt handler resumes tasks.
SPECIFICATION Spec
CONSTANTS
    Main = Main
    Idle = Idle
    NULL = NULL
    a = a
    b = b
    Tasks = {Main, Idle, a, b}
    Calls = {"new", "exit", "delete", "suspend", "resume", "lock"}
    PreEmptive = TRUE
    InterruptWindows = TRUE
    MaxDelay = 0
    MaxLock = 1
SYMMETRY Symmetry
  
PROPERTIES LockSound
