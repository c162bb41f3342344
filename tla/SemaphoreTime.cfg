\* A lock and its timeouts, with a history and fairness.
SPECIFICATION TimeSpec
CONSTANTS
    NULL = NULL
    a = a
    b = b
    c = c
    Tasks = {a, b, c}
    Sems = {"lock"}
    Signals = {}
    StartRace = FALSE
    Timeouts = {1, 2}
PROPERTIES TimeoutExact FirstComeFirstServed WaitReturns
