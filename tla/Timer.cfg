\* Three timers, so that the list has a head, a middle and a tail.  The counter
\* wraps at 4: one tick that does not divide it, and one of all of it, as with
\* the period 65535 that the kernel starts with.
SPECIFICATION Spec
CONSTANTS
    NULL = NULL
    t1 = t1
    t2 = t2
    t3 = t3
    Timers = {t1, t2, t3}
    Delays = {0, 2}
    Periods = {2, 3}
    Wrap = 4
SYMMETRY Symmetry
INVARIANTS TimerListSound BiosShare
PROPERTIES FiresOnTick
