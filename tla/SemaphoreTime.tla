--------------------------- MODULE SemaphoreTime ----------------------------
(***************************************************************************)
(* Semaphore with a history of each wait, to say how long it lasts.        *)
(***************************************************************************)
EXTENDS Semaphore

VARIABLE waited         \* per task: the clock ticks since its wait began

timeHistory == <<vars, waited>>

TimeInit == Init /\ waited = [t \in Tasks |-> 0]

TimeNext ==
    /\ Next
    /\ waited' = [t \in Tasks |->
                    IF pc[t] # "suspended" THEN 0
                    ELSE IF firing = 0 /\ firing' > 0 /\ timeout[t] > 0 THEN waited[t] + 1
                    ELSE waited[t]]

TimeSpec == TimeInit /\ [][TimeNext]_timeHistory /\ Fairness

\* No wait outlasts its timeout: one still on after a tick has ticks to go.
NoOverstay ==
    firing = 0 => \A t \in Tasks :
        (pc[t] = "suspended" /\ timeout[t] > 0) => waited[t] < timeout[t]

\* A wait times out on the very tick it was called with, however many waits
\* are on timeoutList and whichever leave it meanwhile: not before, nor after.
TimeoutExact ==
    /\ [][\A t \in Tasks : (pc[t] = "suspended" /\ pc'[t] = "SEM_TIMEOUT")
                            => waited[t] = timeout[t]]_timeHistory
    /\ []NoOverstay
=============================================================================
