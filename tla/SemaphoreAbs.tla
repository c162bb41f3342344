---------------------------- MODULE SemaphoreAbs ----------------------------
(***************************************************************************)
(* What semaphor.c promises: each semaphore has at most one owner, a task  *)
(* that finds it owned waits in line, a release hands it to the front of   *)
(* the line, and a task may leave the line from anywhere (its timeout).    *)
(***************************************************************************)
EXTENDS Naturals, Sequences

CONSTANTS Tasks, Sems, NULL

VARIABLES holder,       \* per semaphore: its owner
          line          \* per semaphore: the waiting tasks, first come first

vars == <<holder, line>>

InLine(s, t) == \E i \in 1..Len(line[s]) : line[s][i] = t

Init == holder = [s \in Sems |-> NULL] /\ line = [s \in Sems |-> <<>>]

Take(s, t) ==
    /\ holder[s] = NULL /\ line[s] = <<>>
    /\ holder' = [holder EXCEPT ![s] = t]
    /\ UNCHANGED line

Join(s, t) ==
    /\ holder[s] # NULL
    /\ \A r \in Sems : ~InLine(r, t)
    /\ line' = [line EXCEPT ![s] = Append(@, t)]
    /\ UNCHANGED holder

Leave(s, t) ==
    /\ \E k \in 1..Len(line[s]) :
         /\ line[s][k] = t
         /\ line' = [line EXCEPT ![s] = SubSeq(@, 1, k - 1) \o SubSeq(@, k + 1, Len(@))]
    /\ UNCHANGED holder

Release(s) ==
    IF line[s] = <<>> THEN holder' = [holder EXCEPT ![s] = NULL] /\ UNCHANGED line
    ELSE /\ holder' = [holder EXCEPT ![s] = Head(line[s])]
         /\ line' = [line EXCEPT ![s] = Tail(@)]

Next == \E s \in Sems : Release(s) \/ \E t \in Tasks : Take(s, t) \/ Join(s, t) \/ Leave(s, t)

Spec == Init /\ [][Next]_vars
=============================================================================
