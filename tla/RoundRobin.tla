----------------------------- MODULE RoundRobin -----------------------------
(***************************************************************************)
(* What the scheduler of litetask promises: tasks run in turn.  A task     *)
(* that becomes able to run goes to the back of the line, the task at the  *)
(* front runs next, and the idle task runs only when nobody is in line.    *)
(* Blocked covers suspended, delayed and exited tasks alike.               *)
(***************************************************************************)
EXTENDS Naturals, Sequences

CONSTANTS Tasks, Main, Idle

VARIABLES running,      \* the task that has the processor
          line,         \* the tasks able to run, first come first served
          blocked       \* the tasks that cannot run, perhaps still running

vars == <<running, line, blocked>>

InLine(t) == \E i \in 1..Len(line) : line[i] = t

Init == running = Main /\ line = <<>> /\ blocked = {}

Spawn(t) ==
    /\ t \notin blocked \cup {running, Idle} /\ ~InLine(t)
    /\ line' = Append(line, t)
    /\ UNCHANGED <<running, blocked>>

Block ==
    /\ running # Idle
    /\ blocked' = blocked \cup {running}
    /\ UNCHANGED <<running, line>>

Wake(t) ==
    /\ t \in blocked \ {running}
    /\ blocked' = blocked \ {t}
    /\ line' = Append(line, t)
    /\ UNCHANGED running

Remove(t) ==
    /\ t # running
    /\ \/ \E k \in 1..Len(line) :
            /\ line[k] = t
            /\ line' = SubSeq(line, 1, k - 1) \o SubSeq(line, k + 1, Len(line))
       \/ t \in blocked /\ UNCHANGED line
    /\ blocked' = blocked \ {t}
    /\ UNCHANGED running

Dispatch ==
    LET l == IF running \in blocked \cup {Idle} THEN line ELSE Append(line, running)
    IN  /\ IF l = <<>> THEN running' = Idle /\ line' = l
                       ELSE running' = Head(l) /\ line' = Tail(l)
        /\ UNCHANGED blocked

Next == Block \/ Dispatch \/ \E t \in Tasks : Spawn(t) \/ Wake(t) \/ Remove(t)

Spec == Init /\ [][Next]_vars
=============================================================================
