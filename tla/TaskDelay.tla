----------------------------- MODULE TaskDelay ------------------------------
(***************************************************************************)
(* Task with a history of each delayTask() call, to say how long it lasts. *)
(***************************************************************************)
EXTENDS Task

VARIABLES asked,        \* per task: the ticks its last delayTask() asked for
          slept         \* per task: the clock ticks since

delayVars == <<vars, asked, slept>>

DelayInit == Init /\ asked = [t \in Tasks |-> 0] /\ slept = [t \in Tasks |-> 0]

\* A tick counts for every task that is on delQueue when it strikes
DelayNext ==
    /\ Next
    /\ LET starts(t) == pc[t] # "queued" /\ pc'[t] = "queued"
           ticks(t)  == ~inTimer /\ inTimer' /\ t \in Members(queues, "delQueue")
       IN  /\ asked' = [t \in Tasks |-> IF starts(t) THEN extra'[t] ELSE asked[t]]
           /\ slept' = [t \in Tasks |-> IF starts(t) THEN 0
                                        ELSE IF ticks(t) THEN slept[t] + 1 ELSE slept[t]]

DelaySpec == DelayInit /\ [][DelayNext]_delayVars

\* Nobody oversleeps: a task still on delQueue after a tick has ticks to go.
NoOversleep ==
    ~inTimer => \A t \in Members(queues, "delQueue") : slept[t] < (IF asked[t] > 1 THEN asked[t] ELSE 1)

\* A delay lasts exactly the ticks asked for (at least one), however many
\* tasks sleep and in whatever order they fell asleep: a task leaves delQueue
\* on its own tick, neither before nor after.
DelayExact ==
    /\ [][\A t \in Tasks :
            (t \in Members(queues, "delQueue") /\ t \notin Members(queues', "delQueue"))
                => slept[t] = IF asked[t] > 1 THEN asked[t] ELSE 1]_delayVars
    /\ []NoOversleep
=============================================================================
