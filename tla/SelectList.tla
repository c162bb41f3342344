---------------------------- MODULE SelectList ------------------------------
(***************************************************************************)
(* The lists of selecting tasks that the character drivers keep: the       *)
(* STDIOCSELECT and STDIOCNSELECT calls of serial.c, bioscon.c and mouse.c *)
(* on the selectInfo_t blocks of select().  Task t has one block for each  *)
(* device d it selects on, <<t, d>>; select() links and unlinks those of   *)
(* all its devices with interrupts off, and a driver wakes those it finds  *)
(* from the head along next.                                               *)
(***************************************************************************)
EXTENDS IOSys

VARIABLES
    selList,        \* per device: the head of its list
    snext, sprev    \* per block: its links

selectVars == <<selList, snext, sprev>>

Blocks == Tasks \X Ids

ASSUME BlocksAssumption == NULL \notin Blocks /\ IsFiniteSet(Tasks)

\* The serial driver gives the old head its back link, the others do not
LinksBack(d) == devices[d].drv = "serial"

\* STDIOCSELECT of t's blocks on the devices of ds: each the head of its list
SelectOn(t, ds) ==
    /\ snext' = [b \in Blocks |-> IF b[1] = t /\ b[2] \in ds THEN selList[b[2]] ELSE snext[b]]
    /\ sprev' = [b \in Blocks |->
                    IF b[1] = t /\ b[2] \in ds THEN NULL
                    ELSE IF b[2] \in ds /\ LinksBack(b[2]) /\ b = selList[b[2]] THEN <<t, b[2]>>
                    ELSE sprev[b]]
    /\ selList' = [d \in Ids |-> IF d \in ds THEN <<t, d>> ELSE selList[d]]

\* Faulty: does not give the follower its new back link
UnselectForward(t, ds) ==
    LET before(d) == sprev[<<t, d>>]
        after(d) == snext[<<t, d>>]
    IN  /\ sprev' = sprev
        /\ snext' = [b \in Blocks |-> IF b[2] \in ds /\ b = before(b[2]) THEN after(b[2]) ELSE snext[b]]
        /\ selList' = [d \in Ids |-> IF d \in ds /\ before(d) = NULL THEN after(d) ELSE selList[d]]

\* STDIOCNSELECT of t's blocks on the devices of ds
Unselect(t, ds) ==
    LET before(d) == sprev[<<t, d>>]
        after(d) == snext[<<t, d>>]
    IN  /\ sprev' = [b \in Blocks |-> IF b[2] \in ds /\ b = after(b[2]) THEN before(b[2]) ELSE sprev[b]]
        /\ snext' = [b \in Blocks |-> IF b[2] \in ds /\ b = before(b[2]) THEN after(b[2]) ELSE snext[b]]
        /\ selList' = [d \in Ids |-> IF d \in ds /\ before(d) = NULL THEN after(d) ELSE selList[d]]

\* A driver wakes the tasks ts with the status d, which select() returns;
\* `frames` are the calls otherwise
Notify(ts, d, frames) ==
    /\ Resume(ts)
    /\ call' = [t \in Tasks |-> IF t \in ts \cap asleep /\ call[t].op = "select"
                                THEN [frames[t] EXCEPT !.got = d] ELSE frames[t]]

\* The list of a new device is empty
NoSelectors(d) ==
    /\ selList' = IF d \in Ids THEN [selList EXCEPT ![d] = NULL] ELSE selList
    /\ UNCHANGED <<snext, sprev>>

\* The blocks a driver meets from b on, at most n of them
Chain(b, n) ==
    LET at[i \in 0 .. n] == IF i = 0 THEN b
                            ELSE IF at[i - 1] = NULL THEN NULL
                            ELSE snext[at[i - 1]]
    IN  {at[i] : i \in 0 .. n} \ {NULL}

Listed(d) == Chain(selList[d], Cardinality(Tasks))

Selectors(d) == {b[1] : b \in Listed(d)}

SelectInit ==
    /\ selList = [d \in Ids |-> NULL]
    /\ snext = [b \in Blocks |-> NULL] /\ sprev = [b \in Blocks |-> NULL]
=============================================================================
