------------------------------- MODULE IOSys --------------------------------
(***************************************************************************)
(* The device table of litetask, drivers/iosys.c, and what a task that is  *)
(* in a driver looks like to the others: the call it is in, and whether it *)
(* sleeps in suspendTask().  Code under lockTask() or lockInts() is one    *)
(* action.                                                                 *)
(***************************************************************************)
EXTENDS Integers, Sequences, FiniteSets

CONSTANTS
    Tasks,          \* the tasks that call drivers, those of the drivers included
    NULL,           \* the null pointer, and a free entry of the table
    MaxDevs         \* MAX_DEVS: the size of the device table

ASSUME DevsAssumption == MaxDevs \in Nat \ {0}
ASSUME NoTask == NULL \notin Tasks

EDEVICEID   == -20
EBADDEV     == -21
EDEVUSED    == -22
ENODEVSPACE == -23

VARIABLES
    devices,        \* device id -> NULL, or the driver and unit that serve it
    call,           \* per task: the driver call it is in, and where
    asleep          \* the tasks suspended with suspendTask()

Ids == 0 .. MaxDevs - 1

Device(drv, unit) == [drv |-> drv, unit |-> unit]

Out == [op |-> "out", got |-> 0]

Idle(t) == call[t].op = "out"

\* Task t is in call op, has reached `at`, and may run
Runs(t, op, at) == t \notin asleep /\ call[t].op = op /\ call[t].at = at

Enter(t, frame) == call' = [call EXCEPT ![t] = frame]
Goto(t, at)     == call' = [call EXCEPT ![t].at = at]
Leave(t, value) == call' = [call EXCEPT ![t] = [op |-> "out", got |-> value]]

\* resumeTask() of each task of ts: ETASKSTATE, and no change, for one awake
Resume(ts) == asleep' = asleep \ ts

\* Whether v has the bit of value b
bit(v, b) == ((v \div b) % 2) = 1

-----------------------------------------------------------------------------
(* The table.                                                              *)

Free == {d \in Ids : devices[d] = NULL}

\* Faulty: does not look whether the entry is in use
slotUnchecked(index) == IF index < 0 THEN 0 ELSE index

\* Where newIOSysDevice() puts a device: at index, or at the lowest free
\* entry for a negative one; or its error
slot(index) ==
    IF index >= MaxDevs THEN EDEVICEID
    ELSE IF index >= 0 THEN IF index \in Free THEN index ELSE EDEVUSED
    ELSE IF Free = {} THEN ENODEVSPACE
    ELSE CHOOSE d \in Free : \A e \in Free : d <= e

newIOSysDevice(index, device) ==
    devices' = IF slot(index) >= 0 THEN [devices EXCEPT ![slot(index)] = device]
                                   ELSE devices

deleteIOSysDevice(d) ==
    devices' = IF d \in Ids THEN [devices EXCEPT ![d] = NULL] ELSE devices

\* What every client call checks before it calls the driver
deviceError(d) == IF d \notin Ids THEN EDEVICEID
                  ELSE IF devices[d] = NULL THEN EBADDEV
                  ELSE 0

Serves(d, drv) == deviceError(d) = 0 /\ devices[d].drv = drv

\* getDeviceData() as the drivers use it: an error comes back as a pointer too
getDeviceData(d) == IF deviceError(d) = 0 THEN devices[d].unit ELSE NULL
=============================================================================
