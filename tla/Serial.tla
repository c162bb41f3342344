------------------------------- MODULE Serial -------------------------------
(***************************************************************************)
(* The serial port driver of litetask, drivers/serial/serial.c, and what   *)
(* it sees of the 8250.                                                    *)
(*                                                                         *)
(* The bytes that come in on a port are numbered, so that a byte is the    *)
(* number of its arrival.  The 8250 holds one; a second one that arrives   *)
(* before the first is read is what it calls an overrun.  It interrupts    *)
(* for a line error, then for a byte, an empty transmitter, a modem line,  *)
(* and says which in IIR; a cause that is left when the handler ends       *)
(* interrupts again.  A byte may arrive between the handler's reads of IIR *)
(* and of LSR.                                                             *)
(***************************************************************************)
EXTENDS SelectList

CONSTANTS
    Ports,          \* 0 .. MAX_SERIALPORTS - 1
    RingSize,       \* SERIAL_BUF_SIZE
    SharedPorts,    \* several tasks may read, or write, one port at a time
    MaxBytes        \* bound: the bytes that arrive on a port

ASSUME RingAssumption == RingSize \in Nat \ {0, 1} /\ MaxBytes \in Nat /\ SharedPorts \in BOOLEAN

VARIABLES
    serialTab,      \* devTab: per port its device id, or a negative number
    ring,           \* buffer: the bytes stored in its slots
    head, tail,     \* where the next byte is stored, and read
    blocking,       \* the ports with SER_MODE_BLK
    pendTask,       \* per port: the task that waits, or NULL
    pendWhy,        \* ...and what for: "read" or "write"
    txEnabled,      \* the ports with COM_IER_TXRDY set
    (* the 8250 *)
    arrived,        \* per port: the bytes that arrived so far
    rbr,            \* the byte in the receiver, 0 for none
    lineError,      \* the ports with an error in LSR
    thre,           \* the ports whose transmitter is empty
    txReady,        \* those that have not said so yet
    modem,          \* the ports with a changed modem line
    (* history *)
    taken,          \* per port: the last byte read() took
    quiet           \* the ports with bytes that no RXDATA interrupt announced,
                    \* or that an overrun, head = tail, made look like none

ringVars   == <<ring, head, tail>>
pendVars   == <<pendTask, pendWhy>>
rxVars     == <<arrived, rbr, lineError, modem>>
txVars     == <<txEnabled, thre, txReady>>
serialVars == <<serialTab, ringVars, blocking, pendVars, rxVars, txVars, taken, quiet>>

Slots == 0 .. RingSize - 1
After(i) == (i + 1) % RingSize

Created(p) == serialTab[p] >= 0

SerialInit ==
    /\ serialTab = [p \in Ports |-> -1]
    /\ ring = [p \in Ports |-> [i \in Slots |-> 0]]
    /\ head = [p \in Ports |-> 0] /\ tail = [p \in Ports |-> 0]
    /\ blocking = {} /\ pendTask = [p \in Ports |-> NULL] /\ pendWhy = [p \in Ports |-> "read"]
    /\ arrived = [p \in Ports |-> 0] /\ rbr = [p \in Ports |-> 0]
    /\ lineError = {} /\ modem = {}
    /\ txEnabled = {} /\ thre = Ports /\ txReady = {}
    /\ taken = [p \in Ports |-> 0] /\ quiet = {}

-----------------------------------------------------------------------------
(* Creating and deleting ports.                                            *)

\* The port is not there yet; without an entry in the device table only the
\* error number stays in devTab
createSerial(t, p, mode) ==
    /\ Idle(t) /\ ~Created(p)
    /\ newIOSysDevice(-1, Device("serial", p))
    /\ serialTab' = [serialTab EXCEPT ![p] = slot(-1)]
    /\ blocking' = IF mode = "BLK" THEN blocking \cup {p} ELSE blocking \ {p}
    /\ head' = [head EXCEPT ![p] = 0] /\ tail' = [tail EXCEPT ![p] = 0]
    /\ pendTask' = [pendTask EXCEPT ![p] = NULL]
    /\ txEnabled' = txEnabled \ {p}
    /\ quiet' = quiet \ {p}
    /\ NoSelectors(slot(-1))
    /\ UNCHANGED <<call, asleep, ring, pendWhy, rxVars, thre, txReady, taken>>

\* A port is deleted when no task is in it: the driver does not look
InUse(p) == \/ \E u \in Tasks : call[u].op \in {"serialRead", "serialWrite"} /\ call[u].port = p
            \/ Created(p) /\ Listed(serialTab[p]) # {}

deleteSerial(t, p) ==
    /\ Idle(t) /\ Created(p) /\ ~InUse(p)
    /\ deleteIOSysDevice(serialTab[p])
    /\ serialTab' = [serialTab EXCEPT ![p] = -1]
    /\ txEnabled' = txEnabled \ {p}
    /\ UNCHANGED <<call, asleep, selectVars, ringVars, blocking, pendVars, rxVars, thre, txReady,
                   taken, quiet>>

\* removeSerial() deletes every port there is
removeSerial(t) ==
    /\ Idle(t) /\ \E p \in Ports : Created(p)
    /\ \A p \in Ports : ~InUse(p)
    /\ devices' = [d \in Ids |-> IF \E p \in Ports : serialTab[p] = d THEN NULL ELSE devices[d]]
    /\ serialTab' = [p \in Ports |-> IF Created(p) THEN -1 ELSE serialTab[p]]
    /\ txEnabled' = txEnabled \ {p \in Ports : Created(p)}
    /\ UNCHANGED <<call, asleep, selectVars, ringVars, blocking, pendVars, rxVars, thre, txReady,
                   taken, quiet>>

-----------------------------------------------------------------------------
(* The driver's read(), write() and ioctl().                               *)

Alone(p, op) == SharedPorts \/ ~\E u \in Tasks : call[u].op = op /\ call[u].port = p

serialRead(t, p, n) ==
    /\ Idle(t) /\ Alone(p, "serialRead")
    /\ Enter(t, [op |-> "serialRead", port |-> p, left |-> n, at |-> "test", got |-> 0])
    /\ UNCHANGED <<devices, asleep, selectVars, serialVars>>

\* With interrupts off: a byte is there, or sleep for one, or return.  A task
\* that was woken goes on to take a byte without another look.
readTest(t) ==
    \E p \in Ports :
        /\ Runs(t, "serialRead", "test") /\ call[t].port = p
        /\ \/ /\ head[p] # tail[p]
              /\ Goto(t, "take")
              /\ UNCHANGED <<asleep, pendVars>>
           \/ /\ head[p] = tail[p] /\ p \in blocking
              /\ pendTask' = [pendTask EXCEPT ![p] = t]
              /\ pendWhy' = [pendWhy EXCEPT ![p] = "read"]
              /\ asleep' = asleep \cup {t}
              /\ Goto(t, "take")
           \/ /\ head[p] = tail[p] /\ p \notin blocking
              /\ Leave(t, 0)
              /\ UNCHANGED <<asleep, pendVars>>
        /\ UNCHANGED <<devices, selectVars, serialTab, ringVars, blocking, rxVars, txVars, taken, quiet>>

\* read() leaves with 1 when it has all the bytes asked for, with 0 before
readTake(t) ==
    \E p \in Ports :
        LET byte == ring[p][tail[p]]
        IN  /\ Runs(t, "serialRead", "take") /\ call[t].port = p
            /\ tail' = [tail EXCEPT ![p] = After(@)]
            /\ taken' = [taken EXCEPT ![p] = byte]
            /\ IF call[t].left > 1
               THEN Enter(t, [call[t] EXCEPT !.left = @ - 1, !.at = "test"])
               ELSE Leave(t, 1)
            /\ UNCHANGED <<devices, asleep, selectVars, serialTab, ring, head, blocking, pendVars,
                           rxVars, txVars, quiet>>

serialWrite(t, p, n) ==
    /\ Idle(t) /\ Alone(p, "serialWrite")
    /\ Enter(t, [op |-> "serialWrite", port |-> p, left |-> n, at |-> "test", got |-> 0])
    /\ UNCHANGED <<devices, asleep, selectVars, serialVars>>

\* With interrupts off: the transmitter is empty, or sleep for it, or return.
\* The interrupt it sleeps for comes at once when the transmitter is empty.
writeTest(t) ==
    \E p \in Ports :
        /\ Runs(t, "serialWrite", "test") /\ call[t].port = p
        /\ \/ /\ p \in thre
              /\ Goto(t, "put")
              /\ UNCHANGED <<asleep, pendVars, txEnabled>>
           \/ /\ p \notin thre /\ p \in blocking
              /\ txEnabled' = txEnabled \cup {p}
              /\ pendTask' = [pendTask EXCEPT ![p] = t]
              /\ pendWhy' = [pendWhy EXCEPT ![p] = "write"]
              /\ asleep' = asleep \cup {t}
              /\ Goto(t, "woken")
           \/ /\ p \notin thre /\ p \notin blocking
              /\ Leave(t, 0)
              /\ UNCHANGED <<asleep, pendVars, txEnabled>>
        /\ UNCHANGED <<devices, selectVars, serialTab, ringVars, blocking, rxVars, thre, txReady,
                       taken, quiet>>

writeWoken(t) ==
    \E p \in Ports :
        /\ Runs(t, "serialWrite", "woken") /\ call[t].port = p
        /\ txEnabled' = txEnabled \ {p}
        /\ Goto(t, "put")
        /\ UNCHANGED <<devices, asleep, selectVars, serialTab, ringVars, blocking, pendVars, rxVars,
                       thre, txReady, taken, quiet>>

writePut(t) ==
    \E p \in Ports :
        /\ Runs(t, "serialWrite", "put") /\ call[t].port = p
        /\ thre' = thre \ {p} /\ txReady' = txReady \ {p}
        /\ IF call[t].left > 1
           THEN Enter(t, [call[t] EXCEPT !.left = @ - 1, !.at = "test"])
           ELSE Leave(t, 0)
        /\ UNCHANGED <<devices, asleep, selectVars, serialTab, ringVars, blocking, pendVars, rxVars,
                       txEnabled, taken, quiet>>

\* STDIOCBLK and STDIOCNBLK; STDIOCSELECT and STDIOCNSELECT are in SelectList
serialIoctl(t, p, mode) ==
    /\ Idle(t) /\ Created(p)
    /\ blocking' = IF mode = "BLK" THEN blocking \cup {p} ELSE blocking \ {p}
    /\ UNCHANGED <<devices, call, asleep, selectVars, serialTab, ringVars, pendVars, rxVars, txVars,
                   taken, quiet>>

\* STDIOCNREAD: the bytes in the ring
serialNRead(p) == IF head[p] >= tail[p] THEN head[p] - tail[p] ELSE head[p] - tail[p] + RingSize

-----------------------------------------------------------------------------
(* The 8250.                                                               *)

\* A byte arrives, maybe with an error, and replaces one that is still there
Arrives(p) ==
    /\ arrived[p] < MaxBytes
    /\ arrived' = [arrived EXCEPT ![p] = @ + 1]
    /\ rbr' = [rbr EXCEPT ![p] = arrived'[p]]
    /\ \/ lineError' = lineError \cup {p}
       \/ rbr[p] = 0 /\ UNCHANGED lineError
    /\ UNCHANGED <<devices, call, asleep, selectVars, serialTab, ringVars, blocking, pendVars, modem,
                   txVars, taken, quiet>>

Transmitted(p) ==
    /\ p \notin thre
    /\ thre' = thre \cup {p} /\ txReady' = txReady \cup {p}
    /\ UNCHANGED <<devices, call, asleep, selectVars, serialTab, ringVars, blocking, pendVars, rxVars,
                   txEnabled, taken, quiet>>

ModemChanges(p) ==
    /\ p \notin modem /\ arrived[p] < MaxBytes
    /\ modem' = modem \cup {p}
    /\ UNCHANGED <<devices, call, asleep, selectVars, serialTab, ringVars, blocking, pendVars, arrived,
                   rbr, lineError, txVars, taken, quiet>>

\* IIR: the cause that interrupts first
iir(p) == IF p \in lineError THEN "STAT"
          ELSE IF rbr[p] # 0 THEN "RXDATA"
          ELSE IF p \in txReady \cap txEnabled THEN "TXRDY"
          ELSE IF p \in modem THEN "MODEM"
          ELSE "NOINT"

-----------------------------------------------------------------------------
(* The interrupt handler.                                                  *)

\* Faulty: keeps pendTask and wakes nobody for a byte
WokenTx(p) == {t \in {pendTask[p]} \ {NULL} : pendWhy[p] = "write" /\ iir(p) = "TXRDY"}

\* The tasks the handler wakes on port p
Woken(p) ==
    LET waits == CASE iir(p) = "RXDATA" -> "read" [] iir(p) = "TXRDY" -> "write" [] OTHER -> "none"
    IN  {t \in {pendTask[p]} \ {NULL} : pendWhy[p] = waits}
            \cup {t \in Selectors(serialTab[p]) : call[t].op = "select" /\ call[t].type = waits}

\* Faulty: the byte is stored after head has moved on
storedLate(p, byte) == [ring[p] EXCEPT ![After(head[p])] = byte]

stored(p, byte) == [ring[p] EXCEPT ![head[p]] = byte]

\* One port that interrupts.  `byte` is what LSR then says is there: the byte
\* of the interrupt, or one that has just arrived.
_serialTrap(p) ==
    /\ Created(p) /\ iir(p) # "NOINT"
    /\ \E late \in {n \in {arrived[p] + 1} : rbr[p] = 0 /\ n <= MaxBytes} \cup {0} :
        LET byte == rbr[p] + late
        IN  /\ arrived' = [arrived EXCEPT ![p] = IF late = 0 THEN @ ELSE late]
            /\ Notify(Woken(p), serialTab[p], call)
            /\ pendTask' = [pendTask EXCEPT ![p] = IF @ \in Woken(p) THEN NULL ELSE @]
            /\ txReady' = IF iir(p) = "TXRDY" THEN txReady \ {p} ELSE txReady
            /\ lineError' = lineError \ {p} /\ modem' = modem \ {p}
            /\ rbr' = [rbr EXCEPT ![p] = 0]
            /\ IF byte # 0
               THEN /\ ring' = [ring EXCEPT ![p] = stored(p, byte)]
                    /\ head' = [head EXCEPT ![p] = After(@)]
               ELSE UNCHANGED <<ring, head>>
            /\ quiet' = IF byte # 0 /\ (iir(p) # "RXDATA" \/ After(head[p]) = tail[p])
                        THEN quiet \cup {p}
                        ELSE IF iir(p) = "RXDATA" THEN quiet \ {p} ELSE quiet
    /\ UNCHANGED <<devices, selectVars, serialTab, tail, blocking, pendWhy, txEnabled, thre, taken>>
=============================================================================
