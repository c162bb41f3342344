------------------------------- MODULE Mouse --------------------------------
(***************************************************************************)
(* The mouse driver of litetask, drivers/mouse/mouse.c, on a serial port.  *)
(*                                                                         *)
(* A task of its own reads the port byte by byte, finds the first byte of  *)
(* a packet by its sync bits, and decodes each packet into a position.     *)
(* The n-th byte the port received is byte n of the packets the mouse      *)
(* sent for its Movements; bytes are lost where the port loses them.       *)
(***************************************************************************)
EXTENDS Serial

CONSTANTS
    MouseTask,      \* the task that runs _mouseReader()
    MousePort,      \* the port the mouse is on
    MouseType,      \* "MICROSOFT" or "MOUSESYSTEMS", as the mouse and createMouse() say
    MouseModes,     \* bound: the modes that ioctl() sets
    Movements       \* what the mouse tells: buttons L and R, and how far it moved

VARIABLES
    mouseTab,       \* devTab: the device id of the mouse, or a negative number
    mouseAt,        \* where _mouseReader() is
    readTask,       \* the handle is there: the reader is to go on
    mseMode,        \* "DELTA" or "ABSOLUTE"
    mseData,        \* the packet so far: the numbers of its bytes; inSync
                    \* is set whenever it is not empty
    msePos,         \* the position that read() returns
    spoilt,         \* history: wrong packets decoded since a byte was lost
    lastByte        \* history: the byte read before

readerState == <<mouseAt, mseData, spoilt, lastByte>>
mouseVars   == <<mouseTab, readTask, mseMode, msePos, readerState>>

MouseInit ==
    /\ mouseTab = -1 /\ mouseAt = "none" /\ readTask = FALSE
    /\ mseMode = "DELTA" /\ mseData = <<>>
    /\ msePos = [x |-> 0, y |-> 0, buttons |-> {}]
    /\ spoilt = 0 /\ lastByte = 0

-----------------------------------------------------------------------------
(* The protocols, and how the driver decodes them.                         *)

dataSize == IF MouseType = "MICROSOFT" THEN 3 ELSE 5

\* The bytes of a packet as a mouse sends them, on a line of eight bits
packet(m) ==
    LET button(name, b) == IF name \in m.buttons THEN b ELSE 0
        low(d) == 128 + (d % 64)
        high(d) == (d % 256) \div 64
    IN  IF MouseType = "MICROSOFT"
        THEN <<192 + button("L", 32) + button("R", 16) + 4 * high(m.y) + high(m.x), low(m.x), low(m.y)>>
        ELSE <<135 - button("L", 4) - button("M", 2) - button("R", 1), m.x % 256, (-m.y) % 256, 0, 0>>

\* The value of byte n
valueOf(n) == packet(Movements[((n - 1) \div dataSize) + 1])[((n - 1) % dataSize) + 1]

syncs(v) == IF MouseType = "MICROSOFT" THEN v >= 192 ELSE v \div 16 = 8

signed(v) == IF v >= 128 THEN v - 256 ELSE v

\* Faulty: bit 5, the sign, is taken for a part of the number
delta6Unsigned(v) == v % 64

\* The six data bits of a Microsoft mouse, extended from bit 5
delta6(v) == IF bit(v, 32) THEN signed(192 + (v % 64)) ELSE v % 128

decodeMicrosoft(d) ==
    [x |-> delta6(d[2]), y |-> delta6(d[3]),
     buttons |-> (IF bit(d[1], 32) THEN {"L"} ELSE {}) \cup (IF bit(d[1], 16) THEN {"R"} ELSE {})]

\* The second movement of the packet, d[4] and d[5], is not looked at
decodeMouseSys(d) ==
    [x |-> signed(d[2]), y |-> -signed(d[3]),
     buttons |-> (IF bit(d[1], 4) THEN {} ELSE {"L"}) \cup (IF bit(d[1], 2) THEN {} ELSE {"M"})
                    \cup (IF bit(d[1], 1) THEN {} ELSE {"R"})]

decode(d) == IF MouseType = "MICROSOFT" THEN decodeMicrosoft(d) ELSE decodeMouseSys(d)

-----------------------------------------------------------------------------
(* Creating and deleting the mouse.                                        *)

\* `installed` is never set: each call clears devTab.  A program calls it
\* while it has no mouse.
installMouse(t) ==
    /\ Idle(t) /\ mouseAt \in {"none", "ended"}
    /\ mouseTab >= 0 /\ ~Serves(mouseTab, "mouse")
    /\ mouseTab' = -1
    /\ UNCHANGED <<devices, call, asleep, selectVars, serialVars, readTask, mseMode, msePos, readerState>>

\* openDevice() of the port succeeds while it is there
createMouse(t) ==
    /\ Idle(t) /\ mouseTab < 0 /\ mouseAt \in {"none", "ended"}
    /\ deviceError(serialTab[MousePort]) = 0
    /\ newIOSysDevice(-1, Device("mouse", MousePort))
    /\ mouseTab' = slot(-1)
    /\ readTask' = TRUE /\ mouseAt' = "open"
    /\ mseMode' = "DELTA" /\ msePos' = [x |-> 0, y |-> 0, buttons |-> {}]
    /\ mseData' = <<>> /\ spoilt' = 0
    /\ slot(-1) >= 0
    /\ NoSelectors(slot(-1))
    /\ UNCHANGED <<call, asleep, serialVars, lastByte>>

\* A mouse is deleted once, when no task selects on it: the driver does not look.
\* It asks the reader to end, "Please move the mouse..", and waits for it
deleteMouse(t) ==
    /\ Idle(t) /\ Serves(mouseTab, "mouse") /\ readTask /\ Listed(mouseTab) = {}
    /\ readTask' = FALSE
    /\ Enter(t, [op |-> "deleteMouse", at |-> "wait", got |-> 0])
    /\ UNCHANGED <<devices, asleep, selectVars, serialVars, mouseTab, mseMode, msePos, readerState>>

\* devTab keeps the id of the deleted device
mouseDeleted(t) ==
    /\ Runs(t, "deleteMouse", "wait") /\ mouseAt = "ended"
    /\ deleteIOSysDevice(mouseTab)
    /\ Leave(t, 0)
    /\ UNCHANGED <<asleep, selectVars, serialVars, mouseVars>>

\* STDIOCNREAD says 0, so that select() always waits for the next packet
mouseNRead == 0

mouseIoctl(t, m) ==
    /\ Idle(t) /\ Serves(mouseTab, "mouse")
    /\ mseMode' = m
    /\ UNCHANGED <<devices, call, asleep, selectVars, serialVars, mouseTab, readTask, msePos, readerState>>

\* Copies msePos to the caller
mouseRead(t) ==
    /\ Idle(t)
    /\ Leave(t, 0)
    /\ UNCHANGED <<devices, asleep, selectVars, serialVars, mouseVars>>

-----------------------------------------------------------------------------
(* The reader task.                                                        *)

Mouse(from, to) == mouseAt = from /\ mouseAt' = to

\* The port is there, and set to blocking mode
mouseReaderOpen ==
    /\ Mouse("open", "check")
    /\ blocking' = blocking \cup {MousePort}
    /\ UNCHANGED <<devices, call, asleep, selectVars, serialTab, ringVars, pendVars, rxVars, txVars, taken,
                   quiet, mouseTab, readTask, mseMode, msePos, mseData, spoilt, lastByte>>

\* Ends if the handle was cleared, else reads a byte
mouseReaderCheck ==
    /\ Mouse("check", IF readTask THEN "byte" ELSE "ended")
    /\ IF readTask
       THEN Enter(MouseTask, [op |-> "serialRead", port |-> MousePort, left |-> 1, at |-> "test", got |-> 0])
       ELSE UNCHANGED call
    /\ UNCHANGED <<devices, asleep, selectVars, serialVars, mouseTab, readTask, mseMode, msePos,
                   mseData, spoilt, lastByte>>

Aligned(d) == d[1] % dataSize = 1 /\ \A i \in 2 .. dataSize : d[i] = d[1] + i - 1

\* Whether byte n goes on with the packet: its first byte has to sync
accepts(n) == mseData # <<>> \/ syncs(valueOf(n))

\* A complete packet: the new position, and its selectors wake
mouseDecode(data) ==
    LET d == [i \in 1 .. dataSize |-> valueOf(data[i])]
        moved == decode(d)
    IN  /\ msePos' = IF mseMode = "DELTA" THEN moved
                     ELSE [moved EXCEPT !.x = @ + msePos.x, !.y = @ + msePos.y]
        /\ Notify(Selectors(mouseTab), mouseTab, call)

mouseReaderByte ==
    LET n == taken[MousePort]
        data == Append(mseData, n)
        lost == n # lastByte + 1
    IN  /\ mouseAt = "byte" /\ Idle(MouseTask)
        /\ \/ \* the port was set to non-blocking meanwhile: an error
              /\ call[MouseTask].got = 0
              /\ mouseAt' = "ended"
              /\ UNCHANGED <<call, asleep, msePos, mseData, spoilt, lastByte>>
           \/ /\ call[MouseTask].got = 1 /\ ~accepts(n)
              /\ mouseAt' = "check"
              /\ lastByte' = n /\ spoilt' = IF lost THEN 0 ELSE spoilt
              /\ UNCHANGED <<call, asleep, msePos, mseData>>
           \/ /\ call[MouseTask].got = 1 /\ accepts(n)
              /\ mouseAt' = "check"
              /\ lastByte' = n
              /\ IF Len(data) < dataSize
                 THEN /\ mseData' = data /\ spoilt' = IF lost THEN 0 ELSE spoilt
                      /\ UNCHANGED <<call, asleep, msePos>>
                 ELSE /\ mseData' = <<>>
                      /\ mouseDecode(data)
                      /\ spoilt' = (IF lost THEN 0 ELSE spoilt) + (IF Aligned(data) THEN 0 ELSE 1)
        /\ UNCHANGED <<devices, selectVars, serialVars, mouseTab, readTask, mseMode>>

-----------------------------------------------------------------------------
(* Properties.                                                             *)

\* One lost byte spoils at most one packet of the mouse, however many packets
\* follow; and a packet that is whole says how the mouse moved.
MouseResyncs ==
    /\ spoilt <= 1
    /\ \A i \in DOMAIN Movements : decode(packet(Movements[i])) = Movements[i]
=============================================================================
