---------------------------- MODULE LibraryProofs ----------------------------
(***************************************************************************)
(* Proofs about System, for any programs, tasks, ports, pages and drives:  *)
(* what the libraries keep, each for itself, so they begin with which      *)
(* calls a step of each can move (MovesOnly); then what the drivers share, *)
(* the device table, the BIOS, which one task at a time calls, and whole   *)
(* disk transfers.  SystemProofs extends them.                             *)
(***************************************************************************)
EXTENDS System, LinkedLists, FiniteSetTheorems, WellFoundedInduction, TLAPS

-----------------------------------------------------------------------------
(* Whose calls a step moves.                                               *)

CallsOK == DOMAIN call = Tasks /\ \A t \in Tasks : "op" \in DOMAIN call[t]

SerialOps == {"serialRead", "serialWrite"}
ConsoleOps == {"consoleRead", "removeConsole"}
DriverOps == SerialOps \cup ConsoleOps \cup DiskOps \cup {"select", "deleteMouse"}
XOps == {"unmap", "destroy", "close", "event"}
HookOps == {"setIdleHook", "clearIdleHook"}

\* The mouse's task makes no calls but to read its port
Ready ==
    /\ linked \in Programs /\ CallsOK
    /\ call[MouseTask].op \in {"out", "serialRead"}

\* Only calls of ops are begun, moved or ended; the mouse's task ends those it has begun
MovesOnly(ops) ==
    /\ Ready'
    /\ \A t \in Tasks : call'[t] = call[t] \/ {call[t].op, call'[t].op} \subseteq ops \cup {"out"}
    /\ (call[MouseTask].op = "out" /\ call'[MouseTask].op = "out") => call'[MouseTask] = call[MouseTask]

\* A call is exchanged for another of the same library.
LEMMA OwnCall ==
    ASSUME Ready, linked' = linked, NEW ops, NEW t \in Tasks, call[t].op \in ops \cup {"out"},
           NEW f, "op" \in DOMAIN f, f.op \in ops \cup {"out"}, call' = [call EXCEPT ![t] = f],
           t = MouseTask => f.op \in {"out", "serialRead"} /\ (call[t].op # "out" \/ f.op # "out")
    PROVE  MovesOnly(ops)
  BY BytesAssumption DEF Ready, CallsOK, MovesOnly

\* No call moves.
LEMMA NoCall == ASSUME Ready, linked' = linked, call' = call, NEW ops PROVE MovesOnly(ops)
  BY DEF Ready, CallsOK, MovesOnly

\* Calls of more libraries are moved by a step that moves those of one.
LEMMA MoreMoves ==
    ASSUME NEW ops, NEW more, MovesOnly(ops), ops \subseteq more
    PROVE  MovesOnly(more)
  BY DEF MovesOnly

\* A call is left, ...
LEMMA OwnLeave ==
    ASSUME Ready, linked' = linked, NEW ops, NEW t \in Tasks, call[t].op \in ops \cup {"out"},
           NEW value, Leave(t, value), t = MouseTask => call[t].op # "out"
    PROVE  MovesOnly(ops)
  <1> DEFINE f == [op |-> "out", got |-> value]
  <1>1. "op" \in DOMAIN f /\ f.op = "out" /\ call' = [call EXCEPT ![t] = f]
    BY DEF Leave
  <1> QED
    BY <1>1, OwnCall

\* ... or goes on.
LEMMA OwnGoto ==
    ASSUME Ready, linked' = linked, NEW ops, NEW t \in Tasks, call[t].op \in ops \cup {"out"},
           NEW at, Goto(t, at), t = MouseTask => call[t].op # "out"
    PROVE  MovesOnly(ops)
  <1> DEFINE f == [call[t] EXCEPT !.at = at]
  <1>1. "op" \in DOMAIN f /\ f.op = call[t].op
    BY DEF Ready, CallsOK
  <1>2. call' = [call EXCEPT ![t] = f]
    BY DEF Goto
  <1>3. t = MouseTask => f.op \in {"out", "serialRead"} /\ (call[t].op # "out" \/ f.op # "out")
    BY <1>1 DEF Ready
  <1> QED
    BY <1>1, <1>2, <1>3, OwnCall

\* An application's call is entered.
LEMMA OwnEnter ==
    ASSUME Ready, linked' = linked, NEW ops, NEW t \in Tasks \ {MouseTask}, call[t].op \in ops \cup {"out"},
           NEW f, "op" \in DOMAIN f, f.op \in ops \cup {"out"}, Enter(t, f)
    PROVE  MovesOnly(ops)
  BY OwnCall DEF Enter

\* A driver wakes tasks.
LEMMA OwnNotify ==
    ASSUME Ready, linked' = linked, NEW ops, "select" \in ops, NEW ts, NEW d, Notify(ts, d, call)
    PROVE  MovesOnly(ops)
  <1>1. CallsOK'
    BY DEF Notify, Ready, CallsOK
  <1>2. ASSUME NEW t \in Tasks PROVE call'[t] = call[t] \/ (call[t].op = "select" /\ call'[t].op = "select")
    BY DEF Notify, Ready, CallsOK
  <1>3. MouseTask \in Tasks
    BY BytesAssumption
  <1> QED
    BY <1>1, <1>2, <1>3 DEF Ready, MovesOnly

\* The calls of an application are its own.
LEMMA ApplicationTasks == ASSUME Ready, NEW t \in Applications PROVE t \in Tasks \ {MouseTask}
  BY ProgramsAssumption DEF Ready, Applications

\* The calls of a port move no others.
LEMMA PortMoves ==
    ASSUME Ready, linked' = linked, NEW t \in Tasks, readTest(t) \/ readTake(t) \/ writeTest(t) \/ writeWoken(t) \/ writePut(t)
    PROVE  MovesOnly(SerialOps)
  <1>1. call[t].op \in SerialOps /\ call[t].op \in SerialOps \cup {"out"} /\ call[t].op # "out"
    BY DEF readTest, readTake, writeTest, writeWoken, writePut, Runs, SerialOps
  <1> DEFINE f == [call[t] EXCEPT !.left = @ - 1, !.at = "test"]
  <1>2. "op" \in DOMAIN f /\ f.op = call[t].op
    BY DEF Ready, CallsOK
  <1>3. Enter(t, f) \/ (\E at : Goto(t, at)) \/ \E value : Leave(t, value)
    BY DEF readTest, readTake, writeTest, writeWoken, writePut
  <1>4. CASE Enter(t, f)
    <2>1. t = MouseTask => f.op \in {"out", "serialRead"} /\ (call[t].op # "out" \/ f.op # "out")
      BY <1>1, <1>2 DEF Ready, SerialOps
    <2>2. call' = [call EXCEPT ![t] = f]
      BY <1>4 DEF Enter
    <2> HIDE DEF f
    <2> QED
      BY <1>1, <1>2, <2>1, <2>2, OwnCall
  <1>5. CASE \E at : Goto(t, at)
    BY <1>1, <1>5, OwnGoto
  <1>6. CASE \E value : Leave(t, value)
    BY <1>1, <1>6, OwnLeave
  <1> QED
    BY <1>3, <1>4, <1>5, <1>6

\* Those of the ports, ...
LEMMA SerialMoves ==
    ASSUME Ready, linked' = linked, SerialStep
    PROVE  MovesOnly(SerialOps \cup {"select"})
  <1>1. ASSUME NEW t \in Tasks, NEW p, NEW m,
               createSerial(t, p, m) \/ deleteSerial(t, p) \/ removeSerial(t)
        PROVE  call' = call
    BY <1>1 DEF createSerial, deleteSerial, removeSerial
  <1>2. ASSUME NEW t \in Tasks, readTest(t) \/ readTake(t) \/ writeTest(t) \/ writeWoken(t) \/ writePut(t)
        PROVE  MovesOnly(SerialOps \cup {"select"})
    BY <1>2, PortMoves, MoreMoves
  <1>3. ASSUME NEW p, Arrives(p) \/ Transmitted(p) \/ ModemChanges(p) \/ _serialTrap(p)
        PROVE  MovesOnly(SerialOps \cup {"select"})
    <2>1. CASE _serialTrap(p)
      BY <2>1, OwnNotify DEF _serialTrap
    <2>2. CASE Arrives(p) \/ Transmitted(p) \/ ModemChanges(p)
      BY <2>2, NoCall DEF Arrives, Transmitted, ModemChanges
    <2> QED
      BY <1>3, <2>1, <2>2
  <1> QED
    BY <1>1, <1>2, <1>3, NoCall, ApplicationTasks DEF SerialStep

\* ... of the client's, ...
LEMMA ClientMoves ==
    ASSUME Ready, linked' = linked, Client
    PROVE  MovesOnly(DriverOps)
  <1>1. PICK t \in Tasks \ {MouseTask} :
            \/ \E d \in Ids : \/ \E n \in 1 .. 2 : readDevice(t, d, n)
                              \/ writeDevice(t, d, 1)
                              \/ openDevice(t, d)
                              \/ ioctlDevice(t, d)
            \/ \E ds \in SUBSET Ids, type \in {"read", "write"} : select(t, type, ds)
            \/ selected(t)
    BY ApplicationTasks DEF Client
  <1>2. \A f : ("op" \in DOMAIN f /\ f.op \in DriverOps /\ call[t].op = "out" /\ Enter(t, f)) => MovesOnly(DriverOps)
    BY OwnEnter
  <1>3. \A value : (call[t].op \in DriverOps \cup {"out"} /\ Leave(t, value)) => MovesOnly(DriverOps)
    BY OwnLeave
  <1>4. ASSUME NEW d \in Ids, NEW n, readDevice(t, d, n) PROVE MovesOnly(DriverOps)
    <2>1. call[t].op = "out"
      BY <1>4 DEF readDevice, serialRead, consoleRead, mouseRead, diskTransfer, Idle
    <2>2. \/ \E value : Leave(t, value)
          \/ Enter(t, [op |-> "serialRead", port |-> devices[d].unit, left |-> n, at |-> "test", got |-> 0])
          \/ Enter(t, [op |-> "consoleRead", page |-> devices[d].unit, size |-> n, cnt |-> 0, at |-> "test", got |-> 0])
          \/ Enter(t, [op |-> "disk", drive |-> devices[d].unit, size |-> n, cnt |-> 0, at |-> "get", got |-> 0])
      BY <1>4 DEF readDevice, serialRead, consoleRead, mouseRead, diskTransfer
    <2> QED
      BY <1>2, <1>3, <2>1, <2>2 DEF DriverOps, SerialOps, ConsoleOps, DiskOps
  <1>5. ASSUME NEW d \in Ids, writeDevice(t, d, 1) \/ openDevice(t, d) \/ ioctlDevice(t, d) PROVE MovesOnly(DriverOps)
    <2>1. \/ call' = call
          \/ /\ call[t].op = "out"
             /\ \/ Enter(t, [op |-> "serialWrite", port |-> devices[d].unit, left |-> 1, at |-> "test", got |-> 0])
                \/ Enter(t, [op |-> "diskOpen", drive |-> devices[d].unit, at |-> "get", got |-> 0])
      BY <1>5 DEF writeDevice, openDevice, ioctlDevice, serialWrite, consoleWrite, diskOpen, serialIoctl, consoleIoctl,
                  mouseIoctl, Idle
    <2> QED
      BY <1>2, <2>1, NoCall DEF DriverOps, SerialOps, DiskOps
  <1>6. ASSUME NEW ds, NEW type, select(t, type, ds) PROVE MovesOnly(DriverOps)
    <2>1. call[t].op = "out"
      BY <1>6 DEF select, Idle
    <2>2. \/ \E value : Leave(t, value)
          \/ Enter(t, [op |-> "select", type |-> type, on |-> {d \in ds : Selectable(d)}, at |-> "woken", got |-> 0])
      BY <1>6 DEF select
    <2> QED
      BY <1>2, <1>3, <2>1, <2>2 DEF DriverOps
  <1>7. CASE selected(t)
    BY <1>3, <1>7 DEF selected, Runs, DriverOps
  <1> QED
    BY <1>1, <1>4, <1>5, <1>6, <1>7

\* ... of the mouse, ...
LEMMA MouseMoves ==
    ASSUME Ready, linked' = linked, MouseStep
    PROVE  MovesOnly({"serialRead", "select", "deleteMouse"})
  <1> DEFINE ops == {"serialRead", "select", "deleteMouse"}
  <1>1. ASSUME NEW t \in Tasks \ {MouseTask}, installMouse(t) \/ createMouse(t) \/ deleteMouse(t) \/ mouseDeleted(t)
        PROVE  MovesOnly(ops)
    <2>1. CASE installMouse(t) \/ createMouse(t)
      BY <2>1, NoCall DEF installMouse, createMouse
    <2>2. CASE deleteMouse(t)
      <3>1. call[t].op = "out" /\ Enter(t, [op |-> "deleteMouse", at |-> "wait", got |-> 0])
        BY <2>2 DEF deleteMouse, Idle
      <3> QED
        BY <3>1, OwnEnter
    <2>3. CASE mouseDeleted(t)
      BY <2>3, OwnLeave DEF mouseDeleted, Runs
    <2> QED
      BY <1>1, <2>1, <2>2, <2>3
  <1>2. CASE mouseReaderOpen
    BY <1>2, NoCall DEF mouseReaderOpen
  <1>3. CASE mouseReaderCheck
    <2> DEFINE f == [op |-> "serialRead", port |-> MousePort, left |-> 1, at |-> "test", got |-> 0]
    <2>1. call' = call \/ call' = [call EXCEPT ![MouseTask] = f]
      BY <1>3 DEF mouseReaderCheck, Enter
    <2>2. MouseTask \in Tasks /\ call[MouseTask].op \in ops \cup {"out"}
      BY BytesAssumption DEF Ready
    <2>3. "op" \in DOMAIN f /\ f.op = "serialRead"
      OBVIOUS
    <2> HIDE DEF f
    <2> QED
      BY <2>1, <2>2, <2>3, NoCall, OwnCall
  <1>4. CASE mouseReaderByte
    <2>1. call' = call \/ Notify(Selectors(mouseTab), mouseTab, call)
      BY <1>4 DEF mouseReaderByte, mouseDecode
    <2> QED
      BY <2>1, NoCall, OwnNotify
  <1> QED
    BY <1>1, <1>2, <1>3, <1>4, ApplicationTasks DEF MouseStep

\* ... of the consoles ...
LEMMA ConsoleMoves ==
    ASSUME Ready, linked' = linked, ConsoleStep
    PROVE  MovesOnly(ConsoleOps \cup {"select"})
  <1> DEFINE ops == ConsoleOps \cup {"select"}
  <1>1. ASSUME NEW t \in Tasks \ {MouseTask}, NEW p, createConsole(t, p) \/ deleteConsole(t, p) \/ installConsole(t)
        PROVE  MovesOnly(ops)
    BY <1>1, NoCall DEF createConsole, deleteConsole, installConsole
  <1>2. ASSUME NEW t \in Tasks \ {MouseTask}, removeConsole(t) \/ removed(t) PROVE MovesOnly(ops)
    <2>1. call[t].op \in ops \cup {"out"}
      BY <1>2 DEF removeConsole, removed, Runs, Idle, ConsoleOps
    <2>2. Leave(t, 0) \/ Enter(t, [op |-> "removeConsole", at |-> "wait", got |-> 0])
      BY <1>2 DEF removeConsole, removed
    <2> QED
      BY <2>1, <2>2, OwnLeave, OwnEnter DEF ConsoleOps
  <1>3. ASSUME NEW t \in Tasks \ {MouseTask}, keyTest(t) \/ keyTake(t) PROVE MovesOnly(ops)
    <2>1. call[t].op = "consoleRead" /\ "consoleRead" \in ops
      BY <1>3, Zenon DEF keyTest, keyTake, Runs, ConsoleOps
    <2>2. \/ \E at : Goto(t, at)
          \/ \E value : Leave(t, value)
          \/ \E cnt : Enter(t, [call[t] EXCEPT !.cnt = cnt, !.at = "test"])
      BY <1>3, Zenon DEF keyTest, keyTake
    <2>3. ASSUME NEW cnt, Enter(t, [call[t] EXCEPT !.cnt = cnt, !.at = "test"]) PROVE MovesOnly(ops)
      <3> DEFINE f == [call[t] EXCEPT !.cnt = cnt, !.at = "test"]
      <3>1. "op" \in DOMAIN f /\ f.op = call[t].op
        BY DEF Ready, CallsOK
      <3>2. Enter(t, f)
        BY <2>3
      <3> HIDE DEF f
      <3> QED
        BY <2>1, <3>1, <3>2, OwnEnter
    <2>4. \A at : Goto(t, at) => MovesOnly(ops)
      BY <2>1, OwnGoto
    <2>5. \A value : Leave(t, value) => MovesOnly(ops)
      BY <2>1, OwnLeave
    <2> QED
      BY <2>2, <2>3, <2>4, <2>5, Zenon
  <1>4. ASSUME NEW k, NEW p, readTaskCheck \/ readTaskStore \/ readTaskKey(k) \/ readTaskFocus(p)
        PROVE  MovesOnly(ops)
    <2>1. call' = call \/ Notify(wokenByKey(focusDev), consoleTab[focusDev], call)
      BY <1>4 DEF readTaskCheck, readTaskStore, readTaskKey, readTaskFocus
    <2> QED
      BY <2>1, NoCall, OwnNotify
  <1> QED
    BY <1>1, <1>2, <1>3, <1>4, ApplicationTasks DEF ConsoleStep

\* ... of the disks, ...
LEMMA DiskOwnMoves ==
    ASSUME Ready, linked' = linked, DiskStep
    PROVE  MovesOnly(DiskOps)
  <1>1. ASSUME NEW t \in Tasks \ {MouseTask}, NEW v, createBIOSDisk(t, v) \/ installBIOSDisk(t)
        PROVE  MovesOnly(DiskOps)
    <2>1. /\ call[t].op = "out"
          /\ \/ Enter(t, [op |-> "diskCreate", drive |-> v, at |-> "get", got |-> 0])
             \/ Enter(t, [op |-> "diskInstall", at |-> "get", got |-> 0])
      BY <1>1 DEF createBIOSDisk, installBIOSDisk, Idle
    <2> QED
      BY <2>1, OwnEnter DEF DiskOps
  <1>2. ASSUME NEW t, NEW v, deleteBIOSDisk(t, v) \/ removeBIOSDisk(t) \/ MediaChanges(v) PROVE MovesOnly(DiskOps)
    BY <1>2, NoCall DEF deleteBIOSDisk, removeBIOSDisk, MediaChanges
  <1>3. ASSUME NEW t \in Tasks \ {MouseTask},
               diskInstalled(t) \/ diskAsked(t) \/ diskAdd(t) \/ getBios(t) \/ diskOpenTimeout(t) \/ diskOpened(t) \/ diskSector(t)
        PROVE  MovesOnly(DiskOps)
    <2>1. call[t].op \in DiskOps
      BY <1>3, Zenon DEF diskInstalled, diskAsked, diskAdd, getBios, diskOpenTimeout, diskOpened, diskSector, putBios, Runs, DiskOps
    <2> DEFINE f == [call[t] EXCEPT !.cnt = call[t].cnt + 1, !.at = "get"]
    <2>2. "op" \in DOMAIN f /\ f.op = call[t].op
      BY DEF Ready, CallsOK
    <2>3. (\E at : Goto(t, at)) \/ (\E value : Leave(t, value)) \/ Enter(t, f)
      BY <1>3, Zenon DEF diskInstalled, diskAsked, diskAdd, getBios, diskOpenTimeout, diskOpened, diskSector
    <2> HIDE DEF f
    <2>4. \A at : Goto(t, at) => MovesOnly(DiskOps)
      BY <2>1, OwnGoto
    <2>5. \A value : Leave(t, value) => MovesOnly(DiskOps)
      BY <2>1, OwnLeave
    <2>6. Enter(t, f) => MovesOnly(DiskOps)
      BY <2>1, <2>2, OwnEnter
    <2> QED
      BY <2>3, <2>4, <2>5, <2>6
  <1> QED
    BY <1>1, <1>2, <1>3, ApplicationTasks DEF DiskStep

\* ... and so of all drivers.
LEMMA DriverMoves ==
    ASSUME Ready, DriverStep
    PROVE  MovesOnly(DriverOps)
  <1>1. linked' = linked /\ DriversStep
    BY DEF DriverStep
  <1>2. /\ SerialOps \cup {"select"} \subseteq DriverOps /\ ConsoleOps \cup {"select"} \subseteq DriverOps
        /\ {"serialRead", "select", "deleteMouse"} \subseteq DriverOps /\ DiskOps \subseteq DriverOps
    BY DEF DriverOps, SerialOps
  <1>3. CASE SerialStep
    BY <1>1, <1>2, <1>3, SerialMoves, MoreMoves
  <1>4. CASE MouseStep
    BY <1>1, <1>2, <1>4, MouseMoves, MoreMoves
  <1>5. CASE ConsoleStep
    BY <1>1, <1>2, <1>5, ConsoleMoves, MoreMoves
  <1>6. CASE DiskStep
    BY <1>1, <1>2, <1>6, DiskOwnMoves, MoreMoves
  <1>7. CASE Client
    BY <1>1, <1>7, ClientMoves
  <1> QED
    BY <1>1, <1>3, <1>4, <1>5, <1>6, <1>7 DEF DriversStep

\* Text, numbers and buffers: calls that end in the step they begin in
LEMMA OutputSteps ==
    ASSUME NEW t, TextOrPrint(t) \/ PoolStep(t)
    PROVE  Idle(t) /\ \E value : Leave(t, value)
  <1>1. CASE PoolStep(t)
    BY <1>1, Zenon DEF PoolStep, createBufPool, deleteBufPool, getBuffer, putBuffer
  <1>2. CASE TextStep(t)
    BY <1>2 DEF TextStep, InitText, RemoveText, OutString, OutStringXY, Scroll, CtrlText
  <1>3. CASE PrintStep(t)
    BY <1>3 DEF PrintStep, printk, sprintf, setPrintk
  <1>4. CASE InitText(t, 0, Lines - 1)
    BY <1>4 DEF InitText
  <1> QED
    BY <1>1, <1>2, <1>3, <1>4 DEF TextOrPrint

\* A call that ends in the step it begins in.
LEMMA OutMoves ==
    ASSUME Ready, linked' = linked, NEW t \in Tasks \ {MouseTask}, Idle(t), NEW value, Leave(t, value), NEW ops
    PROVE  MovesOnly(ops)
  BY OwnLeave DEF Idle

\* Those of drawing, output, colours and buffers are.
LEMMA DrawingMoves == ASSUME Ready, DrawingStep PROVE MovesOnly({})
  <1>1. PICK t \in Tasks \ {MouseTask} : GraphicsStep(t) \/ XDrawingStep(t)
    BY ApplicationTasks DEF DrawingStep
  <1>2. Idle(t) /\ \E value : Leave(t, value)
    BY <1>1 DEF GraphicsStep, InitDriver, RemoveDriver, Draw, XDrawingStep, XDraw
  <1> QED
    BY <1>2, OutMoves DEF DrawingStep

\* Calls to DOS.
LEMMA FatMoves ==
    ASSUME Ready, linked' = linked, NEW t \in Tasks \ {MouseTask}, FatStep(t)
    PROVE  MovesOnly({"fat"})
  <1>1. ASSUME NEW frame, "op" \in DOMAIN frame, frame.op \in {"out", "fat"}, Idle(t), Called(t, frame)
        PROVE  MovesOnly({"fat"})
    <2>1. CallsOK'
      BY <1>1 DEF Ready, CallsOK, Called
    <2>2. ASSUME NEW u \in Tasks
          PROVE  call'[u] = call[u] \/ (call[u].op \in {"out", "fat"} /\ call'[u].op \in {"out", "fat"})
      <3>1. CASE u = t
        BY <1>1, <3>1 DEF Called, Idle
      <3>2. CASE u # t /\ call[u].op = "fat"
        BY <3>2, <1>1 DEF Called, Ready, CallsOK
      <3>3. CASE u # t /\ call[u].op # "fat"
        BY <3>3, <1>1 DEF Called
      <3> QED
        BY <3>1, <3>2, <3>3
    <2>3. call'[MouseTask] = call[MouseTask]
      BY <1>1, BytesAssumption DEF Called, Ready
    <2> QED
      BY <2>1, <2>2, <2>3 DEF MovesOnly, Ready
  <1>2. CASE fatReturn(t) \/ fatSought(t)
    <2>1. call[t].op = "fat" /\ \E value : Leave(t, value)
      BY <1>2 DEF fatReturn, fatSought, Runs
    <2> QED
      BY <2>1, OwnLeave
  <1>3. ASSUME NEW path, NEW access, NEW how, fatOpen(t, path, access, how) PROVE MovesOnly({"fat"})
    BY <1>1, <1>3 DEF fatOpen, Answer
  <1>4. ASSUME NEW h, NEW len, fatClose(t, h) \/ fatIoctl(t, h) \/ fatRead(t, h, len) \/ fatWrite(t, h, len)
        PROVE  MovesOnly({"fat"})
    BY <1>1, <1>4 DEF fatClose, fatIoctl, fatRead, fatWrite, Answer
  <1>5. ASSUME NEW h, NEW offset, NEW from, fatLseek(t, h, offset, from) PROVE MovesOnly({"fat"})
    BY <1>1, <1>5 DEF fatLseek
  <1> QED
    BY <1>2, <1>3, <1>4, <1>5 DEF FatStep

\* A step of the C library or of DOS
LEMMA KernelMoves ==
    ASSUME Ready, KernelStep
    PROVE  \/ MovesOnly({}) /\ UNCHANGED fatVars
           \/ MovesOnly({"fat"}) /\ \E t \in Tasks \ {MouseTask} : FatStep(t)
  <1>1. PICK t \in Tasks \ {MouseTask} : \/ (TextOrPrint(t) \/ PoolStep(t)) /\ UNCHANGED fatVars
                                         \/ FatStep(t)
    BY ApplicationTasks DEF KernelStep
  <1>2. linked' = linked
    BY DEF KernelStep
  <1> QED
    BY <1>1, <1>2, OutputSteps, OutMoves, FatMoves

\* The idle task's hooks.
LEMMA IdleMoves == ASSUME Ready, IdleStep PROVE MovesOnly(HookOps)
  <1>0. linked' = linked
    BY DEF IdleStep
  <1>1. CASE idleGet \/ idleTest \/ idleCall
    BY <1>0, <1>1, NoCall DEF idleGet, idleTest, idleCall
  <1>2. ASSUME NEW t \in Tasks, hookFind(t) \/ hookStore(t) PROVE MovesOnly(HookOps)
    <2>1. call[t].op \in HookOps
      BY <1>2 DEF hookFind, hookStore, Runs, HookOps
    <2> DEFINE f == [call[t] EXCEPT !.at = "store", !.i = CHOOSE i \in Wanted(t) : \A j \in Wanted(t) : i <= j]
    <2>2. "op" \in DOMAIN f /\ f.op = call[t].op
      BY DEF Ready, CallsOK
    <2>3. (\E value : Leave(t, value)) \/ call' = [call EXCEPT ![t] = f]
      BY <1>2 DEF hookFind, hookStore
    <2>4. t # MouseTask
      BY <2>1 DEF Ready, HookOps
    <2> HIDE DEF f
    <2> QED
      BY <1>0, <2>1, <2>2, <2>3, <2>4, OwnLeave, OwnCall
  <1>3. ASSUME NEW t \in Tasks \ {MouseTask}, NEW f, setIdleHook(t, f) \/ clearIdleHook(t, f) PROVE MovesOnly(HookOps)
    <2>1. call[t].op = "out"
      BY <1>3 DEF setIdleHook, clearIdleHook, Idle
    <2>2. \/ \E value : Leave(t, value)
          \/ \E op \in HookOps : Enter(t, [op |-> op, f |-> f, i |-> 0, at |-> "find", got |-> 0])
      BY <1>3 DEF setIdleHook, clearIdleHook, getIdleSem, HookOps
    <2>3. ASSUME NEW op \in HookOps, Enter(t, [op |-> op, f |-> f, i |-> 0, at |-> "find", got |-> 0])
          PROVE  MovesOnly(HookOps)
      BY <1>0, <2>1, <2>3, OwnEnter
    <2> QED
      BY <1>0, <2>1, <2>2, <2>3, OwnLeave
  <1> QED
    BY <1>1, <1>2, <1>3, ApplicationTasks DEF IdleStep, HookStep

\* Those of the X11 library, ...
LEMMA WindowMoves ==
    ASSUME Ready, linked' = linked, NEW t \in Tasks \ {MouseTask}, WindowStep(t)
    PROVE  MovesOnly(XOps)
  <1>1. ASSUME NEW f, Enter(t, f), "op" \in DOMAIN f, f.op \in XOps, call[t].op \in XOps \cup {"out"} PROVE MovesOnly(XOps)
    BY <1>1, OwnEnter
  <1>2. ASSUME NEW value, Leave(t, value), call[t].op \in XOps \cup {"out"} PROVE MovesOnly(XOps)
    BY <1>2, OwnLeave
  <1>3. ASSUME NEW f, Unmap(t, f) \/ Destroy(t, f), "op" \in DOMAIN f, f.op \in XOps, call[t].op \in XOps \cup {"out"}
        PROVE  MovesOnly(XOps)
    <2>1. Leave(t, 0) \/ Enter(t, f) \/ \E np : Enter(t, [f EXCEPT !.np = np])
      BY <1>3 DEF Unmap, Destroy
    <2>2. ASSUME NEW np, Enter(t, [f EXCEPT !.np = np]) PROVE MovesOnly(XOps)
      <3> DEFINE g == [f EXCEPT !.np = np]
      <3>1. "op" \in DOMAIN g /\ g.op = f.op
        BY <1>3
      <3>2. Enter(t, g)
        BY <2>2
      <3> HIDE DEF g
      <3> QED
        BY <1>1, <1>3, <3>1, <3>2
    <2> QED
      BY <1>1, <1>2, <1>3, <2>1, <2>2
  <1>4. CASE walk(t)
    <2>1. call[t].op \in XOps
      BY <1>4 DEF walk, Unmapping, XOps
    <2>2. CASE call' = [call EXCEPT ![t] = Out]
      <3>1. "op" \in DOMAIN Out /\ Out.op = "out"
        BY DEF Out
      <3> QED
        BY <2>1, <2>2, <3>1, OwnCall
    <2>3. ASSUME NEW np, call' = [call EXCEPT ![t].np = np] PROVE MovesOnly(XOps)
      <3> DEFINE f == [call[t] EXCEPT !.np = np]
      <3>1. call' = [call EXCEPT ![t] = f]
        BY <2>3
      <3>2. "op" \in DOMAIN f /\ f.op = call[t].op
        BY DEF Ready, CallsOK
      <3> HIDE DEF f
      <3> QED
        BY <2>1, <3>1, <3>2, OwnCall
    <2> QED
      BY <1>4, <2>2, <2>3 DEF walk
  <1>5. CASE destroyUnhook(t)
    <2>1. call[t].op \in XOps
      BY <1>5 DEF destroyUnhook, Unmapping, XOps
    <2> DEFINE f == [call[t] EXCEPT !.win = call[t].tmp, !.at = "next"]
    <2>2. "op" \in DOMAIN f /\ f.op = call[t].op
      BY DEF Ready, CallsOK
    <2>3. Leave(t, 0) \/ Enter(t, f)
      BY <1>5 DEF destroyUnhook
    <2> HIDE DEF f
    <2> QED
      BY <1>1, <1>2, <2>1, <2>2, <2>3
  <1>6. CASE closeNext(t)
    <2>1. call[t].op \in XOps
      BY <1>6 DEF closeNext, XOps
    <2> DEFINE f == [call[t] EXCEPT !.tmp = windows[call[t].win].next, !.at = "walk"]
    <2>2. "op" \in DOMAIN f /\ f.op = call[t].op
      BY DEF Ready, CallsOK
    <2>3. Leave(t, 0) \/ Destroy(t, f)
      BY <1>6 DEF closeNext
    <2> HIDE DEF f
    <2> QED
      BY <1>2, <1>3, <2>1, <2>2, <2>3
  <1>7. ASSUME NEW w, XUnmapWindow(t, w) \/ XDestroyWindow(t, w) PROVE MovesOnly(XOps)
    <2>1. call[t].op = "out"
      BY <1>7 DEF XUnmapWindow, XDestroyWindow, Idle
    <2>2. Unmap(t, Frame("unmap", w)) \/ Destroy(t, Frame("destroy", w))
      BY <1>7 DEF XUnmapWindow, XDestroyWindow
    <2>3. \A op : "op" \in DOMAIN Frame(op, w) /\ Frame(op, w).op = op
      BY DEF Frame
    <2>4. "unmap" \in XOps /\ "destroy" \in XOps
      BY DEF XOps
    <2> QED
      BY <1>3, <2>1, <2>2, <2>3, <2>4
  <1>8. CASE XCloseDisplay(t)
    <2> DEFINE f == [Frame("close", displays[t].windows) EXCEPT !.at = "next"]
    <2>1. "op" \in DOMAIN f /\ f.op \in XOps
      BY DEF Frame, XOps
    <2>2. Enter(t, f) /\ call[t].op = "out"
      BY <1>8 DEF XCloseDisplay, Idle
    <2> HIDE DEF f
    <2> QED
      BY <1>1, <2>1, <2>2
  <1>9. CASE XNextEvent(t) \/ eventTake(t)
    <2>1. call[t].op \in XOps \cup {"out"}
      BY <1>9 DEF XNextEvent, eventTake, Idle, Runs, XOps
    <2>2. Leave(t, 0) \/ Enter(t, [op |-> "event", at |-> "take", got |-> 0])
      BY <1>9 DEF XNextEvent, eventTake
    <2> QED
      BY <1>1, <1>2, <2>1, <2>2 DEF XOps
  <1>10. ASSUME NEW w, NEW parent, NEW area,
                \/ XOpenDisplay(t) \/ XMapWindow(t, w) \/ XCreateSimpleWindow(t, w, parent, area)
                \/ XSelectInput(t, w, TRUE) \/ XSendEvent(t, w)
         PROVE  MovesOnly(XOps)
    <2>1. Idle(t) /\ \E value : Leave(t, value)
      BY <1>10 DEF XOpenDisplay, XMapWindow, XCreateSimpleWindow, XSelectInput, XSendEvent
    <2> QED
      BY <2>1, OutMoves
  <1> QED
    BY <1>4, <1>5, <1>6, <1>7, <1>8, <1>9, <1>10 DEF WindowStep

\* ... with its colours.
LEMMA X11Moves == ASSUME Ready, X11Step PROVE MovesOnly(XOps)
  <1>1. PICK t \in Tasks \ {MouseTask} : InstallXWindows(t) \/ RemoveXWindows(t) \/ WindowStep(t) \/ ColorStep(t)
    BY ApplicationTasks DEF X11Step
  <1>2. CASE InstallXWindows(t) \/ RemoveXWindows(t) \/ ColorStep(t)
    <2>1. Idle(t) /\ \E value : Leave(t, value)
      BY <1>2 DEF InstallXWindows, RemoveXWindows, ColorStep, XAllocColorCells, XAllocColor, XStoreColor, XStoreColors
    <2> QED
      BY <2>1, OutMoves DEF X11Step
  <1>3. CASE WindowStep(t)
    BY <1>3, WindowMoves DEF X11Step
  <1> QED
    BY <1>1, <1>2, <1>3

-----------------------------------------------------------------------------
(* What a step within one library leaves of the others' calls.             *)

\* The calls of ops go on, and no task in another one falls asleep or wakes
Within(ops) ==
    /\ MovesOnly(ops)
    /\ \A t \in Tasks : call[t].op \notin ops \cup {"out"} => (t \in asleep' <=> t \in asleep)

\* A step that wakes nobody and sends nobody to sleep.
LEMMA QuietWithin == ASSUME NEW ops, MovesOnly(ops), asleep' = asleep PROVE Within(ops)
  BY DEF Within

\* What a task in none of ops is in stays.
LEMMA OthersStay ==
    ASSUME NEW ops, Within(ops), NEW t \in Tasks, call[t].op \notin ops \cup {"out"}
    PROVE  call'[t] = call[t] /\ (t \in asleep' <=> t \in asleep)
  BY DEF Within, MovesOnly

\* No task gets into a call that is none of ops.
LEMMA OthersNew ==
    ASSUME NEW ops, Within(ops), NEW t \in Tasks, call'[t].op \notin ops \cup {"out"}
    PROVE  call'[t] = call[t] /\ (t \in asleep' <=> t \in asleep)
  BY DEF Within, MovesOnly

-----------------------------------------------------------------------------
(* What DOS answers.                                                       *)

\* A number is what its quotient and remainder make up.
LEMMA DivMod ==
    ASSUME NEW n \in Nat \ {0}, NEW a \in Int
    PROVE  a = n * (a \div n) + (a % n) /\ a % n \in 0 .. n - 1 /\ a \div n \in Int
  BY Z3

\* The divisor once more leaves the remainder.
LEMMA ModAdd ==
    ASSUME NEW n \in Nat \ {0}, NEW a \in Int
    PROVE  (a + n) % n = a % n
  <1> DEFINE q == a \div n
             r == a % n
  <1>1. a = n * q + r /\ r \in 0 .. n - 1 /\ q \in Int
    BY DivMod
  <1> HIDE DEF q, r
  <1>2. a + n = n * (q + 1) + r /\ q + 1 \in Int /\ a + n \in Int
    BY <1>1
  <1>3. (a + n) % n = r
    BY <1>1, <1>2, ModUnique
  <1>4. a % n = r
    BY <1>1, ModUnique
  <1> QED
    BY <1>3, <1>4

\* The words CX and DX stand for an offset that fits into a byte and a sign: for it,
\* or for what wraps around to it.
LEMMA CXDXNear ==
    ASSUME NEW offset \in -Byte .. Byte - 1
    PROVE  Long \in Nat \ {0} /\ (CXDX(offset) = offset \/ CXDX(offset) = offset + Long)
  <1>1. Byte \in Nat \ {0} /\ Word \in Nat \ {0} /\ Byte <= Word /\ Word = Byte * Byte
    BY FatAssumption DEF Word
  <1>2. Long \in Nat \ {0} /\ Long = Word * Word
    BY <1>1 DEF Long
  <1>3. CASE offset \in 0 .. Byte - 1
    <2>1. offset = Byte * 0 + offset /\ offset = Word * 0 + offset /\ offset \in 0 .. Word - 1 /\ offset \in Int
      BY <1>1, <1>3
    <2>2. offset \div Byte = 0
      BY <1>1, <1>3, <2>1, ModUnique
    <2>3. offset % Word = offset
      BY <1>1, <2>1, ModUnique
    <2>4. 0 % Word = 0
      BY <1>1
    <2> QED
      BY <1>1, <1>2, <2>1, <2>2, <2>3, <2>4 DEF CXDX
  <1>4. CASE offset \in -Byte .. -1
    <2>1. /\ offset = Byte * (-1) + (offset + Byte) /\ offset + Byte \in 0 .. Byte - 1
          /\ offset = Word * (-1) + (offset + Word) /\ offset + Word \in 0 .. Word - 1
          /\ offset \in Int /\ -1 \in Int /\ -1 = Word * (-1) + (Word - 1) /\ Word - 1 \in 0 .. Word - 1
      BY <1>1, <1>4
    <2>2. offset \div Byte = -1
      BY <1>1, <2>1, ModUnique
    <2>3. offset % Word = offset + Word
      BY <1>1, <2>1, ModUnique
    <2>4. (-1) % Word = Word - 1
      BY <1>1, <2>1, ModUnique
    <2>5. (Word - 1) * Word + (offset + Word) = offset + Word * Word
      BY <1>1, <2>1
    <2> QED
      BY <1>1, <1>2, <2>2, <2>3, <2>4, <2>5 DEF CXDX
  <1>5. offset \in 0 .. Byte - 1 \/ offset \in -Byte .. -1
    BY <1>1
  <1> QED
    BY <1>2, <1>3, <1>4, <1>5

\* What DOS knows of an open file
OpenFiles == [path : Paths, access : {"O_RDONLY", "O_RDWR"}, pos : Int]

\* The files and handles of DOS
FilesTyped == dosFiles \in [Paths -> Int] /\ dosHandles \in [DosHandles -> {NULL} \cup OpenFiles]

\* What holds of the files between all steps
DosInv == Ready /\ FilesTyped /\ DosAnswers

\* A step that is none of DOS.
LEMMA DosAside ==
    ASSUME DosInv, NEW ops, "fat" \notin ops, MovesOnly(ops), UNCHANGED fatVars
    PROVE  DosInv'
  <1>1. \A t \in Tasks : call'[t].op = "fat" => call'[t] = call[t]
    BY DEF MovesOnly
  <1> QED
    BY <1>1 DEF DosInv, MovesOnly, FilesTyped, DosAnswers, fatVars

\* A call that begins is the only one whose registers are those of DOS.
LEMMA DosCalled ==
    ASSUME DosInv, Ready', FilesTyped', NEW t \in Tasks, NEW frame, Called(t, frame),
           \/ frame.op = "out"
           \/ frame.at = "return" /\ regs' = frame.moved
           \/ frame.at = "sought" /\ (frame.near => dosHandles'[frame.h].pos = frame.to % Long)
    PROVE  DosInv'
  <1>1. ASSUME NEW u \in Tasks, call'[u].op = "fat", ~call'[u].since PROVE u = t /\ call'[u] = frame
    <2>1. CASE u # t /\ call[u].op = "fat"
      <3>1. call'[u] = [call[u] EXCEPT !.since = TRUE]
        BY <2>1, <1>1 DEF Called
      <3>2. CASE "since" \in DOMAIN call[u]
        BY <1>1, <3>1, <3>2
      <3>3. CASE "since" \notin DOMAIN call[u]
        BY <1>1, <3>1, <3>3
      <3> QED
        BY <3>2, <3>3
    <2>2. CASE u # t /\ call[u].op # "fat"
      BY <2>2, <1>1 DEF Called
    <2>3. CASE u = t
      BY <2>3 DEF Called
    <2> QED
      BY <2>1, <2>2, <2>3
  <1>2. DosAnswers'
    BY <1>1 DEF DosAnswers
  <1> QED
    BY <1>2 DEF DosInv

\* open() takes a free handle.
LEMMA HandleFree == ASSUME FreeDosHandles # {} PROVE NewDosHandle \in DosHandles
  <1>1. FreeDosHandles \subseteq DosHandles /\ FreeDosHandles \subseteq Nat
    BY FatAssumption DEF FreeDosHandles
  <1>2. \E h \in FreeDosHandles : \A g \in FreeDosHandles : h <= g
    BY <1>1, LeastOf
  <1>3. NewDosHandle \in FreeDosHandles
    BY <1>2 DEF NewDosHandle
  <1> QED
    BY <1>1, <1>3

\* The calls to DOS.
LEMMA DosStep ==
    ASSUME DosInv, Ready', NEW t \in Tasks \ {MouseTask}, FatStep(t)
    PROVE  DosInv'
  <1> USE DEF FilesTyped
  <1>1. CASE fatReturn(t) \/ fatSought(t)
    <2>1. UNCHANGED fatVars /\ \E value : call' = [call EXCEPT ![t] = [op |-> "out", got |-> value]]
      BY <1>1 DEF fatReturn, fatSought, Leave
    <2>2. \A u \in Tasks : call'[u].op = "fat" => call'[u] = call[u]
      BY <2>1 DEF DosInv, Ready, CallsOK
    <2> QED
      BY <2>1, <2>2 DEF DosInv, DosAnswers, fatVars
  <1>2. ASSUME NEW path \in Paths, NEW access \in {"O_RDONLY", "O_RDWR"}, NEW how, fatOpen(t, path, access, how)
        PROVE  DosInv'
    <2>1. FilesTyped'
      <3> DEFINE exists == dosFiles[path] >= 0
                 handle == FileHandle(path, IF exists THEN access ELSE "O_RDWR")
                 cuts == "O_TRUNC" \in how /\ handle.access = "O_RDWR"
      <3>1. handle \in OpenFiles
        BY DEF FileHandle, OpenFiles
      <3>2. \/ UNCHANGED <<dosFiles, dosHandles>>
            \/ /\ FreeDosHandles # {}
               /\ dosHandles' = [dosHandles EXCEPT ![NewDosHandle] = handle]
               /\ dosFiles' = [dosFiles EXCEPT ![path] = IF exists /\ ~cuts THEN @ ELSE 0]
        BY <1>2 DEF fatOpen
      <3> HIDE DEF handle, cuts, exists
      <3> QED
        BY <3>1, <3>2, HandleFree DEF DosInv
    <2>2. \E got : Called(t, Answer(got))
      BY <1>2 DEF fatOpen
    <2>3. PICK got : Called(t, Answer(got))
      BY <2>2
    <2>4. Answer(got).op = "out"
      BY DEF Answer
    <2> QED
      BY <2>1, <2>3, <2>4, DosCalled
  <1>3. ASSUME NEW h \in DosHandles, fatClose(t, h) \/ fatIoctl(t, h) PROVE DosInv'
    <2>1. FilesTyped' /\ Called(t, Answer(0))
      BY <1>3 DEF fatClose, fatIoctl, DosInv
    <2>2. Answer(0).op = "out"
      BY DEF Answer
    <2> QED
      BY <2>1, <2>2, DosCalled
  <1>4. ASSUME NEW h \in DosHandles, NEW len \in Lens, fatRead(t, h, len) \/ fatWrite(t, h, len) PROVE DosInv'
    <2> DEFINE f == dosHandles[h]
               n == IF fatRead(t, h, len) THEN Readable3F(f, len) ELSE Written40(f, len)
    <2>1. f \in OpenFiles /\ len \in Nat /\ DiskFull \in Nat /\ f.pos \in Int /\ dosFiles[f.path] \in Int
      BY <1>4, FatAssumption DEF DosInv, fatRead, fatWrite, OpenFiles
    <2>2. Readable3F(f, len) \in Int /\ Written40(f, len) \in Int /\ SizeAfter40(f, len) \in Int
      BY <2>1 DEF Readable3F, Written40, SizeAfter40
    <2>3. \A k \in Int : [f EXCEPT !.pos = @ + k] \in OpenFiles
      BY <2>1 DEF OpenFiles
    <2>4. CASE fatRead(t, h, len)
      <3> DEFINE k == Readable3F(f, len)
                 frame == [op |-> "fat", at |-> "return", moved |-> k, since |-> FALSE, got |-> 0]
      <3>1. /\ Called(t, frame) /\ regs' = k /\ UNCHANGED dosFiles
            /\ dosHandles' = [dosHandles EXCEPT ![h] = [f EXCEPT !.pos = @ + k]]
        BY <2>4 DEF fatRead
      <3>2. k \in Int /\ frame.at = "return" /\ frame.moved = k
        BY <2>2
      <3> HIDE DEF f, k, frame
      <3>3. FilesTyped'
        BY <2>3, <3>1, <3>2 DEF DosInv
      <3> QED
        BY <3>1, <3>2, <3>3, DosCalled
    <2>5. CASE fatWrite(t, h, len) /\ f.access = "O_RDONLY"
      <3>1. FilesTyped' /\ Called(t, Answer(-1)) /\ Answer(-1).op = "out"
        BY <2>5 DEF fatWrite, DosInv, Answer
      <3> QED
        BY <3>1, DosCalled
    <2>6. CASE fatWrite(t, h, len) /\ f.access # "O_RDONLY"
      <3> DEFINE k == Written40(f, len)
                 frame == [op |-> "fat", at |-> "return", moved |-> k, since |-> FALSE, got |-> 0]
      <3>1. /\ Called(t, frame) /\ regs' = k
            /\ dosFiles' = [dosFiles EXCEPT ![f.path] = SizeAfter40(f, len)]
            /\ dosHandles' = [dosHandles EXCEPT ![h] = [f EXCEPT !.pos = @ + k]]
        BY <2>6 DEF fatWrite
      <3>2. k \in Int /\ frame.at = "return" /\ frame.moved = k
        BY <2>2
      <3> HIDE DEF f, k, frame
      <3>3. FilesTyped'
        BY <2>2, <2>3, <3>1, <3>2 DEF DosInv
      <3> QED
        BY <3>1, <3>2, <3>3, DosCalled
    <2> QED
      BY <1>4, <2>4, <2>5, <2>6
  <1>5. ASSUME NEW h \in DosHandles, NEW offset \in Offsets, NEW from \in {"SEEK_SET", "SEEK_CUR", "SEEK_END"},
               fatLseek(t, h, offset, from)
        PROVE  DosInv'
    <2> DEFINE f == dosHandles[h]
               origin == Origin(f, from)
               pos == (origin + CXDX(offset)) % Long
               frame == [op |-> "fat", at |-> "sought", h |-> h, to |-> origin + offset,
                         near |-> offset \in -Byte .. Byte - 1, since |-> FALSE, got |-> 0]
    <2>1. /\ f # NULL /\ dosHandles' = [dosHandles EXCEPT ![h] = [f EXCEPT !.pos = pos]]
          /\ Called(t, frame) /\ UNCHANGED dosFiles
      BY <1>5 DEF fatLseek
    <2>2. f \in OpenFiles /\ f.pos \in Int /\ dosFiles[f.path] \in Int
      BY <2>1 DEF DosInv, OpenFiles
    <2>3. origin \in Int
      BY <2>2 DEF Origin
    <2>4. Byte \in Nat \ {0} /\ Word \in Nat \ {0} /\ Long \in Nat \ {0} /\ offset \in Int
      BY FatAssumption DEF Word, Long
    <2>5. CXDX(offset) \in Int
      <3>1. offset \div Byte \in Int /\ offset % Word \in Int
        BY <2>4, DivMod
      <3>2. (offset \div Byte) % Word \in Int
        BY <2>4, <3>1, DivMod
      <3> QED
        BY <2>4, <3>1, <3>2 DEF CXDX
    <2>6. pos \in Int
      <3>1. origin + CXDX(offset) \in Int
        BY <2>3, <2>5
      <3> QED
        BY <2>4, <3>1, DivMod
    <2>7. offset \in -Byte .. Byte - 1 => pos = (origin + offset) % Long
      <3>1. CASE offset \in -Byte .. Byte - 1
        <4>1. CXDX(offset) = offset \/ CXDX(offset) = offset + Long
          BY <3>1, CXDXNear
        <4>2. origin + offset \in Int /\ (origin + (offset + Long)) = (origin + offset) + Long
          BY <2>3, <2>4
        <4>3. ((origin + offset) + Long) % Long = (origin + offset) % Long
          BY <2>4, <4>2, ModAdd
        <4> QED
          BY <4>1, <4>2, <4>3
      <3> QED
        BY <3>1
    <2>8. [f EXCEPT !.pos = pos] \in OpenFiles /\ [f EXCEPT !.pos = pos].pos = pos
      BY <2>2, <2>6 DEF OpenFiles
    <2>9. frame.at = "sought" /\ frame.h = h /\ frame.to = origin + offset /\ frame.near = (offset \in -Byte .. Byte - 1)
      OBVIOUS
    <2> HIDE DEF f, origin, pos, frame
    <2>10. FilesTyped' /\ dosHandles'[h].pos = pos
      BY <2>1, <2>8 DEF DosInv
    <2> QED
      BY <2>1, <2>7, <2>9, <2>10, DosCalled
  <1> QED
    BY <1>1, <1>2, <1>3, <1>4, <1>5 DEF FatStep

\* Every step keeps what DOS answers.
LEMMA DosNext == ASSUME DosInv, [Next]_vars PROVE DosInv'
  <1>0. Ready
    BY DEF DosInv
  <1>1. CASE UNCHANGED vars
    <2>1. UNCHANGED <<linked, call, fatVars>>
      BY <1>1 DEF vars, driversVars, libraryVars
    <2>2. MovesOnly({})
      BY <1>0, <2>1, NoCall
    <2> QED
      BY <2>1, <2>2, DosAside
  <1>2. CASE DriverStep
    <2>1. UNCHANGED fatVars /\ "fat" \notin DriverOps
      BY <1>2 DEF DriverStep, libraryVars, DriverOps, SerialOps, ConsoleOps, DiskOps
    <2> QED
      BY <1>0, <1>2, <2>1, DriverMoves, DosAside
  <1>3. CASE X11Step
    <2>1. UNCHANGED fatVars /\ "fat" \notin XOps
      BY <1>3 DEF X11Step, libraryVars, XOps
    <2> QED
      BY <1>0, <1>3, <2>1, X11Moves, DosAside
  <1>4. CASE DrawingStep
    <2>1. UNCHANGED fatVars
      BY <1>4 DEF DrawingStep, libraryVars
    <2> QED
      BY <1>0, <1>4, <2>1, DrawingMoves, DosAside
  <1>5. CASE LoaderStep
    <2>1. UNCHANGED <<linked, call, fatVars>>
      BY <1>5 DEF LoaderStep, driversVars, libraryVars
    <2>2. MovesOnly({})
      BY <1>0, <2>1, NoCall
    <2> QED
      BY <2>1, <2>2, DosAside
  <1>6. CASE KernelStep
    <2>1. CASE MovesOnly({}) /\ UNCHANGED fatVars
      BY <2>1, DosAside
    <2>2. CASE MovesOnly({"fat"}) /\ \E t \in Tasks \ {MouseTask} : FatStep(t)
      BY <2>2, DosStep DEF MovesOnly
    <2> QED
      BY <1>0, <1>6, <2>1, <2>2, KernelMoves
  <1>7. CASE IdleStep
    <2>1. UNCHANGED fatVars /\ "fat" \notin HookOps
      BY <1>7 DEF IdleStep, HookOps
    <2> QED
      BY <1>0, <1>7, <2>1, IdleMoves, DosAside
  <1> QED
    BY <1>1, <1>2, <1>3, <1>4, <1>5, <1>6, <1>7 DEF Next

\* No call is made at first.
LEMMA ReadyInit == ASSUME Init PROVE Ready /\ \A t \in Tasks : call[t] = Out /\ call[t].op = "out"
  <1>1. call = [t \in Tasks |-> Out] /\ Out.op = "out" /\ "op" \in DOMAIN Out /\ linked \in Programs
    BY DEF Init, DriversInit, Out
  <1> QED
    BY <1>1, BytesAssumption DEF Ready, CallsOK

\* read() and write() of the FAT driver return what DOS moved for them, and lseek()
\* leaves the file where it was asked to, unless another task came to DOS
\* in between, or the offset does not fit into a byte and a sign.
THEOREM AnswersHold == Spec => []DosAnswers
  <1>1. Init => DosInv
    <2>1. SUFFICES ASSUME Init PROVE DosInv
      OBVIOUS
    <2>2. Ready /\ \A t \in Tasks : call[t].op = "out"
      BY <2>1, ReadyInit
    <2>3. PICK sizes \in {{-1, 0, 1}, {0}} : FatInit(sizes)
      BY <2>1 DEF Init
    <2>4. FilesTyped
      BY <2>3 DEF FatInit, FilesTyped
    <2> QED
      BY <2>2, <2>4 DEF DosInv, DosAnswers
  <1>2. DosInv /\ [Next]_vars => DosInv'
    BY DosNext
  <1>3. DosInv => DosAnswers
    BY DEF DosInv
  <1> QED
    BY <1>1, <1>2, <1>3, PTL DEF Spec

-----------------------------------------------------------------------------
(* The windows.                                                            *)

\* The blocks that windows are in
Nodes == Windows \cup {Root}

\* The windows of W that exist, and where one of their fields leads
Alive(W) == {v \in Nodes : W[v] # NULL}
Link(W, field) == [v \in Nodes |-> IF W[v] = NULL THEN NULL ELSE W[v][field]]

\* The windows t owns, and the children of p
Owned(W, t) == {v \in Nodes : Link(W, "owner")[v] = t}
Sons(W, p) == {v \in Nodes : Link(W, "parent")[v] = p}

\* The sequences that the links of the windows stand for: the display chain, ...
DisplayChain(W, top, s) ==
    /\ s \in Seq(Nodes) /\ IsList(s, top, Link(W, "down"), Link(W, "up"), NULL)
    /\ LastOf(s, NULL) = Root /\ Elements(s) \subseteq Alive(W)
    /\ \A v \in Nodes \ Elements(s) : Link(W, "down")[v] = NULL /\ Link(W, "up")[v] = NULL

\* ... that of an owner, ...
OwnChain(W, t, first, s) ==
    /\ s \in Seq(Nodes) /\ IsList(s, first, Link(W, "next"), Link(W, "prev"), NULL)
    /\ Elements(s) = Owned(W, t)

\* ... and that of the children of a window
SonChain(W, p, s) ==
    /\ s \in Seq(Nodes) /\ Forward(s, Link(W, "children")[p], Link(W, "siblings"), NULL)
    /\ Elements(s) = Sons(W, p)

\* Each window is one, or free
WTyped(W) == W \in [Nodes -> wininfos \cup {NULL}]

\* Who owns the windows and who is their parent
Related(W, D) ==
    /\ Root \in Alive(W)
    /\ \A field \in {"owner", "parent", "next", "prev", "siblings"} : Link(W, field)[Root] = NULL
    /\ \A v \in Alive(W) \ {Root} :
          /\ Link(W, "owner")[v] \in Tasks /\ D[Link(W, "owner")[v]] # NULL
          /\ Link(W, "parent")[v] \in Alive(W) \ {v}

\* The three structures that the windows are linked into
Structure(W, top, D) ==
    /\ WTyped(W) /\ D \in [Tasks -> Displays \cup {NULL}] /\ Related(W, D)
    /\ \E s : DisplayChain(W, top, s)
    /\ \A t \in Tasks : D[t] # NULL => \E s : OwnChain(W, t, D[t].windows, s)
    /\ \A p \in Alive(W) : \E s : SonChain(W, p, s)

\* The null pointer is no window.
LEMMA NoNode == NULL \notin Nodes /\ NULL \notin wininfos /\ NULL \notin Displays /\ NULL \notin Tasks /\ Root \in Nodes
  BY XAssumption, NoInfo, NoTask DEF Nodes

\* The links of the display chain.
LEMMA ChainLinks ==
    ASSUME NEW W, NEW top, NEW s, DisplayChain(W, top, s)
    PROVE  /\ top \in Elements(s) /\ Elements(s) \subseteq Nodes /\ Root \in Elements(s) /\ Len(s) # 0
           /\ \A v \in Nodes :
                /\ Link(W, "down")[v] \in Elements(s) \cup {NULL} /\ Link(W, "up")[v] \in Elements(s) \cup {NULL}
                /\ Link(W, "down")[v] # v
                /\ Link(W, "down")[v] = NULL <=> v = Root \/ v \notin Elements(s)
                /\ Link(W, "up")[v] = NULL <=> v = top \/ v \notin Elements(s)
                /\ Link(W, "down")[v] # NULL =>
                     Link(W, "up")[Link(W, "down")[v]] = v /\ Link(W, "down")[v] # Link(W, "up")[v]
                /\ Link(W, "up")[v] # NULL => Link(W, "down")[Link(W, "up")[v]] = v
  <1> DEFINE dn == Link(W, "down")
             up == Link(W, "up")
  <1>1. /\ s \in Seq(Nodes) /\ IsList(s, top, dn, up, NULL) /\ LastOf(s, NULL) = Root
        /\ \A v \in Nodes \ Elements(s) : dn[v] = NULL /\ up[v] = NULL
    BY DEF DisplayChain
  <1> HIDE DEF dn, up
  <1>2. NULL \notin Nodes /\ Root \in Nodes
    BY NoNode
  <1>3. Elements(s) \subseteq Nodes /\ Len(s) \in Nat
    BY <1>1, ElementsIn
  <1>4. /\ top \in Elements(s) \cup {NULL} /\ LastOf(s, NULL) \in Elements(s) \cup {NULL}
        /\ \A v \in Elements(s) : dn[v] \in (Elements(s) \ {v}) \cup {NULL} /\ up[v] \in Elements(s) \cup {NULL}
    BY <1>1, Neighbours
  <1>5. Root \in Elements(s) /\ Len(s) # 0
    BY <1>1, <1>2, <1>4 DEF LastOf
  <1>6. top \in Elements(s)
    <2>1. 1 \in 1..Len(s) /\ top = s[1]
      BY <1>1, <1>3, <1>5 DEF IsList, Forward
    <2> QED
      BY <2>1 DEF Elements
  <1>7. \A v \in Elements(s) :
          /\ dn[v] = NULL <=> v = Root
          /\ up[v] = NULL <=> v = top
          /\ dn[v] # NULL => up[dn[v]] = v /\ dn[v] # up[v]
          /\ up[v] # NULL => dn[up[v]] = v
    BY <1>1, <1>2, BothWays
  <1>8. ASSUME NEW v \in Nodes
        PROVE  /\ dn[v] \in Elements(s) \cup {NULL} /\ up[v] \in Elements(s) \cup {NULL} /\ dn[v] # v
               /\ dn[v] = NULL <=> v = Root \/ v \notin Elements(s)
               /\ up[v] = NULL <=> v = top \/ v \notin Elements(s)
               /\ dn[v] # NULL => up[dn[v]] = v /\ dn[v] # up[v]
               /\ up[v] # NULL => dn[up[v]] = v
    <2>1. CASE v \in Elements(s)
      BY <1>2, <1>4, <1>7, <2>1
    <2>2. CASE v \notin Elements(s)
      BY <1>1, <1>2, <1>5, <1>6, <2>2
    <2> QED
      BY <2>1, <2>2
  <1> QED
    BY <1>3, <1>5, <1>6, <1>8 DEF dn, up

\* Taking a window out of the display chain.
LEMMA ChainUnlinked ==
    ASSUME NEW W, NEW top, NEW s, DisplayChain(W, top, s), NEW w \in Elements(s) \ {Root},
           NEW dn, \A v \in Nodes \ {w} : dn[v] = IF v = Link(W, "up")[w] THEN Link(W, "down")[w] ELSE Link(W, "down")[v],
           NEW up, \A v \in Nodes \ {w} : up[v] = IF v = Link(W, "down")[w] THEN Link(W, "up")[w] ELSE Link(W, "up")[v],
           NEW first, first = IF w = top THEN Link(W, "down")[w] ELSE top
    PROVE  \E r \in Seq(Nodes) :
              /\ IsList(r, first, dn, up, NULL)
              /\ LastOf(r, NULL) = Root /\ Elements(r) = Elements(s) \ {w}
  <1> DEFINE dn0 == Link(W, "down")
             up0 == Link(W, "up")
  <1>1. s \in Seq(Nodes) /\ IsList(s, top, dn0, up0, NULL) /\ LastOf(s, NULL) = Root
    BY DEF DisplayChain
  <1>2. w \in Nodes /\ (dn0[w] = NULL <=> w = Root) /\ (up0[w] = NULL <=> w = top)
    BY ChainLinks
  <1>3. /\ \A v \in Nodes \ {w} : dn[v] = IF v = up0[w] THEN dn0[w] ELSE dn0[v]
        /\ \A v \in Nodes \ {w} : up[v] = IF v = dn0[w] THEN up0[w] ELSE up0[v]
    OBVIOUS
  <1>4. NULL \notin Nodes
    BY NoNode
  <1> HIDE DEF dn0, up0
  <1>5. PICK k \in 1..Len(s) : s[k] = w
    BY DEF Elements
  <1>6. /\ IsList(Without(s, k), IF up0[w] # NULL THEN top ELSE dn0[w], dn, up, NULL)
        /\ LastOf(Without(s, k), NULL) = IF dn0[w] # NULL THEN LastOf(s, NULL) ELSE up0[w]
    <2>1. \A v \in Nodes \ {s[k]} : dn[v] = IF v = up0[s[k]] THEN dn0[s[k]] ELSE dn0[v]
      BY <1>3, <1>5
    <2>2. \A v \in Nodes \ {s[k]} : up[v] = IF v = dn0[s[k]] THEN up0[s[k]] ELSE up0[v]
      BY <1>3, <1>5
    <2>3. /\ IsList(Without(s, k), IF up0[s[k]] # NULL THEN top ELSE dn0[s[k]], dn, up, NULL)
          /\ LastOf(Without(s, k), NULL) = IF dn0[s[k]] # NULL THEN LastOf(s, NULL) ELSE up0[s[k]]
      BY <1>1, <1>4, <2>1, <2>2, UnlinkedList
    <2> QED
      BY <1>5, <2>3
  <1>7. Without(s, k) \in Seq(Nodes) /\ Elements(Without(s, k)) = Elements(s) \ {w}
    <2>1. \A i, j \in 1..Len(s) : s[i] = s[j] => i = j
      BY <1>1 DEF IsList, Forward
    <2> QED
      BY <1>1, <1>5, <2>1, WithoutElements
  <1>8. dn0[w] # NULL
    BY <1>2
  <1> QED
    BY <1>1, <1>2, <1>6, <1>7, <1>8 DEF dn0, up0

\* The fields of the windows that do not put them into the display chain
TreeFields == {"owner", "next", "prev", "parent", "children", "siblings"}

\* Another window is put on top of the display chain.
LEMMA ChainRaised ==
    ASSUME NEW W, NEW top, NEW s, DisplayChain(W, top, s), NEW w \in Alive(W) \ {Root, top},
           NEW V, Alive(V) = Alive(W),
           \A v \in Nodes :
             /\ Link(V, "down")[v] = IF v = w THEN top
                                     ELSE IF v = Link(W, "up")[w] THEN Link(W, "down")[w] ELSE Link(W, "down")[v]
             /\ Link(V, "up")[v] = IF v = w THEN NULL ELSE IF v = top THEN w
                                   ELSE IF v = Link(W, "down")[w] THEN Link(W, "up")[w] ELSE Link(W, "up")[v]
    PROVE  \E r : DisplayChain(V, w, r)
  <1> DEFINE dn0 == Link(W, "down")
             up0 == Link(W, "up")
             dn2 == Link(V, "down")
             up2 == Link(V, "up")
             dn1 == [v \in Nodes |-> IF v = up0[w] THEN dn0[w] ELSE dn0[v]]
             up1 == [v \in Nodes |-> IF v = dn0[w] THEN up0[w] ELSE up0[v]]
  <1>1. /\ s \in Seq(Nodes) /\ IsList(s, top, dn0, up0, NULL) /\ LastOf(s, NULL) = Root
        /\ Elements(s) \subseteq Alive(W)
        /\ \A v \in Nodes \ Elements(s) : dn0[v] = NULL /\ up0[v] = NULL
    BY DEF DisplayChain
  <1>2. /\ top \in Elements(s) /\ Elements(s) \subseteq Nodes /\ Len(s) # 0
        /\ \A v \in Nodes : dn0[v] \in Elements(s) \cup {NULL} /\ up0[v] \in Elements(s) \cup {NULL}
    BY ChainLinks
  <1>3. NULL \notin Nodes /\ w \in Nodes /\ w # top
    BY NoNode DEF Alive
  <1>4. PICK r \in Seq(Nodes) :
            /\ IsList(r, top, dn1, up1, NULL) /\ LastOf(r, NULL) = Root /\ Elements(r) = Elements(s) \ {w}
    <2>1. CASE w \in Elements(s)
      <3>1. w \in Elements(s) \ {Root}
        BY <2>1
      <3>2. \A v \in Nodes \ {w} : dn1[v] = IF v = Link(W, "up")[w] THEN Link(W, "down")[w] ELSE Link(W, "down")[v]
        OBVIOUS
      <3>3. \A v \in Nodes \ {w} : up1[v] = IF v = Link(W, "down")[w] THEN Link(W, "up")[w] ELSE Link(W, "up")[v]
        OBVIOUS
      <3>0. DisplayChain(W, top, s)
        OBVIOUS
      <3> HIDE DEF dn1, up1
      <3>4. \E r \in Seq(Nodes) :
              /\ IsList(r, top, dn1, up1, NULL)
              /\ LastOf(r, NULL) = Root /\ Elements(r) = Elements(s) \ {w}
        <4>1. PICK d, u : d = dn1 /\ u = up1
          OBVIOUS
        <4>2. /\ \A v \in Nodes \ {w} : d[v] = IF v = Link(W, "up")[w] THEN Link(W, "down")[w] ELSE Link(W, "down")[v]
              /\ \A v \in Nodes \ {w} : u[v] = IF v = Link(W, "down")[w] THEN Link(W, "up")[w] ELSE Link(W, "up")[v]
          BY <3>2, <3>3, <4>1
        <4>3. top = IF w = top THEN Link(W, "down")[w] ELSE top
          BY <1>3
        <4>4. \E r \in Seq(Nodes) :
              IsList(r, top, d, u, NULL) /\ LastOf(r, NULL) = Root /\ Elements(r) = Elements(s) \ {w}
          BY ONLY <3>0, <3>1, <4>2, <4>3, ChainUnlinked
        <4> QED
          BY ONLY <4>1, <4>4
      <3> QED
        BY <1>3, <3>4
    <2>2. CASE w \notin Elements(s)
      <3>1. dn0[w] = NULL /\ up0[w] = NULL
        BY <1>1, <1>3, <2>2
      <3>2. \A v \in Elements(s) : dn1[v] = dn0[v] /\ up1[v] = up0[v]
        BY <1>2, <1>3, <3>1
      <3> HIDE DEF dn0, up0, dn1, up1
      <3>3. IsList(s, top, dn1, up1, NULL)
        BY <1>1, <3>2, SameList
      <3> QED
        BY <1>1, <2>2, <3>3
    <2> QED
      BY <2>1, <2>2
  <1>5. /\ dn2[w] = top /\ \A v \in Nodes \ {w} : dn2[v] = dn1[v]
        /\ up2[w] = NULL /\ up2[top] = w /\ \A v \in Nodes \ {w, top} : up2[v] = up1[v]
    BY <1>2, <1>3
  <1>6. \A v \in Nodes \ Elements(s) : v # w => dn1[v] = NULL /\ up1[v] = NULL
    BY <1>1, <1>2, <1>3
  <1> HIDE DEF dn0, up0, dn1, up1, dn2, up2
  <1>7. /\ <<w>> \o r \in Seq(Nodes) /\ Elements(<<w>> \o r) = Elements(r) \cup {w}
        /\ IsList(<<w>> \o r, w, dn2, up2, NULL)
    <2>1. r \in Seq(Nodes) /\ w \notin Elements(r) /\ IsList(r, top, dn1, up1, NULL)
      BY <1>4
    <2>2. dn2[w] = top /\ (\A v \in Nodes \ {w} : dn2[v] = dn1[v]) /\ up2[w] = NULL
      BY <1>5
    <2>3. (top # NULL => up2[top] = w) /\ \A v \in Nodes \ {w, top} : up2[v] = up1[v]
      BY <1>5
    <2> QED
      <3>1. PICK d1, u1, d2, u2 : d1 = dn1 /\ u1 = up1 /\ d2 = dn2 /\ u2 = up2
        OBVIOUS
      <3>2. IsList(r, top, d1, u1, NULL) /\ (\A v \in Nodes \ {w} : d2[v] = d1[v]) /\ \A v \in Nodes \ {w, top} : u2[v] = u1[v]
        BY <2>1, <2>2, <2>3, <3>1
      <3>3. d2[w] = top /\ u2[w] = NULL /\ (top # NULL => u2[top] = w)
        BY <2>2, <2>3, <3>1
      <3>4. /\ <<w>> \o r \in Seq(Nodes) /\ Elements(<<w>> \o r) = Elements(r) \cup {w}
            /\ IsList(<<w>> \o r, w, d2, u2, NULL)
        BY ONLY <1>3, <2>1, <3>2, <3>3, PushedList
      <3> QED
        BY <3>1, <3>4
  <1>8. LastOf(<<w>> \o r, NULL) = Root
    <2>1. Len(r) # 0
      BY <1>4, NoNode DEF LastOf
    <2> QED
      BY <1>3, <1>4, <2>1, PushedLast
  <1>9. Elements(<<w>> \o r) = Elements(s) \cup {w}
    BY <1>4, <1>7
  <1>10. \A v \in Nodes \ (Elements(s) \cup {w}) : dn2[v] = NULL /\ up2[v] = NULL
    BY <1>2, <1>5, <1>6
  <1> QED
    BY <1>1, <1>7, <1>8, <1>9, <1>10, ZenonT(60) DEF DisplayChain, dn2, up2

\* A window that has one under it is taken out, and what is not in the chain may be, too.
LEMMA ChainUnmapped ==
    ASSUME NEW W, NEW top, NEW s, DisplayChain(W, top, s), NEW w \in Alive(W) \ {Root},
           NEW V, Alive(V) = Alive(W),
           \A v \in Nodes :
             /\ Link(V, "down")[v] = IF v = w THEN NULL
                                     ELSE IF v = Link(W, "up")[w] THEN Link(W, "down")[w] ELSE Link(W, "down")[v]
             /\ Link(V, "up")[v] = IF v = w THEN NULL
                                   ELSE IF v = Link(W, "down")[w] THEN Link(W, "up")[w] ELSE Link(W, "up")[v],
           NEW first, first = IF w = top THEN Link(W, "down")[w] ELSE top
    PROVE  \E r : DisplayChain(V, first, r)
  <1> DEFINE dn0 == Link(W, "down")
             up0 == Link(W, "up")
             dn2 == Link(V, "down")
             up2 == Link(V, "up")
  <1>1. /\ s \in Seq(Nodes) /\ IsList(s, top, dn0, up0, NULL) /\ LastOf(s, NULL) = Root
        /\ Elements(s) \subseteq Alive(W)
        /\ \A v \in Nodes \ Elements(s) : dn0[v] = NULL /\ up0[v] = NULL
    BY DEF DisplayChain
  <1>2. /\ top \in Elements(s) /\ Elements(s) \subseteq Nodes
        /\ \A v \in Nodes : dn0[v] \in Elements(s) \cup {NULL} /\ up0[v] \in Elements(s) \cup {NULL}
    BY ChainLinks
  <1>3. NULL \notin Nodes /\ w \in Nodes
    BY NoNode DEF Alive
  <1>4. CASE w \in Elements(s)
    <2>1. w \in Elements(s) \ {Root}
      BY <1>4
    <2>2. \A v \in Nodes \ {w} : dn2[v] = IF v = Link(W, "up")[w] THEN Link(W, "down")[w] ELSE Link(W, "down")[v]
      OBVIOUS
    <2>3. \A v \in Nodes \ {w} : up2[v] = IF v = Link(W, "down")[w] THEN Link(W, "up")[w] ELSE Link(W, "up")[v]
      OBVIOUS
    <2>4. \A v \in Nodes \ (Elements(s) \ {w}) : dn2[v] = NULL /\ up2[v] = NULL
      BY <1>1, <1>2, <1>3
    <2>0. first = IF w = top THEN Link(W, "down")[w] ELSE top
      OBVIOUS
    <2>6. DisplayChain(W, top, s)
      OBVIOUS
    <2> HIDE DEF dn2, up2
    <2>5. PICK r \in Seq(Nodes) :
            IsList(r, first, dn2, up2, NULL) /\ LastOf(r, NULL) = Root /\ Elements(r) = Elements(s) \ {w}
      BY ONLY <2>0, <2>1, <2>2, <2>3, <2>6, ChainUnlinked
    <2> QED
      BY <1>1, <2>0, <2>4, <2>5 DEF DisplayChain, dn2, up2
  <1>5. CASE w \notin Elements(s)
    <2>1. dn0[w] = NULL /\ up0[w] = NULL /\ w # top
      BY <1>1, <1>2, <1>3, <1>5
    <2>2. \A v \in Nodes : dn2[v] = dn0[v] /\ up2[v] = up0[v]
      BY <1>3, <2>1
    <2> HIDE DEF dn0, up0, dn2, up2
    <2>3. IsList(s, top, dn2, up2, NULL)
      BY <1>1, <1>2, <2>2, SameList
    <2>4. DisplayChain(V, top, s)
      BY <1>1, <2>2, <2>3 DEF DisplayChain, dn2, up2
    <2> QED
      BY <2>1, <2>4
  <1> QED
    BY <1>4, <1>5

\* A window given another link in the display chain
Down(i, x) == [i EXCEPT !.down = x]
Up(i, x) == [i EXCEPT !.up = x]

\* It is one again, ...
LEMMA LinksTyped == \A i \in wininfos : \A x \in Nodes \cup {NULL} : Down(i, x) \in wininfos /\ Up(i, x) \in wininfos
  BY DEF wininfos, Nodes, Down, Up

\* ... and is what it was otherwise.
LEMMA LinksSet ==
    \A i \in wininfos : \A x :
        /\ Down(i, x)["down"] = x /\ Down(i, x)["up"] = i["up"]
        /\ Up(i, x)["up"] = x /\ Up(i, x)["down"] = i["down"]
        /\ \A field \in TreeFields : Down(i, x)[field] = i[field] /\ Up(i, x)[field] = i[field]
  <1> SUFFICES ASSUME NEW i \in wininfos, NEW x
               PROVE  /\ [i EXCEPT !.down = x]["down"] = x /\ [i EXCEPT !.down = x]["up"] = i["up"]
                      /\ [i EXCEPT !.up = x]["up"] = x /\ [i EXCEPT !.up = x]["down"] = i["down"]
                      /\ \A field \in TreeFields :
                            [i EXCEPT !.down = x][field] = i[field] /\ [i EXCEPT !.up = x][field] = i[field]
    BY DEF Down, Up
  <1>1. i \in [area : Areas \cup {X11rootWin.area}, owner : Tasks \cup {NULL}, mask : BOOLEAN,
               next : Nodes \cup {NULL}, prev : Nodes \cup {NULL}, parent : Nodes \cup {NULL},
               children : Nodes \cup {NULL}, siblings : Nodes \cup {NULL}, up : Nodes \cup {NULL}, down : Nodes \cup {NULL}]
    <2>1. Windows \cup {Root, NULL} = Nodes \cup {NULL}
      BY DEF Nodes
    <2> QED
      BY <2>1 DEF wininfos
  <1> QED
    BY <1>1 DEF TreeFields

\* Windows that differ from others in those links only.
LEMMA LinksDiffer ==
    ASSUME NEW W, WTyped(W), NEW V \in [Nodes -> wininfos \cup {NULL}],
           \A v \in Nodes : V[v] = NULL <=> W[v] = NULL,
           \A v \in Alive(W), field \in TreeFields : V[v][field] = W[v][field]
    PROVE  WTyped(V) /\ Alive(V) = Alive(W) /\ \A field \in TreeFields : Link(V, field) = Link(W, field)
  BY DEF WTyped, Alive, Link

\* A window leaves the display chain.
LEMMA UnlinkedWindows ==
    ASSUME WTyped(windows), NEW s, DisplayChain(windows, topWin, s), NEW w \in Alive(windows), NEW V, V = Unlinked(w)
    PROVE  /\ V \in [Nodes -> wininfos \cup {NULL}]
           /\ \A v \in Nodes : V[v] = NULL <=> windows[v] = NULL
           /\ \A v \in Alive(windows), field \in TreeFields : V[v][field] = windows[v][field]
           /\ \A v \in Alive(windows) :
                /\ V[v]["down"] = IF v = Link(windows, "up")[w] THEN Link(windows, "down")[w] ELSE Link(windows, "down")[v]
                /\ V[v]["up"] = IF v = Link(windows, "down")[w] THEN Link(windows, "up")[w] ELSE Link(windows, "up")[v]
  <1> DEFINE u == windows[w].up
             d == windows[w].down
             dn == Link(windows, "down")
             up == Link(windows, "up")
  <1>1. u = up[w] /\ d = dn[w] /\ \A v \in Alive(windows) : dn[v] = windows[v]["down"] /\ up[v] = windows[v]["up"]
    BY DEF Alive, Link
  <1>2. u \in Nodes \cup {NULL} /\ d \in Nodes \cup {NULL} /\ (u # NULL \/ d # NULL => u # d)
    <2>1. up[w] \in Elements(s) \cup {NULL} /\ dn[w] \in Elements(s) \cup {NULL} /\ (dn[w] # NULL => dn[w] # up[w])
      BY ChainLinks DEF Alive
    <2>2. Elements(s) \subseteq Nodes
      BY ChainLinks
    <2> HIDE DEF dn, up, d, u
    <2> QED
      BY <1>1, <2>1, <2>2
  <1>3. /\ DOMAIN V = Nodes /\ NULL \notin Nodes /\ NULL \notin wininfos
        /\ V = [v \in Nodes |-> IF v \in {u, d} \ {NULL}
                                THEN IF v = u THEN Down(windows[v], d) ELSE Up(windows[v], u)
                                ELSE windows[v]]
    BY NoNode DEF Unlinked, Update, WTyped, Down, Up
  <1>4. \A v \in Nodes : windows[v] \in wininfos \cup {NULL} /\ (windows[v] # NULL <=> v \in Alive(windows))
    BY DEF WTyped, Alive
  <1>5. {u, d} \ {NULL} \subseteq Alive(windows)
    <2>1. up[w] \in Elements(s) \cup {NULL} /\ dn[w] \in Elements(s) \cup {NULL}
      BY ChainLinks DEF Alive
    <2>2. Elements(s) \subseteq Alive(windows)
      BY DEF DisplayChain
    <2> HIDE DEF dn, up, d, u
    <2> QED
      BY <1>1, <2>1, <2>2
  <1> HIDE DEF u, d, dn, up
  <1>6. ASSUME NEW v \in Alive(windows)
        PROVE  /\ V[v] \in wininfos /\ v \in Nodes
               /\ \A field \in TreeFields : V[v][field] = windows[v][field]
               /\ V[v]["down"] = IF v = u THEN d ELSE windows[v]["down"]
               /\ V[v]["up"] = IF v = d THEN u ELSE windows[v]["up"]
    <2>1. windows[v] \in wininfos /\ v \in Nodes /\ v # NULL
      BY <1>3, <1>4 DEF Alive
    <2>2. V[v] = IF v = u THEN Down(windows[v], d) ELSE IF v = d THEN Up(windows[v], u) ELSE windows[v]
      BY <1>3, <2>1
    <2>3. CASE v = u
      <3>1. V[v] = Down(windows[v], d) /\ v # d
        BY <1>2, <1>3, <2>1, <2>2, <2>3
      <3>2. V[v] \in wininfos
        BY <1>2, <2>1, <3>1, LinksTyped
      <3> QED
        BY <2>1, <2>3, <3>1, <3>2, LinksSet
    <2>4. CASE v = d /\ v # u
      <3>1. V[v] = Up(windows[v], u)
        BY <2>2, <2>4
      <3>2. V[v] \in wininfos
        BY <1>2, <2>1, <3>1, LinksTyped
      <3> QED
        BY <2>1, <2>4, <3>1, <3>2, LinksSet
    <2>5. CASE v # u /\ v # d
      BY <2>1, <2>2, <2>5
    <2> QED
      BY <2>3, <2>4, <2>5
  <1>7. \A v \in Nodes \ Alive(windows) : V[v] = NULL
    BY <1>3, <1>4, <1>5
  <1>8. \A v \in Nodes : V[v] \in wininfos \cup {NULL} /\ (V[v] = NULL <=> windows[v] = NULL)
    BY <1>3, <1>4, <1>6, <1>7
  <1>9. V \in [Nodes -> wininfos \cup {NULL}]
    BY <1>3, <1>8
  <1>10. \A v \in Alive(windows) : /\ V[v]["down"] = IF v = up[w] THEN dn[w] ELSE dn[v]
                                 /\ V[v]["up"] = IF v = dn[w] THEN up[w] ELSE up[v]
    BY <1>1, <1>6
  <1> QED
    BY <1>6, <1>8, <1>9, <1>10 DEF dn, up

\* A window that is not there has no links.
LEMMA NoLinks == ASSUME NEW W, NEW v \in Nodes \ Alive(W), NEW field PROVE Link(W, field)[v] = NULL
  BY DEF Alive, Link

\* What is linked leads to what is there.
LEMMA ChainAlive ==
    ASSUME NEW W, NEW top, NEW s, DisplayChain(W, top, s)
    PROVE  /\ top \in Alive(W) /\ Root \in Alive(W)
           /\ \A v \in Nodes : Link(W, "down")[v] \in Alive(W) \cup {NULL} /\ Link(W, "up")[v] \in Alive(W) \cup {NULL}
  <1>1. Elements(s) \subseteq Alive(W)
    BY DEF DisplayChain
  <1> QED
    BY <1>1, ChainLinks

\* XMapWindow() of another window than the one on top
LEMMA RaisedWindows ==
    ASSUME WTyped(windows), NEW s, DisplayChain(windows, topWin, s), NEW w \in Alive(windows) \ {Root, topWin},
           NEW V, V = Raised(w)
    PROVE  /\ WTyped(V) /\ Alive(V) = Alive(windows)
           /\ \A field \in TreeFields : Link(V, field) = Link(windows, field)
           /\ \A v \in Nodes \ {w} : Link(windows, "down")[v] = NULL => Link(V, "down")[v] = NULL
           /\ \E r : DisplayChain(V, w, r)
  <1> DEFINE U == Unlinked(w)
             dn == Link(windows, "down")
             up == Link(windows, "up")
  <1>1. /\ U \in [Nodes -> wininfos \cup {NULL}]
        /\ \A v \in Nodes : U[v] = NULL <=> windows[v] = NULL
        /\ \A v \in Alive(windows), field \in TreeFields : U[v][field] = windows[v][field]
        /\ \A v \in Alive(windows) : /\ U[v]["down"] = IF v = up[w] THEN dn[w] ELSE dn[v]
                                     /\ U[v]["up"] = IF v = dn[w] THEN up[w] ELSE up[v]
    BY UnlinkedWindows
  <1>2. V = [U EXCEPT ![w].down = topWin, ![w].up = NULL, ![topWin].up = w] /\ w # topWin
    BY DEF Raised
  <1>3. /\ topWin \in Alive(windows) /\ w \in Alive(windows) /\ Alive(windows) \subseteq Nodes
        /\ \A v \in Nodes : (v \in Alive(windows) <=> windows[v] # NULL)
        /\ NULL \notin Nodes /\ NULL \notin wininfos
    BY ChainAlive, NoNode DEF Alive
  <1>4. /\ \A v \in Nodes : /\ dn[v] = NULL \/ (up[dn[v]] = v /\ dn[v] \in Nodes)
                            /\ up[v] = NULL \/ (dn[up[v]] = v /\ up[v] \in Nodes)
        /\ up[topWin] = NULL
    <2>1. /\ Elements(s) \subseteq Nodes
          /\ \A v \in Nodes :
                /\ dn[v] \in Elements(s) \cup {NULL} /\ up[v] \in Elements(s) \cup {NULL}
                /\ up[v] = NULL <=> v = topWin \/ v \notin Elements(s)
                /\ dn[v] # NULL => up[dn[v]] = v
                /\ up[v] # NULL => dn[up[v]] = v
      BY ChainLinks
    <2> HIDE DEF dn, up
    <2> QED
      BY <1>3, <2>1
  <1>5. \A v \in Nodes \ Alive(windows) : dn[v] = NULL /\ up[v] = NULL
    BY NoLinks
  <1>6. /\ \A v \in Nodes : Link(V, "down")[v] = IF V[v] = NULL THEN NULL ELSE V[v]["down"]
        /\ \A v \in Nodes : Link(V, "up")[v] = IF V[v] = NULL THEN NULL ELSE V[v]["up"]
    BY DEF Link
  <1> HIDE DEF U, dn, up
  <1>7. U[w] \in wininfos /\ U[topWin] \in wininfos
    BY <1>1, <1>3
  <1>8. /\ V[w] = Up(Down(U[w], topWin), NULL)
        /\ V[topWin] = Up(U[topWin], w)
        /\ \A v \in Nodes \ {w, topWin} : V[v] = U[v]
        /\ DOMAIN V = Nodes /\ V = [v \in Nodes |-> V[v]]
    <2>1. PICK i : i = U[w]
      OBVIOUS
    <2>2. "up" \in DOMAIN i /\ "down" \in DOMAIN i /\ i = [f \in DOMAIN i |-> i[f]]
      BY <1>7, <2>1 DEF wininfos
    <2>3. [[i EXCEPT !.down = topWin] EXCEPT !.up = NULL] = [i EXCEPT !.down = topWin, !.up = NULL]
      OBVIOUS
    <2> QED
      BY <1>1, <1>2, <1>3, <2>1, <2>2, <2>3, ZenonT(60) DEF Up, Down
  <1>9. /\ V[w] \in wininfos /\ V[w]["down"] = topWin /\ V[w]["up"] = NULL
        /\ V[topWin] \in wininfos /\ V[topWin]["down"] = U[topWin]["down"] /\ V[topWin]["up"] = w
        /\ \A field \in TreeFields : V[w][field] = U[w][field] /\ V[topWin][field] = U[topWin][field]
    <2>1. topWin \in Nodes \cup {NULL} /\ w \in Nodes \cup {NULL} /\ NULL \in Nodes \cup {NULL}
      BY <1>3
    <2>2. PICK j : j = Down(U[w], topWin)
      OBVIOUS
    <2>3. j \in wininfos /\ V[w] = Up(j, NULL)
      BY <1>7, <1>8, <2>1, <2>2, LinksTyped
    <2>4. j["down"] = topWin /\ \A field \in TreeFields : j[field] = U[w][field]
      BY <1>7, <2>2, LinksSet
    <2>5. V[w]["down"] = topWin /\ V[w]["up"] = NULL /\ \A field \in TreeFields : V[w][field] = U[w][field]
      BY <2>3, <2>4, LinksSet
    <2>6. V[w] \in wininfos /\ V[topWin] \in wininfos
      BY <1>7, <1>8, <2>1, <2>3, LinksTyped
    <2>7. V[topWin]["down"] = U[topWin]["down"] /\ V[topWin]["up"] = w /\ \A field \in TreeFields : V[topWin][field] = U[topWin][field]
      BY <1>7, <1>8, LinksSet
    <2> QED
      BY <2>5, <2>6, <2>7
  <1>10. \A v \in Nodes : V[v] \in wininfos \cup {NULL} /\ (V[v] = NULL <=> windows[v] = NULL)
    <2> SUFFICES ASSUME NEW v \in Nodes PROVE V[v] \in wininfos \cup {NULL} /\ (V[v] = NULL <=> windows[v] = NULL)
      OBVIOUS
    <2>1. U[v] \in wininfos \cup {NULL} /\ (U[v] = NULL <=> windows[v] = NULL)
      BY <1>1
    <2> QED
      BY <1>3, <1>8, <1>9, <2>1
  <1>11. V \in [Nodes -> wininfos \cup {NULL}]
    BY <1>8, <1>10
  <1>12. /\ \A v \in Alive(windows), field \in TreeFields : V[v][field] = windows[v][field]
         /\ \A v \in Alive(windows) :
              /\ V[v]["down"] = IF v = w THEN topWin ELSE U[v]["down"]
              /\ V[v]["up"] = IF v = w THEN NULL ELSE IF v = topWin THEN w ELSE U[v]["up"]
    <2> SUFFICES ASSUME NEW v \in Alive(windows)
                 PROVE  /\ \A field \in TreeFields : V[v][field] = windows[v][field]
                        /\ V[v]["down"] = IF v = w THEN topWin ELSE U[v]["down"]
                        /\ V[v]["up"] = IF v = w THEN NULL ELSE IF v = topWin THEN w ELSE U[v]["up"]
      OBVIOUS
    <2>1. \A field \in TreeFields : U[v][field] = windows[v][field]
      BY <1>1
    <2>2. v \notin {w, topWin} => V[v] = U[v]
      BY <1>3, <1>8
    <2>3. CASE v = w
      BY <1>9, <2>1, <2>3
    <2>4. CASE v = topWin
      BY <1>2, <1>9, <2>1, <2>4
    <2>5. CASE v \notin {w, topWin}
      BY <2>1, <2>2, <2>5
    <2> QED
      BY <2>3, <2>4, <2>5
  <1>13. WTyped(V) /\ Alive(V) = Alive(windows) /\ \A field \in TreeFields : Link(V, field) = Link(windows, field)
    BY <1>10, <1>11, <1>12, LinksDiffer
  <1>14. \A v \in Nodes :
           /\ Link(V, "down")[v] = IF v = w THEN topWin ELSE IF v = up[w] THEN dn[w] ELSE dn[v]
           /\ Link(V, "up")[v] = IF v = w THEN NULL ELSE IF v = topWin THEN w ELSE IF v = dn[w] THEN up[w] ELSE up[v]
    <2> SUFFICES ASSUME NEW v \in Nodes
                 PROVE  /\ Link(V, "down")[v] = IF v = w THEN topWin ELSE IF v = up[w] THEN dn[w] ELSE dn[v]
                        /\ Link(V, "up")[v] = IF v = w THEN NULL ELSE IF v = topWin THEN w
                                              ELSE IF v = dn[w] THEN up[w] ELSE up[v]
      OBVIOUS
    <2>1. CASE v \in Alive(windows)
      <3>1. Link(V, "down")[v] = V[v]["down"] /\ Link(V, "up")[v] = V[v]["up"]
        BY <1>3, <1>6, <1>10, <2>1
      <3> QED
        BY <1>1, <1>12, <2>1, <3>1
    <2>2. CASE v \notin Alive(windows)
      <3>1. Link(V, "down")[v] = NULL /\ Link(V, "up")[v] = NULL
        BY <1>3, <1>6, <1>10, <2>2
      <3>2. v # w /\ v # topWin /\ v # up[w] /\ v # dn[w]
        BY <1>3, <2>2, ChainAlive DEF up, dn
      <3> QED
        BY <1>5, <2>2, <3>1, <3>2
    <2> QED
      BY <2>1, <2>2
  <1>15. \E r : DisplayChain(V, w, r)
    BY <1>13, <1>14, ChainRaised DEF up, dn
  <1>16. \A v \in Nodes \ {w} : dn[v] = NULL => Link(V, "down")[v] = NULL
    BY <1>3, <1>4, <1>14
  <1> QED
    BY <1>13, <1>15, <1>16 DEF dn

\* The windows after w has left the display chain, and its links are cleared
Unmapped(w) == [Unlinked(w) EXCEPT ![w].up = NULL, ![w].down = NULL]

\* XUnmapWindow()
LEMMA UnmappedWindows ==
    ASSUME WTyped(windows), NEW s, DisplayChain(windows, topWin, s), NEW w \in Alive(windows) \ {Root},
           NEW V, V = Unmapped(w), NEW first, first = IF w = topWin THEN Link(windows, "down")[w] ELSE topWin
    PROVE  /\ WTyped(V) /\ Alive(V) = Alive(windows)
           /\ \A field \in TreeFields : Link(V, field) = Link(windows, field)
           /\ Link(V, "down")[w] = NULL
           /\ \A v \in Nodes : Link(windows, "down")[v] = NULL => Link(V, "down")[v] = NULL
           /\ \E r : DisplayChain(V, first, r)
  <1> DEFINE U == Unlinked(w)
             dn == Link(windows, "down")
             up == Link(windows, "up")
  <1>1. /\ U \in [Nodes -> wininfos \cup {NULL}]
        /\ \A v \in Nodes : U[v] = NULL <=> windows[v] = NULL
        /\ \A v \in Alive(windows), field \in TreeFields : U[v][field] = windows[v][field]
        /\ \A v \in Alive(windows) : /\ U[v]["down"] = IF v = up[w] THEN dn[w] ELSE dn[v]
                                     /\ U[v]["up"] = IF v = dn[w] THEN up[w] ELSE up[v]
    BY UnlinkedWindows
  <1>2. V = [U EXCEPT ![w].up = NULL, ![w].down = NULL]
    BY DEF Unmapped
  <1>3. /\ w \in Alive(windows) /\ Alive(windows) \subseteq Nodes
        /\ \A v \in Nodes : (v \in Alive(windows) <=> windows[v] # NULL)
        /\ NULL \notin Nodes /\ NULL \notin wininfos
    BY NoNode DEF Alive
  <1>4. \A v \in Nodes : /\ dn[v] = NULL \/ (up[dn[v]] = v /\ dn[v] \in Alive(windows))
                         /\ up[v] = NULL \/ (dn[up[v]] = v /\ up[v] \in Alive(windows))
    <2>1. \A v \in Nodes : /\ dn[v] # NULL => up[dn[v]] = v
                           /\ up[v] # NULL => dn[up[v]] = v
      BY ChainLinks
    <2>2. \A v \in Nodes : dn[v] \in Alive(windows) \cup {NULL} /\ up[v] \in Alive(windows) \cup {NULL}
      BY ChainAlive
    <2> HIDE DEF dn, up
    <2> QED
      BY <2>1, <2>2
  <1>5. \A v \in Nodes \ Alive(windows) : dn[v] = NULL /\ up[v] = NULL
    BY NoLinks
  <1>6. /\ \A v \in Nodes : Link(V, "down")[v] = IF V[v] = NULL THEN NULL ELSE V[v]["down"]
        /\ \A v \in Nodes : Link(V, "up")[v] = IF V[v] = NULL THEN NULL ELSE V[v]["up"]
    BY DEF Link
  <1> HIDE DEF U, dn, up
  <1>7. U[w] \in wininfos
    BY <1>1, <1>3
  <1>8. /\ V[w] = Down(Up(U[w], NULL), NULL)
        /\ \A v \in Nodes \ {w} : V[v] = U[v]
        /\ DOMAIN V = Nodes /\ V = [v \in Nodes |-> V[v]]
    <2>1. PICK i : i = U[w]
      OBVIOUS
    <2>2. "up" \in DOMAIN i /\ "down" \in DOMAIN i /\ i = [f \in DOMAIN i |-> i[f]]
      BY <1>7, <2>1 DEF wininfos
    <2>3. [[i EXCEPT !.up = NULL] EXCEPT !.down = NULL] = [i EXCEPT !.up = NULL, !.down = NULL]
      OBVIOUS
    <2> QED
      BY <1>1, <1>2, <1>3, <2>1, <2>2, <2>3 DEF Up, Down
  <1>9. /\ V[w] \in wininfos /\ V[w]["down"] = NULL /\ V[w]["up"] = NULL
        /\ \A field \in TreeFields : V[w][field] = U[w][field]
    <2>1. PICK j : j = Up(U[w], NULL)
      OBVIOUS
    <2>2. j \in wininfos /\ V[w] = Down(j, NULL)
      BY <1>7, <1>8, <2>1, LinksTyped
    <2>3. j["up"] = NULL /\ \A field \in TreeFields : j[field] = U[w][field]
      BY <1>7, <2>1, LinksSet
    <2>4. V[w]["down"] = NULL /\ V[w]["up"] = NULL /\ \A field \in TreeFields : V[w][field] = U[w][field]
      BY <2>2, <2>3, LinksSet
    <2>5. V[w] \in wininfos
      BY <2>2, LinksTyped
    <2> QED
      BY <2>4, <2>5
  <1>10. \A v \in Nodes : V[v] \in wininfos \cup {NULL} /\ (V[v] = NULL <=> windows[v] = NULL)
    <2> SUFFICES ASSUME NEW v \in Nodes PROVE V[v] \in wininfos \cup {NULL} /\ (V[v] = NULL <=> windows[v] = NULL)
      OBVIOUS
    <2>1. U[v] \in wininfos \cup {NULL} /\ (U[v] = NULL <=> windows[v] = NULL)
      BY <1>1
    <2> QED
      BY <1>3, <1>8, <1>9, <2>1
  <1>11. V \in [Nodes -> wininfos \cup {NULL}]
    BY <1>8, <1>10
  <1>12. ASSUME NEW v \in Alive(windows)
         PROVE  /\ \A field \in TreeFields : V[v][field] = windows[v][field]
                /\ V[v]["down"] = IF v = w THEN NULL ELSE U[v]["down"]
                /\ V[v]["up"] = IF v = w THEN NULL ELSE U[v]["up"]
    <2>1. \A field \in TreeFields : U[v][field] = windows[v][field]
      BY <1>1
    <2>2. CASE v = w
      BY <1>9, <2>1, <2>2
    <2>3. CASE v # w
      <3>1. V[v] = U[v]
        BY <1>3, <1>8, <2>3
      <3> QED
        BY <2>1, <2>3, <3>1
    <2> QED
      BY <2>2, <2>3
  <1>13. WTyped(V) /\ Alive(V) = Alive(windows) /\ \A field \in TreeFields : Link(V, field) = Link(windows, field)
    BY <1>10, <1>11, <1>12, LinksDiffer
  <1>14. \A v \in Nodes :
           /\ Link(V, "down")[v] = IF v = w THEN NULL ELSE IF v = up[w] THEN dn[w] ELSE dn[v]
           /\ Link(V, "up")[v] = IF v = w THEN NULL ELSE IF v = dn[w] THEN up[w] ELSE up[v]
    <2> SUFFICES ASSUME NEW v \in Nodes
                 PROVE  /\ Link(V, "down")[v] = IF v = w THEN NULL ELSE IF v = up[w] THEN dn[w] ELSE dn[v]
                        /\ Link(V, "up")[v] = IF v = w THEN NULL ELSE IF v = dn[w] THEN up[w] ELSE up[v]
      OBVIOUS
    <2>1. CASE v \in Alive(windows)
      <3>1. Link(V, "down")[v] = V[v]["down"] /\ Link(V, "up")[v] = V[v]["up"]
        BY <1>3, <1>6, <1>10, <2>1
      <3> QED
        BY <1>1, <1>12, <2>1, <3>1
    <2>2. CASE v \notin Alive(windows)
      <3>1. Link(V, "down")[v] = NULL /\ Link(V, "up")[v] = NULL
        BY <1>3, <1>6, <1>10, <2>2
      <3>2. v # w /\ v # up[w] /\ v # dn[w]
        BY <1>3, <1>4, <2>2
      <3> QED
        BY <1>5, <2>2, <3>1, <3>2
    <2> QED
      BY <2>1, <2>2
  <1>15. \E r : DisplayChain(V, first, r)
    BY <1>13, <1>14, ChainUnmapped DEF up, dn
  <1>16. Link(V, "down")[w] = NULL /\ \A v \in Nodes : dn[v] = NULL => Link(V, "down")[v] = NULL
    BY <1>3, <1>4, <1>14
  <1> QED
    BY <1>13, <1>15, <1>16 DEF dn

\* The structures hold when only the display chain changes, and so does that, ...
LEMMA TreeKept ==
    ASSUME NEW W, NEW top, NEW D, Structure(W, top, D), NEW V, WTyped(V), Alive(V) = Alive(W),
           \A field \in TreeFields : Link(V, field) = Link(W, field),
           NEW first, NEW r, DisplayChain(V, first, r)
    PROVE  Structure(V, first, D)
  <1>1. /\ Link(V, "owner") = Link(W, "owner") /\ Link(V, "next") = Link(W, "next") /\ Link(V, "prev") = Link(W, "prev")
        /\ Link(V, "parent") = Link(W, "parent") /\ Link(V, "children") = Link(W, "children")
        /\ Link(V, "siblings") = Link(W, "siblings")
    BY DEF TreeFields
  <1>2. (\A t : Owned(V, t) = Owned(W, t)) /\ (\A p : Sons(V, p) = Sons(W, p))
    BY <1>1 DEF Owned, Sons
  <1>3. Related(V, D)
    BY <1>1 DEF Structure, Related
  <1>4. \A t \in Tasks : D[t] # NULL => \E s : OwnChain(V, t, D[t].windows, s)
    BY <1>1, <1>2 DEF Structure, OwnChain
  <1>5. \A p \in Alive(V) : \E s : SonChain(V, p, s)
    BY <1>1, <1>2 DEF Structure, SonChain
  <1> QED
    BY <1>3, <1>4, <1>5 DEF Structure

\* ... when windows want other events, ...
LEMMA MaskKept ==
    ASSUME NEW W, NEW top, NEW D, Structure(W, top, D), NEW V, WTyped(V), Alive(V) = Alive(W),
           \A field \in TreeFields \cup {"up", "down"} : Link(V, field) = Link(W, field)
    PROVE  Structure(V, top, D)
  <1>1. PICK s : DisplayChain(W, top, s)
    BY DEF Structure
  <1>2. Link(V, "down") = Link(W, "down") /\ Link(V, "up") = Link(W, "up")
    OBVIOUS
  <1>3. DisplayChain(V, top, s)
    BY <1>1, <1>2 DEF DisplayChain
  <1> QED
    BY <1>3, TreeKept

\* ... and when displays get events.
LEMMA EventsKept ==
    ASSUME NEW W, NEW top, NEW D, Structure(W, top, D), NEW E \in [Tasks -> Displays \cup {NULL}],
           \A t \in Tasks : (E[t] = NULL <=> D[t] = NULL) /\ (D[t] # NULL => E[t].windows = D[t].windows)
    PROVE  Structure(W, top, E)
  <1>1. Related(W, E)
    BY DEF Structure, Related
  <1>2. \A t \in Tasks : E[t] # NULL => \E s : OwnChain(W, t, E[t].windows, s)
    BY DEF Structure
  <1> QED
    BY <1>1, <1>2 DEF Structure

\* XMapWindow()
LEMMA MapKept ==
    ASSUME Structure(windows, topWin, displays), NEW w \in Alive(windows) \ {Root}, NEW V, V = Raised(w)
    PROVE  /\ Structure(V, w, displays) /\ Alive(V) = Alive(windows)
           /\ \A field \in TreeFields : Link(V, field) = Link(windows, field)
           /\ \A v \in Nodes \ {w} : Link(windows, "down")[v] = NULL => Link(V, "down")[v] = NULL
  <1>1. PICK s : DisplayChain(windows, topWin, s)
    BY DEF Structure
  <1>2. WTyped(windows)
    BY DEF Structure
  <1>3. CASE w = topWin
    BY <1>3 DEF Raised
  <1>4. CASE w # topWin
    <2>1. /\ WTyped(V) /\ Alive(V) = Alive(windows)
          /\ \A field \in TreeFields : Link(V, field) = Link(windows, field)
          /\ \A v \in Nodes \ {w} : Link(windows, "down")[v] = NULL => Link(V, "down")[v] = NULL
          /\ \E r : DisplayChain(V, w, r)
      BY <1>1, <1>2, <1>4, RaisedWindows
    <2> QED
      BY <2>1, TreeKept
  <1> QED
    BY <1>3, <1>4

\* XUnmapWindow()
LEMMA UnmapKept ==
    ASSUME Structure(windows, topWin, displays), NEW w \in Alive(windows) \ {Root}, NEW V, V = Unmapped(w),
           NEW first, first = IF w = topWin THEN Link(windows, "down")[w] ELSE topWin
    PROVE  /\ Structure(V, first, displays) /\ Alive(V) = Alive(windows)
           /\ \A field \in TreeFields : Link(V, field) = Link(windows, field)
           /\ Link(V, "down")[w] = NULL
           /\ \A v \in Nodes : Link(windows, "down")[v] = NULL => Link(V, "down")[v] = NULL
  <1>1. PICK s : DisplayChain(windows, topWin, s)
    BY DEF Structure
  <1>2. WTyped(windows)
    BY DEF Structure
  <1>3. /\ WTyped(V) /\ Alive(V) = Alive(windows)
        /\ \A field \in TreeFields : Link(V, field) = Link(windows, field)
        /\ Link(V, "down")[w] = NULL
        /\ \A v \in Nodes : Link(windows, "down")[v] = NULL => Link(V, "down")[v] = NULL
        /\ \E r : DisplayChain(V, first, r)
    BY <1>1, <1>2, UnmappedWindows
  <1> QED
    BY <1>3, TreeKept

\* All links of a window
Fields == TreeFields \cup {"up", "down"}

\* Another first child or predecessor for a window
Child(i, x) == [i EXCEPT !.children = x]
Prev(i, x) == [i EXCEPT !.prev = x]

\* A window with another child or predecessor is a window still, ...
LEMMA HooksTyped == \A i \in wininfos : \A x \in Nodes \cup {NULL} : Child(i, x) \in wininfos /\ Prev(i, x) \in wininfos
  BY DEF wininfos, Nodes, Child, Prev

\* ... and only that link of it is another.
LEMMA HooksSet ==
    \A i \in wininfos : \A x : \A field \in Fields :
        /\ Child(i, x)[field] = IF field = "children" THEN x ELSE i[field]
        /\ Prev(i, x)[field] = IF field = "prev" THEN x ELSE i[field]
  <1> SUFFICES ASSUME NEW i \in wininfos, NEW x, NEW field \in Fields
               PROVE  /\ [i EXCEPT !.children = x][field] = IF field = "children" THEN x ELSE i[field]
                      /\ [i EXCEPT !.prev = x][field] = IF field = "prev" THEN x ELSE i[field]
    BY Zenon DEF Child, Prev
  <1> QED
    BY DEF wininfos, Fields, TreeFields

\* The windows with w created by t inside p.
MadeIn(t, w, p, area) ==
    LET first == displays[t].windows
    IN  [Update({first, p}, LAMBDA v :
            IF v = p /\ v = first THEN [windows[v] EXCEPT !.children = w, !.prev = w]
            ELSE IF v = p THEN [windows[v] EXCEPT !.children = w]
            ELSE [windows[v] EXCEPT !.prev = w])
         EXCEPT ![w] = wininfo(area, t, FALSE, p, windows[p].children, first)]

\* XCreateSimpleWindow(): the links of all windows afterwards.
LEMMA CreatedLinks ==
    ASSUME WTyped(windows), NEW t \in Tasks, NEW w \in Nodes \ Alive(windows), NEW p \in Alive(windows), NEW area \in Areas,
           NEW first, first = displays[t].windows, first \in Alive(windows) \cup {NULL},
           NEW V, V = MadeIn(t, w, p, area)
    PROVE  /\ WTyped(V) /\ Alive(V) = Alive(windows) \cup {w}
           /\ \A v \in Nodes \ {w} : \A field \in Fields :
                Link(V, field)[v] = IF (field = "children" /\ v = p) \/ (field = "prev" /\ v = first) THEN w
                                    ELSE Link(windows, field)[v]
           /\ Link(V, "owner")[w] = t /\ Link(V, "next")[w] = first /\ Link(V, "prev")[w] = NULL
           /\ Link(V, "parent")[w] = p /\ Link(V, "siblings")[w] = Link(windows, "children")[p]
           /\ \A field \in {"children", "up", "down"} : Link(V, field)[w] = NULL
  <1> DEFINE new == wininfo(area, t, FALSE, p, windows[p].children, first)
  <1>1. /\ NULL \notin Nodes /\ NULL \notin wininfos /\ w \in Nodes /\ windows[w] = NULL /\ p \in Nodes /\ p # w /\ w # first
        /\ first \in Nodes \cup {NULL} /\ t \in Tasks
        /\ \A v \in Nodes : windows[v] \in wininfos \cup {NULL} /\ (v \in Alive(windows) <=> windows[v] # NULL)
    BY NoNode DEF Alive, WTyped
  <1>2. /\ windows[p] \in wininfos /\ Link(windows, "children")[p] = windows[p].children
        /\ windows[p].children \in Nodes \cup {NULL}
    <2>1. windows[p] \in wininfos /\ windows[p] # NULL
      BY <1>1
    <2> QED
      BY <1>1, <2>1 DEF Link, wininfos, Nodes
  <1>3. /\ new \in wininfos /\ new["owner"] = t /\ new["next"] = first /\ new["prev"] = NULL
        /\ new["parent"] = p /\ new["siblings"] = windows[p].children
        /\ new["children"] = NULL /\ new["up"] = NULL /\ new["down"] = NULL
    <2>1. PICK c \in Nodes \cup {NULL} : c = windows[p].children
      BY <1>2
    <2>2. wininfo(area, t, FALSE, p, c, first) \in wininfos
      BY <1>1 DEF wininfo, wininfos, Nodes
    <2> QED
      BY <2>1, <2>2 DEF wininfo
  <1> HIDE DEF new
  <1>4. V = [v \in Nodes |-> IF v = w THEN new
                             ELSE IF v \in {first, p} \ {NULL}
                             THEN IF v = p /\ v = first THEN Prev(Child(windows[v], w), w)
                                  ELSE IF v = p THEN Child(windows[v], w) ELSE Prev(windows[v], w)
                             ELSE windows[v]]
    <2>1. \A i \in wininfos : [i EXCEPT !.children = w, !.prev = w] = [[i EXCEPT !.children = w] EXCEPT !.prev = w]
      BY DEF wininfos
    <2>2. DOMAIN windows = Nodes
      BY DEF WTyped
    <2>3. V = [v \in Nodes |-> IF v = w THEN new
                             ELSE IF v \in {first, p} \ {NULL}
                             THEN IF v = p /\ v = first THEN [windows[v] EXCEPT !.children = w, !.prev = w]
                                  ELSE IF v = p THEN [windows[v] EXCEPT !.children = w] ELSE [windows[v] EXCEPT !.prev = w]
                             ELSE windows[v]]
      BY <1>1, <2>2, Zenon DEF MadeIn, Update, new
    <2> QED
      BY <1>2, <2>1, <2>3, Zenon DEF Child, Prev
  <1>5. V[w] = new
    BY <1>1, <1>4
  <1>6. ASSUME NEW v \in Alive(windows)
        PROVE  /\ V[v] \in wininfos /\ v \in Nodes \ {w} /\ windows[v] \in wininfos
               /\ \A field \in Fields : V[v][field] = IF (field = "children" /\ v = p) \/ (field = "prev" /\ v = first) THEN w
                                                      ELSE windows[v][field]
    <2>1. windows[v] \in wininfos /\ v \in Nodes /\ v # NULL /\ v # w
      BY <1>1 DEF Alive
    <2>2. PICK i \in wininfos : i = windows[v]
      BY <2>1
    <2>3. CASE v = p /\ v = first
      <3>1. PICK j : j = Child(i, w)
        OBVIOUS
      <3>2. j \in wininfos
        BY <1>1, <3>1, HooksTyped
      <3>3. V[v] = Prev(j, w)
        BY <1>4, <2>1, <2>2, <2>3, <3>1
      <3>4. V[v] \in wininfos
        BY <1>1, <3>2, <3>3, HooksTyped
      <3>5. \A field \in Fields : V[v][field] = IF field = "prev" THEN w ELSE IF field = "children" THEN w ELSE i[field]
        BY <3>1, <3>2, <3>3, HooksSet
      <3> QED
        BY <2>1, <2>2, <2>3, <3>4, <3>5
    <2>4. CASE v = p /\ v # first
      <3>1. V[v] = Child(i, w)
        BY <1>4, <2>1, <2>2, <2>4
      <3>2. V[v] \in wininfos
        BY <1>1, <3>1, HooksTyped
      <3>3. \A field \in Fields : V[v][field] = IF field = "children" THEN w ELSE i[field]
        BY <3>1, HooksSet
      <3> QED
        BY <2>1, <2>2, <2>4, <3>2, <3>3
    <2>5. CASE v # p /\ v = first
      <3>1. V[v] = Prev(i, w)
        BY <1>4, <2>1, <2>2, <2>5
      <3>2. V[v] \in wininfos
        BY <1>1, <3>1, HooksTyped
      <3>3. \A field \in Fields : V[v][field] = IF field = "prev" THEN w ELSE i[field]
        BY <3>1, HooksSet
      <3> QED
        BY <2>1, <2>2, <2>5, <3>2, <3>3
    <2>6. CASE v # p /\ v # first
      <3>1. V[v] = i
        BY <1>4, <2>1, <2>2, <2>6
      <3> QED
        BY <2>1, <2>2, <2>6, <3>1
    <2> QED
      BY <2>3, <2>4, <2>5, <2>6
  <1>7. \A v \in Nodes \ (Alive(windows) \cup {w}) : V[v] = NULL /\ v # p /\ v # first
    BY <1>1, <1>4
  <1>8. \A v \in Nodes : V[v] \in wininfos \cup {NULL} /\ (V[v] # NULL <=> v \in Alive(windows) \cup {w})
    BY <1>1, <1>3, <1>5, <1>6, <1>7
  <1>9. WTyped(V) /\ Alive(V) = Alive(windows) \cup {w}
    <2>1. V \in [Nodes -> wininfos \cup {NULL}]
      BY <1>4, <1>8
    <2>2. Alive(windows) \cup {w} \subseteq Nodes
      BY <1>1 DEF Alive
    <2> QED
      BY <1>8, <2>1, <2>2 DEF WTyped, Alive
  <1>10. ASSUME NEW v \in Nodes \ {w}, NEW field \in Fields
         PROVE  Link(V, field)[v] = IF (field = "children" /\ v = p) \/ (field = "prev" /\ v = first) THEN w
                                    ELSE Link(windows, field)[v]
    <2>1. CASE v \in Alive(windows)
      <3>1. Link(V, field)[v] = V[v][field] /\ Link(windows, field)[v] = windows[v][field]
        BY <1>1, <1>8, <2>1 DEF Link
      <3> QED
        BY <1>6, <2>1, <3>1
    <2>2. CASE v \notin Alive(windows)
      <3>1. Link(V, field)[v] = NULL /\ Link(windows, field)[v] = NULL
        BY <1>1, <1>8, <2>2 DEF Link
      <3> QED
        BY <1>7, <2>2, <3>1
    <2> QED
      BY <2>1, <2>2
  <1>11. \A field : Link(V, field)[w] = new[field]
    BY <1>1, <1>3, <1>5 DEF Link
  <1> QED
    BY <1>2, <1>3, <1>9, <1>10, <1>11

-----------------------------------------------------------------------------
(* The windows: creating one.                                              *)

\* What the three structures say of single links.
LEMMA TreeLinks ==
    ASSUME NEW W, NEW top, NEW D, Structure(W, top, D)
    PROVE  /\ Root \in Alive(W) /\ Alive(W) \subseteq Nodes
           /\ \A v \in Nodes : v \notin Alive(W) => \A field : Link(W, field)[v] = NULL
           /\ \A v \in Nodes : /\ Link(W, "owner")[v] \in Tasks \cup {NULL}
                               /\ Link(W, "owner")[v] # NULL => D[Link(W, "owner")[v]] # NULL
                               /\ Link(W, "owner")[v] = NULL <=> v = Root \/ v \notin Alive(W)
                               /\ Link(W, "parent")[v] \in Alive(W) \cup {NULL}
                               /\ Link(W, "parent")[v] # v
                               /\ Link(W, "parent")[v] = NULL <=> v = Root \/ v \notin Alive(W)
           /\ \A v \in Nodes : \A field \in {"parent", "next", "prev", "siblings"} :
                                  v \in {Root} \cup (Nodes \ Alive(W)) => Link(W, field)[v] = NULL
  <1>1. Related(W, D) /\ NULL \notin Tasks /\ NULL \notin Nodes /\ Root \in Nodes
    BY NoNode DEF Structure
  <1>2. Alive(W) \subseteq Nodes
    BY DEF Alive
  <1>3. \A v \in Nodes : v \notin Alive(W) => \A field : Link(W, field)[v] = NULL
    BY NoLinks
  <1> QED
    BY <1>1, <1>2, <1>3 DEF Related

\* The windows of an owner.
LEMMA OwnLinks ==
    ASSUME NEW W, NEW top, NEW D, Structure(W, top, D), NEW t \in Tasks, NEW first, NEW s, OwnChain(W, t, first, s)
    PROVE  /\ s \in Seq(Nodes) /\ IsList(s, first, Link(W, "next"), Link(W, "prev"), NULL)
           /\ Elements(s) = Owned(W, t) /\ Elements(s) \subseteq Alive(W) \ {Root}
           /\ first \in Owned(W, t) \cup {NULL}
           /\ \A v \in Owned(W, t) : Link(W, "next")[v] \in Owned(W, t) \cup {NULL}
                                  /\ Link(W, "prev")[v] \in Owned(W, t) \cup {NULL}
                                  /\ (Link(W, "prev")[v] = NULL <=> v = first)
                                  /\ (Link(W, "next")[v] # NULL => Link(W, "prev")[Link(W, "next")[v]] = v)
                                  /\ (Link(W, "prev")[v] # NULL => Link(W, "next")[Link(W, "prev")[v]] = v)
  <1>1. /\ s \in Seq(Nodes) /\ IsList(s, first, Link(W, "next"), Link(W, "prev"), NULL)
        /\ Elements(s) = Owned(W, t)
    BY DEF OwnChain
  <1>2. NULL \notin Tasks /\ NULL \notin Nodes
    BY NoNode
  <1>3. Owned(W, t) \subseteq Alive(W) \ {Root}
    BY <1>2, TreeLinks DEF Owned
  <1> DEFINE nx == Link(W, "next")
             pv == Link(W, "prev")
  <1> HIDE DEF nx, pv
  <1>4. IsList(s, first, nx, pv, NULL)
    BY <1>1 DEF nx, pv
  <1>5. /\ first \in Elements(s) \cup {NULL}
        /\ \A v \in Elements(s) : nx[v] \in (Elements(s) \ {v}) \cup {NULL} /\ pv[v] \in Elements(s) \cup {NULL}
    BY <1>1, <1>4, Neighbours
  <1>6. \A v \in Elements(s) : /\ pv[v] = NULL <=> v = first
                               /\ nx[v] # NULL => pv[nx[v]] = v
                               /\ pv[v] # NULL => nx[pv[v]] = v
    BY <1>1, <1>2, <1>4, BothWays
  <1> QED
    BY <1>1, <1>3, <1>5, <1>6 DEF nx, pv

\* XCreateSimpleWindow()
LEMMA CreatedKept ==
    ASSUME Structure(windows, topWin, displays), NEW t \in Tasks, displays[t] # NULL,
           NEW w \in Windows \ Alive(windows), NEW p \in Alive(windows), NEW area \in Areas,
           NEW V, V = MadeIn(t, w, p, area),
           NEW E \in [Tasks -> Displays \cup {NULL}], E[t] # NULL, E[t].windows = w, \A u \in Tasks \ {t} : E[u] = displays[u]
    PROVE  /\ Structure(V, topWin, E) /\ Alive(V) = Alive(windows) \cup {w}
           /\ \A v \in Nodes \ {w} : \A field \in {"owner", "next", "up", "down"} : Link(V, field)[v] = Link(windows, field)[v]
  <1>1. PICK first : first = displays[t].windows
    OBVIOUS
  <1>2. NULL \notin Nodes /\ NULL \notin Tasks /\ Root \in Nodes /\ w \in Nodes
    BY NoNode DEF Nodes
  <1>3. PICK s : OwnChain(windows, t, first, s)
    BY <1>1 DEF Structure
  <1>4. /\ s \in Seq(Nodes) /\ IsList(s, first, Link(windows, "next"), Link(windows, "prev"), NULL)
        /\ Elements(s) = Owned(windows, t) /\ Elements(s) \subseteq Alive(windows) \ {Root}
        /\ first \in Owned(windows, t) \cup {NULL}
    BY <1>3, OwnLinks
  <1>5. /\ WTyped(V) /\ Alive(V) = Alive(windows) \cup {w}
        /\ \A v \in Nodes \ {w} : \A field \in Fields :
             Link(V, field)[v] = IF (field = "children" /\ v = p) \/ (field = "prev" /\ v = first) THEN w
                                 ELSE Link(windows, field)[v]
        /\ Link(V, "owner")[w] = t /\ Link(V, "next")[w] = first /\ Link(V, "prev")[w] = NULL
        /\ Link(V, "parent")[w] = p /\ Link(V, "siblings")[w] = Link(windows, "children")[p]
        /\ \A field \in {"children", "up", "down"} : Link(V, field)[w] = NULL
    <2>1. WTyped(windows) /\ first \in Alive(windows) \cup {NULL} /\ w \in Nodes \ Alive(windows)
      BY <1>2, <1>4 DEF Structure
    <2> QED
      BY <1>1, <2>1, CreatedLinks
  <1>6. /\ \A v \in Nodes \ {w} :
             /\ Link(V, "owner")[v] = Link(windows, "owner")[v] /\ Link(V, "parent")[v] = Link(windows, "parent")[v]
             /\ Link(V, "next")[v] = Link(windows, "next")[v] /\ Link(V, "siblings")[v] = Link(windows, "siblings")[v]
             /\ Link(V, "up")[v] = Link(windows, "up")[v] /\ Link(V, "down")[v] = Link(windows, "down")[v]
             /\ Link(V, "children")[v] = IF v = p THEN w ELSE Link(windows, "children")[v]
             /\ Link(V, "prev")[v] = IF v = first THEN w ELSE Link(windows, "prev")[v]
        /\ p \in Nodes \ {w} /\ w \notin Alive(windows) /\ w # Root
    BY <1>2, <1>5, TreeLinks DEF Fields, TreeFields
  <1>7. DisplayChain(V, topWin, CHOOSE r : DisplayChain(windows, topWin, r))
    <2>1. PICK r : r = CHOOSE x : DisplayChain(windows, topWin, x)
      OBVIOUS
    <2>2. DisplayChain(windows, topWin, r)
      BY <2>1 DEF Structure
    <2>3. \A field \in {"up", "down"} : \A v \in Nodes : Link(V, field)[v] = Link(windows, field)[v]
      BY <1>2, <1>5, <1>6, TreeLinks
    <2>4. Link(V, "down") = Link(windows, "down") /\ Link(V, "up") = Link(windows, "up")
      BY <2>3 DEF Link
    <2> QED
      BY <1>5, <2>1, <2>2, <2>4 DEF DisplayChain
  <1>8. Related(V, E)
    <2>1. Root \in Alive(V) /\ Root # w /\ Root # first /\ Root # NULL
      BY <1>2, <1>4, <1>5, <1>6, TreeLinks
    <2>2. \A field \in {"owner", "parent", "next", "prev", "siblings"} : Link(V, field)[Root] = NULL
      BY <1>2, <1>6, <2>1 DEF Structure, Related
    <2>3. ASSUME NEW v \in Alive(V) \ {Root}
          PROVE  /\ Link(V, "owner")[v] \in Tasks /\ E[Link(V, "owner")[v]] # NULL
                 /\ Link(V, "parent")[v] \in Alive(V) \ {v}
      <3>1. CASE v = w
        BY <1>5, <1>6, <3>1
      <3>2. CASE v # w
        <4>1. v \in Alive(windows) \ {Root} /\ v \in Nodes \ {w}
          BY <1>5, <3>2 DEF Alive
        <4>2. /\ Link(windows, "owner")[v] \in Tasks /\ displays[Link(windows, "owner")[v]] # NULL
              /\ Link(windows, "parent")[v] \in Alive(windows) \ {v}
          BY <4>1 DEF Structure, Related
        <4> QED
          BY <1>5, <1>6, <4>1, <4>2
      <3> QED
        BY <3>1, <3>2
    <2> QED
      BY <2>1, <2>2, <2>3 DEF Related
  <1>9. ASSUME NEW u \in Tasks, E[u] # NULL PROVE \E r : OwnChain(V, u, E[u].windows, r)
    <2>1. Owned(V, u) = IF u = t THEN Owned(windows, u) \cup {w} ELSE Owned(windows, u)
      <3>1. Link(windows, "owner")[w] = NULL
        BY <1>2, <1>6, TreeLinks
      <3> QED
        BY <1>2, <1>5, <1>6, <3>1 DEF Owned
    <2>2. CASE u = t
      <3>1. w \notin Elements(s) /\ w # first
        BY <1>2, <1>4, <1>6
      <3>2. /\ Link(V, "next")[w] = first /\ \A v \in Nodes \ {w} : Link(V, "next")[v] = Link(windows, "next")[v]
            /\ Link(V, "prev")[w] = NULL /\ (first # NULL => Link(V, "prev")[first] = w)
            /\ \A v \in Nodes \ {w, first} : Link(V, "prev")[v] = Link(windows, "prev")[v]
        <4>1. first # NULL => first \in Nodes \ {w}
          BY <1>4, <3>1 DEF Owned
        <4> QED
          BY <1>5, <1>6, <4>1
      <3>3. /\ <<w>> \o s \in Seq(Nodes) /\ Elements(<<w>> \o s) = Elements(s) \cup {w}
            /\ IsList(<<w>> \o s, w, Link(V, "next"), Link(V, "prev"), NULL)
        BY ONLY <1>2, <1>4, <3>1, <3>2, PushedList
      <3> QED
        BY <1>4, <2>1, <2>2, <3>3 DEF OwnChain
    <2>3. CASE u # t
      <3>1. E[u] = displays[u]
        BY <2>3
      <3>2. PICK r : OwnChain(windows, u, E[u].windows, r)
        BY <1>9, <3>1 DEF Structure
      <3>3. /\ r \in Seq(Nodes) /\ IsList(r, E[u].windows, Link(windows, "next"), Link(windows, "prev"), NULL)
            /\ Elements(r) = Owned(windows, u) /\ Elements(r) \subseteq Alive(windows)
        BY <3>2, OwnLinks
      <3>4. \A v \in Elements(r) : v \in Nodes \ {w} /\ v # first
        BY <1>2, <1>4, <1>6, <2>3, <3>3 DEF Owned
      <3>5. \A v \in Elements(r) : Link(V, "next")[v] = Link(windows, "next")[v] /\ Link(V, "prev")[v] = Link(windows, "prev")[v]
        BY <1>6, <3>4
      <3>6. IsList(r, E[u].windows, Link(V, "next"), Link(V, "prev"), NULL)
        BY ONLY <3>3, <3>5, SameList
      <3> QED
        BY <2>1, <2>3, <3>3, <3>6 DEF OwnChain
    <2> QED
      BY <2>2, <2>3
  <1>10. ASSUME NEW q \in Alive(V) PROVE \E r : SonChain(V, q, r)
    <2>1. Sons(V, q) = IF q = w THEN {} ELSE IF q = p THEN Sons(windows, p) \cup {w} ELSE Sons(windows, q)
      <3>1. Link(windows, "parent")[w] = NULL /\ \A v \in Nodes : Link(windows, "parent")[v] \in Alive(windows) \cup {NULL}
        BY <1>2, <1>6, TreeLinks
      <3>2. q \in Nodes
        BY DEF Alive
      <3> QED
        BY <1>2, <1>5, <1>6, <3>1, <3>2 DEF Sons
    <2>2. CASE q = w
      <3>1. PICK r : r = <<>>
        OBVIOUS
      <3>2. r \in Seq(Nodes) /\ Elements(r) = {} /\ Forward(r, NULL, Link(V, "siblings"), NULL)
        BY <3>1 DEF Elements, Forward
      <3>3. Link(V, "children")[q] = NULL /\ Sons(V, q) = {}
        BY <1>5, <2>1, <2>2
      <3>4. Forward(r, Link(V, "children")[q], Link(V, "siblings"), NULL)
        BY <3>2, <3>3
      <3> QED
        BY <3>2, <3>3, <3>4 DEF SonChain
    <2>3. CASE q # w
      <3>1. q \in Alive(windows)
        BY <1>5, <2>3
      <3>2. PICK r : SonChain(windows, q, r)
        BY <3>1 DEF Structure
      <3>3. /\ r \in Seq(Nodes) /\ Forward(r, Link(windows, "children")[q], Link(windows, "siblings"), NULL)
            /\ Elements(r) = Sons(windows, q)
        BY <3>2 DEF SonChain
      <3>4. w \notin Elements(r) /\ \A v \in Elements(r) : v \in Nodes
        BY <1>2, <1>6, <3>1, <3>3, TreeLinks DEF Sons
      <3>5. CASE q = p
        <4>1. PICK h, nx, nx2 : /\ h = Link(windows, "children")[p] /\ nx = Link(windows, "siblings")
                                   /\ nx2 = Link(V, "siblings")
          OBVIOUS
        <4>2. Forward(r, h, nx, NULL) /\ nx2[w] = h /\ \A v \in Nodes \ {w} : nx2[v] = nx[v]
          BY <1>5, <1>6, <3>3, <3>5, <4>1
        <4>3. /\ <<w>> \o r \in Seq(Nodes) /\ Elements(<<w>> \o r) = Elements(r) \cup {w}
              /\ Forward(<<w>> \o r, w, nx2, NULL)
          BY ONLY <1>2, <3>3, <3>4, <4>2, PushedForward
        <4>4. Link(V, "children")[q] = w
          BY <1>6, <3>5
        <4> QED
          BY <2>1, <2>3, <3>3, <3>5, <4>1, <4>3, <4>4 DEF SonChain
      <3>6. CASE q # p
        <4>1. \A v \in Elements(r) : Link(V, "siblings")[v] = Link(windows, "siblings")[v]
          BY <1>6, <3>4
        <4>2. Forward(r, Link(windows, "children")[q], Link(V, "siblings"), NULL)
          BY ONLY <3>3, <4>1, SameForward
        <4>3. Link(V, "children")[q] = Link(windows, "children")[q]
          BY <1>6, <2>3, <3>6 DEF Alive
        <4> QED
          BY <2>1, <2>3, <3>3, <3>6, <4>2, <4>3 DEF SonChain
      <3> QED
        BY <3>5, <3>6
    <2> QED
      BY <2>2, <2>3
  <1>11. \A v \in Nodes \ {w} : \A field \in {"owner", "next", "up", "down"} : Link(V, field)[v] = Link(windows, field)[v]
    BY <1>6
  <1>12. Structure(V, topWin, E)
    BY <1>5, <1>7, <1>8, <1>9, <1>10 DEF Structure
  <1> QED
    BY <1>5, <1>11, <1>12

-----------------------------------------------------------------------------
(* The windows: taking one out of its lists.                               *)

\* A window with other neighbours.
Hooked(i, nx, pv, p, c, s) == [i EXCEPT !.next = nx, !.prev = pv, !.parent = p, !.children = c, !.siblings = s]

\* It is a window, ...
LEMMA HookedTyped ==
    ASSUME NEW i \in wininfos, NEW nx \in Nodes \cup {NULL}, NEW pv \in Nodes \cup {NULL}, NEW p \in Nodes \cup {NULL},
           NEW c \in Nodes \cup {NULL}, NEW s \in Nodes \cup {NULL}
    PROVE  Hooked(i, nx, pv, p, c, s) \in wininfos
  <1>1. \A j \in wininfos : \A x \in Nodes \cup {NULL} :
          /\ [j EXCEPT !.next = x] \in wininfos /\ [j EXCEPT !.prev = x] \in wininfos /\ [j EXCEPT !.parent = x] \in wininfos
          /\ [j EXCEPT !.children = x] \in wininfos /\ [j EXCEPT !.siblings = x] \in wininfos
    BY DEF wininfos, Nodes
  <1>2. PICK j1 \in wininfos : j1 = [i EXCEPT !.next = nx]
    BY <1>1
  <1>3. PICK j2 \in wininfos : j2 = [j1 EXCEPT !.prev = pv]
    BY <1>1
  <1>4. PICK j3 \in wininfos : j3 = [j2 EXCEPT !.parent = p]
    BY <1>1
  <1>5. PICK j4 \in wininfos : j4 = [j3 EXCEPT !.children = c]
    BY <1>1
  <1>6. PICK j5 \in wininfos : j5 = [j4 EXCEPT !.siblings = s]
    BY <1>1
  <1>7. Hooked(i, nx, pv, p, c, s) = j5
    BY <1>2, <1>3, <1>4, <1>5, <1>6 DEF Hooked
  <1> QED
    BY <1>7

\* ... and has the five links it was given.
LEMMA HookedSet ==
    ASSUME NEW i \in wininfos, NEW nx, NEW pv, NEW p, NEW c, NEW s, NEW j, j = Hooked(i, nx, pv, p, c, s)
    PROVE  /\ j["next"] = nx /\ j["prev"] = pv /\ j["parent"] = p /\ j["children"] = c /\ j["siblings"] = s
           /\ j["owner"] = i["owner"] /\ j["up"] = i["up"] /\ j["down"] = i["down"]
  BY DEF wininfos, Hooked

\* XIDestroyWindow() of w: the links of all windows afterwards, where `first' is the
\* child that the root window had in front, w aside.
LEMMA UnhookedLinks ==
    ASSUME WTyped(windows), NEW w \in Alive(windows), Root \in Alive(windows), NEW V, V = Unhooked(w),
           NEW first, first = IF Link(windows, "parent")[w] = Root /\ Link(windows, "children")[Root] = w
                              THEN Link(windows, "siblings")[w] ELSE Link(windows, "children")[Root]
    PROVE  /\ WTyped(V) /\ Alive(V) = Alive(windows) \ {w}
           /\ \A field : Link(V, field)[w] = NULL
           /\ \A v \in Alive(windows) \ {w} :
                /\ \A field \in {"owner", "up", "down"} : Link(V, field)[v] = Link(windows, field)[v]
                /\ Link(V, "next")[v] = IF v = Link(windows, "prev")[w] THEN Link(windows, "next")[w]
                                        ELSE Link(windows, "next")[v]
                /\ Link(V, "prev")[v] = IF v = Link(windows, "next")[w] THEN Link(windows, "prev")[w]
                                        ELSE Link(windows, "prev")[v]
                /\ Link(V, "parent")[v] = IF Link(windows, "parent")[v] = w THEN Root ELSE Link(windows, "parent")[v]
                /\ Link(V, "children")[v] =
                      IF v = Root /\ (\E u \in Alive(windows) : Link(windows, "parent")[u] = w)
                      THEN Link(windows, "children")[w]
                      ELSE IF v = Link(windows, "parent")[w] /\ Link(windows, "children")[v] = w
                           THEN Link(windows, "siblings")[w] ELSE Link(windows, "children")[v]
                /\ Link(V, "siblings")[v] =
                      IF Link(windows, "siblings")[v] = w THEN Link(windows, "siblings")[w]
                      ELSE IF Link(windows, "parent")[v] = w /\ Link(windows, "siblings")[v] = NULL THEN first
                           ELSE Link(windows, "siblings")[v]
  <1> DEFINE i == windows[w]
             sons == {v \in Live : windows[v].parent = w}
             left == {v \in Live : windows[v].siblings = w}
             front == IF i.parent = Root /\ windows[Root].children = w THEN i.siblings ELSE windows[Root].children
             nx(v) == IF v = i.prev THEN i.next ELSE windows[v].next
             pv(v) == IF v = i.next THEN i.prev ELSE windows[v].prev
             pa(v) == IF v \in sons THEN Root ELSE windows[v].parent
             ch(v) == IF v = Root /\ sons # {} THEN i.children
                      ELSE IF v = i.parent /\ windows[v].children = w THEN i.siblings ELSE windows[v].children
             sb(v) == IF v \in left THEN i.siblings
                      ELSE IF v \in sons /\ windows[v].siblings = NULL THEN front ELSE windows[v].siblings
  <1>1. /\ NULL \notin Nodes /\ NULL \notin wininfos /\ DOMAIN windows = Nodes /\ Live = Alive(windows)
        /\ w \in Nodes /\ Root \in Nodes /\ Alive(windows) \subseteq Nodes
        /\ \A v \in Nodes : windows[v] \in wininfos \cup {NULL} /\ (v \in Alive(windows) <=> windows[v] # NULL)
    BY NoNode DEF WTyped, Alive, Live
  <1>2. \A v \in Alive(windows) : /\ windows[v] \in wininfos
                                  /\ windows[v].next \in Nodes \cup {NULL} /\ windows[v].prev \in Nodes \cup {NULL}
                                  /\ windows[v].parent \in Nodes \cup {NULL} /\ windows[v].children \in Nodes \cup {NULL}
                                  /\ windows[v].siblings \in Nodes \cup {NULL}
    BY <1>1 DEF wininfos, Nodes
  <1>3. \A v \in Alive(windows) :
          /\ Link(windows, "next")[v] = windows[v].next /\ Link(windows, "prev")[v] = windows[v].prev
          /\ Link(windows, "parent")[v] = windows[v].parent /\ Link(windows, "children")[v] = windows[v].children
          /\ Link(windows, "siblings")[v] = windows[v].siblings
          /\ Link(windows, "owner")[v] = windows[v]["owner"] /\ Link(windows, "up")[v] = windows[v]["up"]
          /\ Link(windows, "down")[v] = windows[v]["down"]
    BY <1>1 DEF Link
  <1>4. V = [v \in Nodes |-> IF v = w THEN NULL
                             ELSE IF v \notin Alive(windows) THEN windows[v]
                             ELSE Hooked(windows[v], nx(v), pv(v), pa(v), ch(v), sb(v))]
    <2>1. ASSUME NEW v \in Alive(windows)
          PROVE  [windows[v] EXCEPT
                    !.next = IF v = i.prev THEN i.next ELSE @,
                    !.prev = IF v = i.next THEN i.prev ELSE @,
                    !.parent = IF v \in sons THEN Root ELSE @,
                    !.children = LET kept == IF v = i.parent /\ @ = w THEN i.siblings ELSE @
                                 IN  IF v = Root /\ sons # {} THEN i.children ELSE kept,
                    !.siblings = LET first1 == IF i.parent = Root /\ windows[Root].children = w
                                              THEN i.siblings ELSE windows[Root].children
                                 IN  IF v \in left THEN i.siblings
                                     ELSE IF v \in sons /\ @ = NULL THEN first1 ELSE @]
                 = Hooked(windows[v], nx(v), pv(v), pa(v), ch(v), sb(v))
      <3>1. PICK j \in wininfos : j = windows[v]
        BY <1>2
      <3> QED
        BY <3>1 DEF Hooked, wininfos
    <2>2. DOMAIN V = Nodes /\ V = [v \in Nodes |-> V[v]]
      BY <1>1, Zenon DEF Unhooked
    <2>3. ASSUME NEW v \in Alive(windows) \ {w} PROVE V[v] = Hooked(windows[v], nx(v), pv(v), pa(v), ch(v), sb(v))
      <3>1. v \in Live /\ v \in DOMAIN windows /\ v # w
        BY <1>1
      <3>2. V[v] = [windows[v] EXCEPT
                    !.next = IF v = i.prev THEN i.next ELSE @,
                    !.prev = IF v = i.next THEN i.prev ELSE @,
                    !.parent = IF v \in sons THEN Root ELSE @,
                    !.children = LET kept == IF v = i.parent /\ @ = w THEN i.siblings ELSE @
                                 IN  IF v = Root /\ sons # {} THEN i.children ELSE kept,
                    !.siblings = LET first1 == IF i.parent = Root /\ windows[Root].children = w
                                              THEN i.siblings ELSE windows[Root].children
                                 IN  IF v \in left THEN i.siblings
                                     ELSE IF v \in sons /\ @ = NULL THEN first1 ELSE @]
        BY <3>1, Zenon DEF Unhooked
      <3> QED
        BY <2>1, <3>2, Zenon
    <2>4. V[w] = NULL /\ \A v \in Nodes \ Alive(windows) : V[v] = windows[v]
      BY <1>1, Zenon DEF Unhooked
    <2> QED
      BY <1>1, <2>2, <2>3, <2>4
  <1> HIDE DEF nx, pv, pa, ch, sb
  <1>5. \A v \in Alive(windows) :
          /\ nx(v) = IF v = Link(windows, "prev")[w] THEN Link(windows, "next")[w] ELSE Link(windows, "next")[v]
          /\ pv(v) = IF v = Link(windows, "next")[w] THEN Link(windows, "prev")[w] ELSE Link(windows, "prev")[v]
          /\ pa(v) = IF Link(windows, "parent")[v] = w THEN Root ELSE Link(windows, "parent")[v]
          /\ sb(v) = IF Link(windows, "siblings")[v] = w THEN Link(windows, "siblings")[w]
                     ELSE IF Link(windows, "parent")[v] = w /\ Link(windows, "siblings")[v] = NULL THEN first
                          ELSE Link(windows, "siblings")[v]
    BY <1>1, <1>3 DEF nx, pv, pa, sb
  <1>6. \A v \in Alive(windows) :
          ch(v) = IF v = Root /\ (\E u \in Alive(windows) : Link(windows, "parent")[u] = w)
                  THEN Link(windows, "children")[w]
                  ELSE IF v = Link(windows, "parent")[w] /\ Link(windows, "children")[v] = w
                       THEN Link(windows, "siblings")[w] ELSE Link(windows, "children")[v]
    <2>1. sons # {} <=> \E u \in Alive(windows) : Link(windows, "parent")[u] = w
      BY <1>1, <1>3
    <2> QED
      BY <1>1, <1>3, <2>1 DEF ch
  <1>7. \A v \in Alive(windows) : /\ nx(v) \in Nodes \cup {NULL} /\ pv(v) \in Nodes \cup {NULL}
                                  /\ pa(v) \in Nodes \cup {NULL} /\ sb(v) \in Nodes \cup {NULL} /\ ch(v) \in Nodes \cup {NULL}
    BY <1>1, <1>2 DEF nx, pv, pa, sb, ch
  <1> HIDE DEF i, sons, left, front
  <1>8. V[w] = NULL /\ (\A v \in Nodes \ Alive(windows) : V[v] = NULL)
    BY <1>1, <1>4
  <1>9. \A v \in Alive(windows) \ {w} : V[v] \in wininfos
    <2> SUFFICES ASSUME NEW v \in Alive(windows) \ {w} PROVE V[v] \in wininfos
      OBVIOUS
    <2>1. v \in Nodes /\ v \in Alive(windows) /\ v # w /\ windows[v] \in wininfos
      BY <1>1, <1>2
    <2>2. Hooked(windows[v], nx(v), pv(v), pa(v), ch(v), sb(v)) \in wininfos
      BY <1>7, <2>1, HookedTyped
    <2> QED
      BY <1>4, <2>1, <2>2
  <1>10. WTyped(V) /\ Alive(V) = Alive(windows) \ {w}
    <2>1. \A v \in Nodes : V[v] \in wininfos \cup {NULL} /\ (V[v] # NULL <=> v \in Alive(windows) \ {w})
      BY <1>1, <1>8, <1>9
    <2>2. V \in [Nodes -> wininfos \cup {NULL}]
      BY <1>4, <2>1
    <2> QED
      BY <1>1, <2>1, <2>2 DEF WTyped, Alive
  <1>11. \A field : Link(V, field)[w] = NULL
    BY <1>1, <1>8 DEF Link
  <1>12. ASSUME NEW v \in Alive(windows) \ {w}
         PROVE  /\ \A field \in {"owner", "up", "down"} : Link(V, field)[v] = Link(windows, field)[v]
                /\ Link(V, "next")[v] = nx(v) /\ Link(V, "prev")[v] = pv(v) /\ Link(V, "parent")[v] = pa(v)
                /\ Link(V, "children")[v] = ch(v) /\ Link(V, "siblings")[v] = sb(v)
    <2>1. V[v] = Hooked(windows[v], nx(v), pv(v), pa(v), ch(v), sb(v)) /\ windows[v] \in wininfos
      BY <1>1, <1>2, <1>4
    <2>2. PICK j : j = V[v]
      OBVIOUS
    <2>3. /\ j["next"] = nx(v) /\ j["prev"] = pv(v) /\ j["parent"] = pa(v) /\ j["children"] = ch(v) /\ j["siblings"] = sb(v)
          /\ j["owner"] = windows[v]["owner"] /\ j["up"] = windows[v]["up"] /\ j["down"] = windows[v]["down"]
      BY <2>1, <2>2, HookedSet
    <2>4. V[v] # NULL /\ v \in Nodes
      BY <1>1, <1>9
    <2>5. \A field : Link(V, field)[v] = j[field]
      BY <2>2, <2>4 DEF Link
    <2> QED
      BY <1>3, <2>3, <2>5
  <1>13. \A v \in Alive(windows) \ {w} :
                /\ Link(V, "next")[v] = IF v = Link(windows, "prev")[w] THEN Link(windows, "next")[w]
                                        ELSE Link(windows, "next")[v]
                /\ Link(V, "prev")[v] = IF v = Link(windows, "next")[w] THEN Link(windows, "prev")[w]
                                        ELSE Link(windows, "prev")[v]
                /\ Link(V, "parent")[v] = IF Link(windows, "parent")[v] = w THEN Root ELSE Link(windows, "parent")[v]
    BY <1>5, <1>12
  <1>14. \A v \in Alive(windows) \ {w} :
                Link(V, "siblings")[v] =
                      IF Link(windows, "siblings")[v] = w THEN Link(windows, "siblings")[w]
                      ELSE IF Link(windows, "parent")[v] = w /\ Link(windows, "siblings")[v] = NULL THEN first
                           ELSE Link(windows, "siblings")[v]
    BY <1>5, <1>12
  <1>15. \A v \in Alive(windows) \ {w} :
                Link(V, "children")[v] =
                      IF v = Root /\ (\E u \in Alive(windows) : Link(windows, "parent")[u] = w)
                      THEN Link(windows, "children")[w]
                      ELSE IF v = Link(windows, "parent")[w] /\ Link(windows, "children")[v] = w
                           THEN Link(windows, "siblings")[w] ELSE Link(windows, "children")[v]
    BY <1>6, <1>12
  <1> QED
    BY <1>10, <1>11, <1>12, <1>13, <1>14, <1>15

\* The children of a window.
LEMMA SonLinks ==
    ASSUME NEW W, NEW top, NEW D, Structure(W, top, D), NEW p \in Alive(W)
    PROVE  /\ Link(W, "children")[p] \in Sons(W, p) \cup {NULL}
           /\ \A v \in Sons(W, p) : Link(W, "siblings")[v] \in (Sons(W, p) \ {v}) \cup {NULL}
  <1>1. PICK s : SonChain(W, p, s)
    BY DEF Structure
  <1> DEFINE first == Link(W, "children")[p]
             sb == Link(W, "siblings")
  <1>2. s \in Seq(Nodes) /\ Forward(s, first, sb, NULL) /\ Elements(s) = Sons(W, p)
    BY <1>1 DEF SonChain
  <1> HIDE DEF first, sb
  <1>3. PICK pv : IsList(s, first, sb, pv, NULL)
    BY <1>2, Backlinks
  <1>4. first \in Elements(s) \cup {NULL} /\ \A v \in Elements(s) : sb[v] \in (Elements(s) \ {v}) \cup {NULL}
    BY <1>2, <1>3, Neighbours
  <1> QED
    BY <1>2, <1>4 DEF first, sb

\* Where a link to x among siblings leads once it leads past w
Past(W, w, x) == IF x = w THEN Link(W, "siblings")[w] ELSE x
SiblingsPast(W, w) == [v \in Nodes |-> Past(W, w, Link(W, "siblings")[v])]

\* The children of a window without one, which may be none of them.
LEMMA SonsWithout ==
    ASSUME NEW W, NEW top, NEW D, Structure(W, top, D), NEW w \in Alive(W) \ {Root}, NEW q \in Alive(W)
    PROVE  \E r \in Seq(Nodes) : /\ Forward(r, Past(W, w, Link(W, "children")[q]), SiblingsPast(W, w), NULL)
                                 /\ Elements(r) = Sons(W, q) \ {w}
  <1> DEFINE sb0 == Link(W, "siblings")
             h == Link(W, "children")[q]
             sb == SiblingsPast(W, w)
             first == Past(W, w, Link(W, "children")[q])
  <1>1. PICK s : SonChain(W, q, s)
    BY DEF Structure
  <1>2. s \in Seq(Nodes) /\ Forward(s, h, sb0, NULL) /\ Elements(s) = Sons(W, q)
    BY <1>1 DEF SonChain
  <1>3. NULL \notin Nodes /\ w \in Nodes /\ q \in Nodes
    BY NoNode DEF Alive
  <1>4. h \in Sons(W, q) \cup {NULL} /\ \A v \in Sons(W, q) : sb0[v] \in (Sons(W, q) \ {v}) \cup {NULL}
    BY SonLinks
  <1>5. \A v \in Nodes : sb0[v] = w => Link(W, "parent")[v] = Link(W, "parent")[w] /\ v # w /\ v \in Sons(W, Link(W, "parent")[w])
    <2> SUFFICES ASSUME NEW v \in Nodes, sb0[v] = w
                 PROVE  Link(W, "parent")[v] = Link(W, "parent")[w] /\ v # w /\ v \in Sons(W, Link(W, "parent")[w])
      OBVIOUS
    <2>1. v \in Alive(W) \ {Root}
      BY <1>3, TreeLinks
    <2>2. Link(W, "parent")[v] \in Alive(W)
      BY <2>1 DEF Structure, Related
    <2>3. v \in Sons(W, Link(W, "parent")[v])
      BY DEF Sons
    <2>4. w \in Sons(W, Link(W, "parent")[v]) /\ w # v
      BY <1>3, <2>2, <2>3, SonLinks
    <2> QED
      BY <2>3, <2>4 DEF Sons
  <1>6. \A v \in Nodes : sb[v] = IF sb0[v] = w THEN sb0[w] ELSE sb0[v]
    BY DEF SiblingsPast, Past
  <1>7. first = IF h = w THEN sb0[w] ELSE h
    BY DEF Past
  <1> HIDE DEF sb0, h, sb, first
  <1>8. CASE w \in Sons(W, q)
    <2>1. PICK k \in 1..Len(s) : s[k] = w
      BY <1>2, <1>8 DEF Elements
    <2>2. Len(s) \in Nat /\ k \in Nat /\ \A i \in 1..Len(s) : s[i] \in Nodes
      BY <1>2, ElementsIn DEF Elements
    <2>3. /\ \A i, j \in 1..Len(s) : s[i] = s[j] => i = j
          /\ h = IF Len(s) = 0 THEN NULL ELSE s[1]
          /\ \A i \in 1..Len(s) : sb0[s[i]] = IF i = Len(s) THEN NULL ELSE s[i + 1]
      BY <1>2 DEF Forward
    <2>4. \A u \in Nodes \ {s[k]} : sb[u] = IF k # 1 /\ u = s[k - 1] THEN sb0[s[k]] ELSE sb0[u]
      <3> SUFFICES ASSUME NEW u \in Nodes \ {s[k]} PROVE sb[u] = IF k # 1 /\ u = s[k - 1] THEN sb0[s[k]] ELSE sb0[u]
        OBVIOUS
      <3>1. CASE sb0[u] = w
        <4>1. u \in Sons(W, q)
          BY <1>3, <1>5, <1>8, <3>1 DEF Sons
        <4>2. PICK i \in 1..Len(s) : s[i] = u
          BY <1>2, <4>1 DEF Elements
        <4>3. i # Len(s) /\ s[i + 1] = w
          BY <1>3, <2>3, <3>1, <4>2
        <4>4. i + 1 \in 1..Len(s)
          BY <2>2, <4>3
        <4>5. i + 1 = k
          BY <2>1, <2>3, <4>3, <4>4
        <4>6. k # 1 /\ k - 1 = i
          BY <2>2, <4>5
        <4> QED
          BY <1>6, <2>1, <3>1, <4>2, <4>6
      <3>2. CASE sb0[u] # w
        <4>1. ~(k # 1 /\ u = s[k - 1])
          <5> SUFFICES ASSUME k # 1, u = s[k - 1] PROVE FALSE
            OBVIOUS
          <5>1. k - 1 \in 1..Len(s) /\ k - 1 # Len(s) /\ (k - 1) + 1 = k
            BY <2>2
          <5>2. PICK i : i = k - 1
            OBVIOUS
          <5>3. sb0[s[i]] = s[i + 1]
            BY <2>3, <5>1, <5>2
          <5> QED
            BY <2>1, <3>2, <5>1, <5>2, <5>3
        <4> QED
          BY <1>6, <3>2, <4>1
      <3> QED
        BY <3>1, <3>2
    <2>5. Forward(Without(s, k), IF k # 1 THEN h ELSE sb0[s[k]], sb, NULL)
      BY ONLY <1>2, <1>3, <2>1, <2>4, UnlinkedForward
    <2>6. (IF k # 1 THEN h ELSE sb0[s[k]]) = first
      <3>1. h = s[1] /\ 1 \in 1..Len(s)
        BY <2>2, <2>3
      <3>2. h = w <=> k = 1
        BY <2>1, <2>3, <3>1
      <3> QED
        BY <1>7, <2>1, <3>2
    <2>7. Without(s, k) \in Seq(Nodes) /\ Elements(Without(s, k)) = Elements(s) \ {w}
      BY <1>2, <2>1, <2>3, WithoutElements
    <2> QED
      BY <1>2, <2>5, <2>6, <2>7 DEF sb, first
  <1>9. CASE w \notin Sons(W, q)
    <2>1. h # w /\ \A v \in Elements(s) : sb[v] = sb0[v]
      BY <1>2, <1>3, <1>4, <1>6, <1>9 DEF Sons
    <2>2. Forward(s, h, sb, NULL)
      BY <1>2, <2>1, SameForward
    <2> QED
      BY <1>2, <1>7, <1>9, <2>1, <2>2 DEF sb, first
  <1> QED
    BY <1>8, <1>9 DEF sb, first

\* The end of XDestroyWindow()
LEMMA UnhookedKept ==
    ASSUME Structure(windows, topWin, displays), NEW t \in Tasks, NEW w \in Alive(windows) \ {Root},
           Link(windows, "down")[w] = NULL, Link(windows, "owner")[w] = t, NEW V, V = Unhooked(w),
           NEW E \in [Tasks -> Displays \cup {NULL}], E[t] # NULL, \A u \in Tasks \ {t} : E[u] = displays[u],
           E[t].windows = IF Link(windows, "prev")[w] = NULL THEN Link(windows, "next")[w] ELSE displays[t].windows
    PROVE  /\ Structure(V, topWin, E) /\ Alive(V) = Alive(windows) \ {w}
           /\ \A v \in Nodes \ {w} : \A field \in {"owner", "up", "down"} : Link(V, field)[v] = Link(windows, field)[v]
           /\ \A v \in Nodes \ {w} : Link(windows, "owner")[v] # t => Link(V, "next")[v] = Link(windows, "next")[v]
  <1> DEFINE P == Link(windows, "parent")[w]
             nx == Link(windows, "next")
             pv == Link(windows, "prev")
             sb == Link(windows, "siblings")
             ch == Link(windows, "children")
  <1>1. PICK first : first = IF P = Root /\ ch[Root] = w THEN sb[w] ELSE ch[Root]
    OBVIOUS
  <1>2. NULL \notin Nodes /\ NULL \notin Tasks /\ Root \in Nodes /\ w \in Nodes /\ w # Root /\ w \in Alive(windows)
    BY NoNode DEF Alive
  <1>3. Root \in Alive(windows) /\ WTyped(windows)
    BY DEF Structure, Related
  <1>4. /\ WTyped(V) /\ Alive(V) = Alive(windows) \ {w}
        /\ \A field : Link(V, field)[w] = NULL
        /\ \A v \in Alive(windows) \ {w} :
             /\ \A field \in {"owner", "up", "down"} : Link(V, field)[v] = Link(windows, field)[v]
             /\ Link(V, "next")[v] = IF v = pv[w] THEN nx[w] ELSE nx[v]
             /\ Link(V, "prev")[v] = IF v = nx[w] THEN pv[w] ELSE pv[v]
             /\ Link(V, "parent")[v] = IF Link(windows, "parent")[v] = w THEN Root ELSE Link(windows, "parent")[v]
             /\ Link(V, "children")[v] =
                   IF v = Root /\ (\E u \in Alive(windows) : Link(windows, "parent")[u] = w)
                   THEN ch[w] ELSE IF v = P /\ ch[v] = w THEN sb[w] ELSE ch[v]
             /\ Link(V, "siblings")[v] =
                   IF sb[v] = w THEN sb[w]
                   ELSE IF Link(windows, "parent")[v] = w /\ sb[v] = NULL THEN first ELSE sb[v]
    BY <1>1, <1>3, UnhookedLinks
  <1>5. \A v \in Nodes \ Alive(windows) : \A field : Link(V, field)[v] = NULL /\ Link(windows, field)[v] = NULL
    BY <1>4, NoLinks
  <1>6. PICK s : OwnChain(windows, t, displays[t].windows, s)
    <2>1. displays[t] # NULL
      BY <1>2 DEF Structure, Related
    <2> QED
      BY <2>1 DEF Structure
  <1>7. /\ s \in Seq(Nodes) /\ IsList(s, displays[t].windows, nx, pv, NULL)
        /\ Elements(s) = Owned(windows, t) /\ Elements(s) \subseteq Alive(windows) \ {Root}
        /\ w \in Elements(s) /\ nx[w] \in Owned(windows, t) \cup {NULL} /\ pv[w] \in Owned(windows, t) \cup {NULL}
    <2>1. w \in Owned(windows, t)
      BY <1>2 DEF Owned
    <2> QED
      BY <1>6, <2>1, OwnLinks
  <1>8. P \in Alive(windows) \ {w}
    BY <1>2 DEF Structure, Related
  <1> HIDE DEF P, nx, pv, sb, ch
  <1>9. DisplayChain(V, topWin, CHOOSE r : DisplayChain(windows, topWin, r))
    <2>1. PICK r : r = CHOOSE x : DisplayChain(windows, topWin, x)
      OBVIOUS
    <2>2. DisplayChain(windows, topWin, r)
      BY <2>1 DEF Structure
    <2>3. w \notin Elements(r) /\ Link(windows, "up")[w] = NULL
      BY <1>2, <2>2, ChainLinks
    <2>4. \A field \in {"up", "down"} : \A v \in Nodes : Link(V, field)[v] = Link(windows, field)[v]
      BY <1>4, <1>5, <2>3
    <2>5. Link(V, "down") = Link(windows, "down") /\ Link(V, "up") = Link(windows, "up")
      BY <2>4 DEF Link
    <2>6. Elements(r) \subseteq Alive(V)
      BY <1>4, <2>2, <2>3 DEF DisplayChain
    <2> QED
      BY <2>1, <2>2, <2>5, <2>6 DEF DisplayChain
  <1>10. Related(V, E)
    <2>1. Root \in Alive(V) /\ Root # pv[w] /\ Root # nx[w] /\ w # NULL
      BY <1>2, <1>3, <1>4, <1>7
    <2>2. /\ Link(windows, "owner")[Root] = NULL /\ Link(windows, "parent")[Root] = NULL /\ nx[Root] = NULL
          /\ pv[Root] = NULL /\ sb[Root] = NULL
      BY DEF Structure, Related, nx, pv, sb
    <2>3. \A field \in {"owner", "parent", "next", "prev", "siblings"} : Link(V, field)[Root] = NULL
      BY <1>2, <1>3, <1>4, <2>1, <2>2
    <2>4. ASSUME NEW v \in Alive(V) \ {Root}
          PROVE  /\ Link(V, "owner")[v] \in Tasks /\ E[Link(V, "owner")[v]] # NULL
                 /\ Link(V, "parent")[v] \in Alive(V) \ {v}
      <3>1. v \in Alive(windows) \ {w} /\ v # Root
        BY <1>4
      <3>2. /\ Link(windows, "owner")[v] \in Tasks /\ displays[Link(windows, "owner")[v]] # NULL
            /\ Link(windows, "parent")[v] \in Alive(windows) \ {v}
        BY <3>1 DEF Structure, Related
      <3>3. Link(V, "owner")[v] \in Tasks /\ E[Link(V, "owner")[v]] # NULL
        BY <1>4, <3>1, <3>2
      <3>4. Link(V, "parent")[v] \in Alive(V) \ {v}
        BY <1>4, <2>1, <3>1, <3>2
      <3> QED
        BY <3>3, <3>4
    <2> QED
      BY <2>1, <2>3, <2>4 DEF Related
  <1>11. ASSUME NEW u \in Tasks, E[u] # NULL PROVE \E r : OwnChain(V, u, E[u].windows, r)
    <2>1. Owned(V, u) = Owned(windows, u) \ {w}
      <3>1. \A v \in Nodes : Link(V, "owner")[v] = IF v = w THEN NULL ELSE Link(windows, "owner")[v]
        BY <1>2, <1>4, <1>5
      <3> QED
        BY <1>2, <3>1 DEF Owned
    <2>2. CASE u = t
      <3>1. PICK k \in 1..Len(s) : s[k] = w
        BY <1>7 DEF Elements
      <3>2. \A v \in Nodes \ {s[k]} : Link(V, "next")[v] = IF v = pv[s[k]] THEN nx[s[k]] ELSE nx[v]
        <4> SUFFICES ASSUME NEW v \in Nodes \ {w} PROVE Link(V, "next")[v] = IF v = pv[w] THEN nx[w] ELSE nx[v]
          BY <3>1
        <4>1. CASE v \in Alive(windows)
          BY <1>4, <4>1
        <4>2. CASE v \notin Alive(windows)
          BY <1>2, <1>5, <1>7, <4>2 DEF nx
        <4> QED
          BY <4>1, <4>2
      <3>3. \A v \in Nodes \ {s[k]} : Link(V, "prev")[v] = IF v = nx[s[k]] THEN pv[s[k]] ELSE pv[v]
        <4> SUFFICES ASSUME NEW v \in Nodes \ {w} PROVE Link(V, "prev")[v] = IF v = nx[w] THEN pv[w] ELSE pv[v]
          BY <3>1
        <4>1. CASE v \in Alive(windows)
          BY <1>4, <4>1
        <4>2. CASE v \notin Alive(windows)
          BY <1>2, <1>5, <1>7, <4>2 DEF pv
        <4> QED
          BY <4>1, <4>2
      <3>4. IsList(Without(s, k), IF pv[s[k]] # NULL THEN displays[t].windows ELSE nx[s[k]], Link(V, "next"), Link(V, "prev"), NULL)
        BY ONLY <1>2, <1>7, <3>1, <3>2, <3>3, UnlinkedList
      <3>5. (IF pv[s[k]] # NULL THEN displays[t].windows ELSE nx[s[k]]) = E[u].windows
        BY <2>2, <3>1 DEF nx, pv
      <3>6. Without(s, k) \in Seq(Nodes) /\ Elements(Without(s, k)) = Elements(s) \ {w}
        <4>1. \A i, j \in 1..Len(s) : s[i] = s[j] => i = j
          BY <1>7 DEF IsList, Forward
        <4> QED
          BY <1>7, <3>1, <4>1, WithoutElements, Z3
      <3> QED
        BY <1>7, <2>1, <2>2, <3>4, <3>5, <3>6 DEF OwnChain
    <2>3. CASE u # t
      <3>1. E[u] = displays[u]
        BY <2>3
      <3>2. PICK r : OwnChain(windows, u, E[u].windows, r)
        BY <1>11, <3>1 DEF Structure
      <3>3. /\ r \in Seq(Nodes) /\ IsList(r, E[u].windows, nx, pv, NULL)
            /\ Elements(r) = Owned(windows, u) /\ Elements(r) \subseteq Alive(windows)
        BY <3>2, OwnLinks DEF nx, pv
      <3>4. \A v \in Elements(r) : v \in Alive(windows) \ {w} /\ v # nx[w] /\ v # pv[w]
        BY <1>2, <1>7, <2>3, <3>3 DEF Owned
      <3>5. \A v \in Elements(r) : Link(V, "next")[v] = nx[v] /\ Link(V, "prev")[v] = pv[v]
        BY <1>4, <3>4
      <3>6. IsList(r, E[u].windows, Link(V, "next"), Link(V, "prev"), NULL)
        BY ONLY <3>3, <3>5, SameList
      <3>7. Owned(V, u) = Elements(r)
        BY <2>1, <3>3, <3>4
      <3> QED
        BY <3>3, <3>6, <3>7 DEF OwnChain
    <2> QED
      BY <2>2, <2>3
  <1>12. ASSUME NEW q \in Alive(V) PROVE \E r : SonChain(V, q, r)
    <2> DEFINE sb1 == SiblingsPast(windows, w)
    <2>1. q \in Alive(windows) \ {w} /\ q \in Nodes
      BY <1>4 DEF Alive
    <2>2. PICK h : h = IF ch[q] = w THEN sb[w] ELSE ch[q]
      OBVIOUS
    <2>3. PICK r \in Seq(Nodes) : Forward(r, h, sb1, NULL) /\ Elements(r) = Sons(windows, q) \ {w}
      <3>1. w \in Alive(windows) \ {Root} /\ q \in Alive(windows)
        BY <1>2, <2>1
      <3>2. \E r \in Seq(Nodes) : /\ Forward(r, Past(windows, w, Link(windows, "children")[q]), SiblingsPast(windows, w), NULL)
                                  /\ Elements(r) = Sons(windows, q) \ {w}
        BY <3>1, SonsWithout
      <3>3. Past(windows, w, Link(windows, "children")[q]) = h
        BY <2>2 DEF Past, sb, ch
      <3> QED
        BY <3>2, <3>3 DEF sb1
    <2>4. \A v \in Nodes : sb1[v] = IF sb[v] = w THEN sb[w] ELSE sb[v]
      BY DEF SiblingsPast, Past, sb
    <2> HIDE DEF sb1
    <2>5. ch[q] = w => q = P
      BY <1>2, <2>1, SonLinks DEF Sons, ch, P
    <2>6. \A v \in Nodes : Link(V, "parent")[v] = IF v = w THEN NULL ELSE IF Link(windows, "parent")[v] = w THEN Root
                                                  ELSE Link(windows, "parent")[v]
      BY <1>2, <1>4, <1>5
    <2>7. Sons(V, q) = IF q = Root THEN (Sons(windows, Root) \ {w}) \cup Sons(windows, w) ELSE Sons(windows, q) \ {w}
      <3>1. Link(windows, "parent")[w] # w
        BY <1>8 DEF P
      <3> QED
        BY <1>2, <2>1, <2>6, <3>1 DEF Sons
    <2>8. ASSUME NEW v \in Sons(windows, q) \ {w} PROVE Link(V, "siblings")[v] = sb1[v]
      <3>1. v \in Nodes /\ Link(windows, "parent")[v] = q /\ v # w
        BY DEF Sons
      <3>2. v \in Alive(windows) \ {w}
        BY <1>2, <1>5, <2>1, <3>1
      <3> QED
        BY <1>4, <2>1, <2>4, <3>1, <3>2
    <2>9. Forward(r, h, Link(V, "siblings"), NULL)
      BY ONLY <2>3, <2>8, SameForward
    <2>10. CASE q # Root
      <3>1. Link(V, "children")[q] = h
        BY <1>4, <2>1, <2>2, <2>5, <2>10
      <3> QED
        BY <2>3, <2>7, <2>9, <2>10, <3>1 DEF SonChain
    <2>11. CASE q = Root
      <3>1. h = first
        BY <1>1, <2>2, <2>5, <2>11
      <3>2. PICK x : SonChain(windows, w, x)
        BY <1>2 DEF Structure
      <3>3. x \in Seq(Nodes) /\ Forward(x, ch[w], sb, NULL) /\ Elements(x) = Sons(windows, w)
        BY <3>2 DEF SonChain, ch, sb
      <3>4. \A v \in Sons(windows, w) : v \in Alive(windows) \ {w} /\ sb[v] # w /\ Link(windows, "parent")[v] = w
        <4>1. \A v \in Sons(windows, w) : v \in Nodes /\ Link(windows, "parent")[v] = w /\ v # w
          BY <1>8 DEF Sons, P
        <4>2. \A v \in Sons(windows, w) : v \in Alive(windows)
          BY <1>2, <1>5, <4>1
        <4>3. \A v \in Sons(windows, w) : sb[v] \in Sons(windows, w) \cup {NULL}
          BY <1>2, SonLinks DEF sb
        <4> QED
          BY <1>2, <4>1, <4>2, <4>3
      <3>5. \A v \in Elements(x) : sb1[v] = sb[v] /\ Link(V, "siblings")[v] = IF sb1[v] = NULL THEN h ELSE sb1[v]
        <4> SUFFICES ASSUME NEW v \in Sons(windows, w)
                     PROVE  sb1[v] = sb[v] /\ Link(V, "siblings")[v] = IF sb1[v] = NULL THEN h ELSE sb1[v]
          BY <3>3
        <4>1. v \in Nodes
          BY DEF Sons
        <4> QED
          BY <1>4, <2>4, <3>1, <3>4, <4>1
      <3>6. \A v \in Elements(r) : Link(V, "siblings")[v] = sb1[v]
        BY <2>3, <2>8
      <3>7. Forward(x, ch[w], sb1, NULL)
        BY ONLY <3>3, <3>5, SameForward
      <3>8. Elements(x) \cap Elements(r) = {}
        BY <1>2, <2>3, <2>11, <3>3 DEF Sons
      <3>9. /\ x \o r \in Seq(Nodes) /\ Elements(x \o r) = Elements(x) \cup Elements(r)
            /\ Forward(x \o r, IF Len(x) # 0 THEN ch[w] ELSE h, Link(V, "siblings"), NULL)
        BY ONLY <1>2, <2>3, <3>3, <3>5, <3>6, <3>7, <3>8, JoinedForward
      <3>10. (IF Len(x) # 0 THEN ch[w] ELSE h) = Link(V, "children")[q]
        <4>1. Len(x) # 0 <=> Elements(x) # {}
          <5>1. Len(x) \in Nat
            BY <3>3, ElementsIn
          <5> QED
            BY <5>1 DEF Elements
        <4>2. Elements(x) # {} <=> \E u \in Alive(windows) : Link(windows, "parent")[u] = w
          <5>1. \A u \in Alive(windows) : u \in Nodes
            BY DEF Alive
          <5> QED
            BY <3>3, <3>4, <5>1 DEF Sons
        <4> QED
          BY <1>1, <1>4, <2>1, <2>11, <3>1, <4>1, <4>2
      <3>11. Elements(x \o r) = Sons(V, q)
        BY <2>3, <2>7, <2>11, <3>3, <3>9
      <3> QED
        BY <3>9, <3>10, <3>11 DEF SonChain
    <2> QED
      BY <2>10, <2>11
  <1>13. /\ \A v \in Nodes \ {w} : \A field \in {"owner", "up", "down"} : Link(V, field)[v] = Link(windows, field)[v]
         /\ \A v \in Nodes \ {w} : Link(windows, "owner")[v] # t => Link(V, "next")[v] = nx[v]
    BY <1>2, <1>4, <1>5, <1>7 DEF Owned, nx
  <1>14. Structure(V, topWin, E)
    BY <1>4, <1>9, <1>10, <1>11, <1>12 DEF Structure
  <1> QED
    BY <1>4, <1>13, <1>14 DEF nx

-----------------------------------------------------------------------------
(* The windows: what the tasks know of them, step by step.                 *)

\* The windows t owns are the ones it owned, and linked as they were
Steady(W, D, V, E, t) ==
    /\ (E[t] = NULL <=> D[t] = NULL) /\ (D[t] # NULL => E[t].windows = D[t].windows)
    /\ \A v \in Owned(W, t) :
          /\ Link(V, "owner")[v] = t /\ Link(V, "next")[v] = Link(W, "next")[v]
          /\ Link(W, "down")[v] = NULL => Link(V, "down")[v] = NULL

\* What a task in XUnmapWindow(), XDestroyWindow() or XCloseDisplay() remembers
XFrames == [op : {"unmap", "destroy", "close"}, win : Nodes \cup {NULL}, np : Nodes \cup {NULL},
            tmp : Nodes \cup {NULL}, at : {"walk", "next"}, got : {0}]

\* Window w, which t destroys, has left the display chain
Leaving(W, t, w) == w \in Alive(W) \ {Root} /\ Link(W, "owner")[w] = t /\ Link(W, "down")[w] = NULL

\* What a call c of t knows of the windows
CallSound(W, D, t, c) ==
    /\ c.op \in {"unmap", "destroy", "close"} => c \in XFrames /\ c.np \in Alive(W) \cup {NULL}
    /\ (c.op \in {"destroy", "close"} /\ c.at = "walk") => Leaving(W, t, c.win)
    /\ c.op = "destroy" => c.at = "walk"
    /\ c.op = "close" => /\ D[t] # NULL /\ c.win = D[t].windows
                         /\ c.at = "walk" => c.tmp = Link(W, "next")[c.win]
                         /\ c.at = "next" => c.np = NULL
    /\ c.op = "event" => D[t] # NULL

\* What holds of the windows between all steps: the calls of the tasks stand on windows that
\* exist, and those of a destroyer have left the display chain
WindowsInv ==
    /\ Ready /\ Structure(windows, topWin, displays)
    /\ installed \in BOOLEAN /\ (installed \/ \A t \in Tasks : displays[t] = NULL)
    /\ \A t \in Tasks : CallSound(windows, displays, t, call[t])

\* What a task knows stays true of what is steady for it.
LEMMA CallKept ==
    ASSUME NEW W, NEW D, NEW t \in Tasks, NEW c, CallSound(W, D, t, c),
           NEW V, NEW E, Steady(W, D, V, E, t),
           c.op \in {"unmap", "destroy", "close"} => c.np \in Alive(V) \cup {NULL}
    PROVE  CallSound(V, E, t, c)
  <1>1. ASSUME c.op \in {"destroy", "close"}, c.at = "walk"
        PROVE  Leaving(V, t, c.win) /\ Link(V, "next")[c.win] = Link(W, "next")[c.win]
    <2>1. Leaving(W, t, c.win)
      BY <1>1 DEF CallSound
    <2>2. PICK w \in Nodes : w = c.win /\ w # Root
      BY <2>1 DEF Leaving, Alive
    <2>3. w \in Owned(W, t)
      BY <2>1, <2>2 DEF Leaving, Owned
    <2>4. /\ Link(V, "owner")[w] = t /\ Link(V, "next")[w] = Link(W, "next")[w]
          /\ Link(W, "down")[w] = NULL => Link(V, "down")[w] = NULL
      BY <2>3 DEF Steady
    <2>5. w \in Alive(V)
      BY <2>2, <2>4, NoNode, NoLinks
    <2> QED
      BY <2>1, <2>2, <2>4, <2>5 DEF Leaving
  <1>2. (E[t] = NULL <=> D[t] = NULL) /\ (D[t] # NULL => E[t].windows = D[t].windows)
    BY DEF Steady
  <1>3. (c.op = "destroy" => c.at = "walk") /\ (c.op = "event" => E[t] # NULL)
    BY <1>2 DEF CallSound
  <1>4. c.op = "close" => /\ E[t] # NULL /\ c.win = E[t].windows
                          /\ c.at = "walk" => c.tmp = Link(V, "next")[c.win]
                          /\ c.at = "next" => c.np = NULL
    BY <1>1, <1>2 DEF CallSound
  <1>5. c.op \in {"unmap", "destroy", "close"} => c \in XFrames /\ c.np \in Alive(V) \cup {NULL}
    BY DEF CallSound
  <1> QED
    BY <1>1, <1>3, <1>4, <1>5 DEF CallSound

\* A step of task t that leaves the others what they know.
LEMMA WindowsOnward ==
    ASSUME WindowsInv, Ready', NEW t \in Tasks, NEW c, call' = [call EXCEPT ![t] = c],
           Structure(windows', topWin', displays'), CallSound(windows', displays', t, c),
           installed' \in BOOLEAN, installed' \/ \A u \in Tasks : displays'[u] = NULL,
           \A u \in Tasks \ {t} : /\ Steady(windows, displays, windows', displays', u)
                                  /\ Unmapping(u) => call[u].np \in Alive(windows') \cup {NULL}
    PROVE  WindowsInv'
  <1>1. call'[t] = c /\ \A u \in Tasks \ {t} : call'[u] = call[u]
    BY DEF WindowsInv, Ready, CallsOK
  <1>2. ASSUME NEW u \in Tasks \ {t} PROVE CallSound(windows', displays', u, call[u])
    <2>1. PICK V, E, d : V = windows' /\ E = displays' /\ d = call[u]
      OBVIOUS
    <2>2. CallSound(windows, displays, u, d) /\ Steady(windows, displays, V, E, u)
      BY <2>1 DEF WindowsInv
    <2>3. d.op \in {"unmap", "destroy", "close"} => d.np \in Alive(V) \cup {NULL}
      BY <2>1 DEF Unmapping
    <2>4. CallSound(V, E, u, d)
      BY <2>2, <2>3, CallKept
    <2> QED
      BY <2>1, <2>4
  <1>3. \A u \in Tasks : CallSound(windows', displays', u, call'[u])
    BY <1>1, <1>2
  <1> QED
    BY <1>3 DEF WindowsInv

\* Steps that move no call of the library, nor its windows.
LEMMA WindowsAside ==
    ASSUME WindowsInv, NEW ops, ops \cap XOps = {}, MovesOnly(ops), UNCHANGED windowVars
    PROVE  WindowsInv'
  <1>1. ASSUME NEW t \in Tasks PROVE CallSound(windows, displays, t, call'[t])
    <2>1. CASE call'[t] = call[t]
      BY <2>1 DEF WindowsInv
    <2>2. CASE call'[t].op \in ops \cup {"out"}
      <3>1. call'[t].op \notin {"unmap", "destroy", "close", "event"}
        BY <2>2 DEF XOps
      <3> QED
        BY <3>1 DEF CallSound
    <2> QED
      BY <2>1, <2>2 DEF MovesOnly
  <1>2. Ready'
    BY DEF MovesOnly
  <1> QED
    BY <1>1, <1>2 DEF WindowsInv, windowVars

\* A call that has ended knows nothing.
LEMMA OutSound == ASSUME NEW W, NEW D, NEW t, NEW c, c.op = "out" PROVE CallSound(W, D, t, c)
  BY DEF CallSound

\* A display gets or gives an event.
Queued(d) == [d EXCEPT !.queue[d.head] = TRUE, !.head = (d.head + 1) % QueueSize, !.pending = NULL]

\* Events change a display, but not the windows it leads to.
LEMMA EventTyped ==
    ASSUME NEW d \in Displays
    PROVE  /\ Queued(d) \in Displays /\ Queued(d).windows = d.windows
           /\ \A t \in Tasks : /\ Taken(t, d) \in Displays /\ Taken(t, d).windows = d.windows
                               /\ [d EXCEPT !.pending = t] \in Displays /\ [d EXCEPT !.pending = t].windows = d.windows
  <1>1. d.head \in 0 .. QueueSize - 1 /\ d.tail \in 0 .. QueueSize - 1 /\ QueueSize \in Nat \ {0}
    BY XAssumption DEF Displays
  <1>2. (d.head + 1) % QueueSize \in 0 .. QueueSize - 1 /\ (d.tail + 1) % QueueSize \in 0 .. QueueSize - 1
    <2>1. d.head + 1 \in Int /\ d.tail + 1 \in Int
      BY <1>1
    <2> QED
      BY <1>1, <2>1, DivMod
  <1>3. PICK h, k : h = (d.head + 1) % QueueSize /\ k = (d.tail + 1) % QueueSize
    OBVIOUS
  <1>4. h \in 0 .. QueueSize - 1 /\ k \in 0 .. QueueSize - 1
    BY <1>2, <1>3
  <1>5. [d EXCEPT !.queue[d.head] = TRUE, !.head = h, !.pending = NULL] \in Displays
    BY <1>1, <1>4 DEF Displays
  <1>6. [d EXCEPT !.queue[d.tail] = FALSE, !.tail = k] \in Displays
    BY <1>1, <1>4 DEF Displays
  <1>7. \A t \in Tasks : [d EXCEPT !.pending = t] \in Displays /\ [d EXCEPT !.pending = t].windows = d.windows
    BY DEF Displays
  <1>8. /\ [d EXCEPT !.queue[d.head] = TRUE, !.head = h, !.pending = NULL].windows = d.windows
        /\ [d EXCEPT !.queue[d.tail] = FALSE, !.tail = k].windows = d.windows
    BY DEF Displays
  <1> QED
    BY <1>3, <1>5, <1>6, <1>7, <1>8 DEF Queued, Taken

\* Displays that lead to the same windows
SameDisplays(D, E) ==
    /\ E \in [Tasks -> Displays \cup {NULL}]
    /\ \A t \in Tasks : (E[t] = NULL <=> D[t] = NULL) /\ (D[t] # NULL => E[t].windows = D[t].windows)

\* An event is queued to a window that is there.
LEMMA EventQueued ==
    ASSUME Structure(windows, topWin, displays), NEW w \in Alive(windows), XIQueueEvent(w)
    PROVE  SameDisplays(displays, displays')
  <1> DEFINE owner == windows[w].owner
  <1>1. displays \in [Tasks -> Displays \cup {NULL}]
    BY DEF Structure
  <1>2. CASE owner = NULL
    BY <1>1, <1>2 DEF XIQueueEvent, SameDisplays
  <1>3. CASE owner # NULL
    <2>1. owner = Link(windows, "owner")[w] /\ w \in Nodes
      BY DEF Link, Alive
    <2>2. owner \in Tasks /\ displays[owner] # NULL
      BY <1>3, <2>1, TreeLinks
    <2>3. displays[owner] \in Displays
      BY <1>1, <2>2
    <2>4. displays' = [displays EXCEPT ![owner] = Queued(displays[owner])]
      <3>1. PICK d \in Displays : d = displays[owner]
        BY <2>3
      <3>2. displays' = [displays EXCEPT ![owner].queue[d.head] = TRUE, ![owner].head = (d.head + 1) % QueueSize,
                                         ![owner].pending = NULL]
        BY <1>3, <3>1 DEF XIQueueEvent
      <3>3. \A k : [displays EXCEPT ![owner].queue[d.head] = TRUE, ![owner].head = k, ![owner].pending = NULL]
                   = [displays EXCEPT ![owner] = [d EXCEPT !.queue[d.head] = TRUE, !.head = k, !.pending = NULL]]
        BY <1>1, <2>2, <3>1
      <3> QED
        BY <3>1, <3>2, <3>3, Zenon DEF Queued
    <2>5. PICK e : e = Queued(displays[owner])
      OBVIOUS
    <2>6. e \in Displays /\ e.windows = displays[owner].windows
      BY <2>3, <2>5, EventTyped
    <2> HIDE DEF owner
    <2> QED
      BY <1>1, <2>2, <2>4, <2>5, <2>6, NoNode DEF SameDisplays
  <1> QED
    BY <1>2, <1>3

\* Displays that differ in their events have the same structures.
LEMMA SameKept ==
    ASSUME NEW W, NEW top, NEW D, Structure(W, top, D), NEW E, SameDisplays(D, E)
    PROVE  Structure(W, top, E)
  BY EventsKept DEF SameDisplays

\* Windows whose tree is the same, and no more of them in the display chain but for some.
LEMMA SameSteady ==
    ASSUME NEW W, NEW D, NEW V, NEW E, SameDisplays(D, E), NEW t \in Tasks,
           \A field \in TreeFields : Link(V, field) = Link(W, field),
           \A v \in Owned(W, t) : Link(W, "down")[v] = NULL => Link(V, "down")[v] = NULL
    PROVE  Steady(W, D, V, E, t)
  <1>1. Link(V, "owner") = Link(W, "owner") /\ Link(V, "next") = Link(W, "next")
    BY DEF TreeFields
  <1> QED
    BY <1>1 DEF Steady, SameDisplays, Owned

\* The windows stay, and their displays lead to the same ones.
LEMMA StaysSteady ==
    ASSUME NEW W, NEW D, NEW E, SameDisplays(D, E), NEW t \in Tasks
    PROVE  Steady(W, D, W, E, t)
  BY SameSteady

\* A display is like itself.
LEMMA SameSame == ASSUME NEW D \in [Tasks -> Displays \cup {NULL}] PROVE SameDisplays(D, D)
  BY DEF SameDisplays

\* Where the tasks stand in XUnmapWindow().
LEMMA StandsAlive ==
    ASSUME WindowsInv, NEW u \in Tasks, Unmapping(u)
    PROVE  call[u].np \in Alive(windows) \cup {NULL} /\ call[u] \in XFrames
  BY DEF WindowsInv, CallSound, Unmapping

\* Only displays change, and only their events.
LEMMA EventsOnward ==
    ASSUME WindowsInv, Ready', NEW t \in Tasks, NEW c, call' = [call EXCEPT ![t] = c],
           UNCHANGED <<windows, topWin, installed>>, SameDisplays(displays, displays'), CallSound(windows, displays', t, c)
    PROVE  WindowsInv'
  <1>1. PICK E : E = displays'
    OBVIOUS
  <1>2. Structure(windows, topWin, E) /\ \A u \in Tasks : Steady(windows, displays, windows, E, u)
    BY <1>1, SameKept, StaysSteady DEF WindowsInv
  <1>3. \A u \in Tasks : Unmapping(u) => call[u].np \in Alive(windows) \cup {NULL}
    BY StandsAlive
  <1>4. installed' \in BOOLEAN /\ (installed' \/ \A u \in Tasks : displays'[u] = NULL)
    BY DEF WindowsInv, SameDisplays
  <1> QED
    BY <1>1, <1>2, <1>3, <1>4, WindowsOnward

\* Events are sent, ...
LEMMA EventSteps ==
    ASSUME WindowsInv, Ready', NEW t \in Tasks,
           (\E w \in Windows : XSendEvent(t, w)) \/ XNextEvent(t) \/ eventTake(t)
    PROVE  WindowsInv'
  <1>1. Structure(windows, topWin, displays) /\ displays \in [Tasks -> Displays \cup {NULL}]
    BY DEF WindowsInv, Structure
  <1>2. ASSUME NEW E, E \in Displays, displays[t] # NULL, E.windows = displays[t].windows, displays' = [displays EXCEPT ![t] = E]
        PROVE  SameDisplays(displays, displays')
    BY <1>1, <1>2, NoNode DEF SameDisplays
  <1>3. ASSUME NEW w \in Windows, XSendEvent(t, w) PROVE WindowsInv'
    <2>1. /\ w \in Live /\ XIQueueEvent(w) /\ UNCHANGED <<windows, topWin, installed>>
          /\ call' = [call EXCEPT ![t] = [op |-> "out", got |-> 0]]
      BY <1>3 DEF XSendEvent, Leave
    <2>2. w \in Alive(windows)
      BY <1>1, <2>1 DEF Structure, WTyped, Live, Alive
    <2>3. SameDisplays(displays, displays')
      BY <1>1, <2>1, <2>2, EventQueued
    <2>4. PICK c : c = [op |-> "out", got |-> 0]
      OBVIOUS
    <2>5. CallSound(windows, displays', t, c)
      BY <2>4, OutSound
    <2> QED
      BY <2>1, <2>3, <2>4, <2>5, EventsOnward
  <1>4. ASSUME displays[t] # NULL, displays' = [displays EXCEPT ![t] = Taken(t, displays[t])],
               call' = [call EXCEPT ![t] = [op |-> "out", got |-> 0]], UNCHANGED <<windows, topWin, installed>>
        PROVE  WindowsInv'
    <2>1. PICK E : E = Taken(t, displays[t])
      OBVIOUS
    <2>2. displays[t] \in Displays
      BY <1>1, <1>4
    <2>3. E \in Displays /\ E.windows = displays[t].windows
      BY <2>1, <2>2, EventTyped
    <2>4. displays' = [displays EXCEPT ![t] = E]
      BY <1>4, <2>1
    <2>5. SameDisplays(displays, displays')
      BY <1>2, <1>4, <2>3, <2>4
    <2>6. PICK c : c = [op |-> "out", got |-> 0]
      OBVIOUS
    <2>7. CallSound(windows, displays', t, c)
      BY <2>6, OutSound
    <2> QED
      BY <1>4, <2>5, <2>6, <2>7, EventsOnward
  <1>5. ASSUME XNextEvent(t) PROVE WindowsInv'
    <2>1. displays[t] # NULL /\ displays[t] \in Displays /\ UNCHANGED <<windows, topWin, installed>>
      BY <1>1, <1>5 DEF XNextEvent
    <2>2. CASE displays[t].head = displays[t].tail
      <3>1. /\ displays' = [displays EXCEPT ![t].pending = t]
            /\ call' = [call EXCEPT ![t] = [op |-> "event", at |-> "take", got |-> 0]]
        BY <1>5, <2>2 DEF XNextEvent, Enter
      <3>2. PICK E : E = [displays[t] EXCEPT !.pending = t]
        OBVIOUS
      <3>3. E \in Displays /\ E.windows = displays[t].windows /\ displays' = [displays EXCEPT ![t] = E]
        BY <2>1, <3>1, <3>2, EventTyped
      <3>4. SameDisplays(displays, displays')
        BY <1>2, <2>1, <3>3
      <3>5. PICK c : c = [op |-> "event", at |-> "take", got |-> 0]
        OBVIOUS
      <3>6. CallSound(windows, displays', t, c)
        <4>1. c.op = "event" /\ displays'[t] # NULL
          BY <2>1, <3>4, <3>5 DEF SameDisplays
        <4> QED
          BY <4>1 DEF CallSound
      <3> QED
        BY <2>1, <3>1, <3>4, <3>5, <3>6, EventsOnward
    <2>3. CASE displays[t].head # displays[t].tail
      BY <1>4, <1>5, <2>1, <2>3 DEF XNextEvent, Leave
    <2> QED
      BY <2>2, <2>3
  <1>6. ASSUME eventTake(t) PROVE WindowsInv'
    <2>1. call[t].op = "event"
      BY <1>6 DEF eventTake, Runs
    <2>2. displays[t] # NULL
      BY <2>1 DEF WindowsInv, CallSound
    <2>3. displays' = [displays EXCEPT ![t] = Taken(t, displays[t])]
      BY <1>6 DEF eventTake
    <2> QED
      BY <1>4, <1>6, <2>2, <2>3 DEF eventTake, Leave
  <1> QED
    BY <1>3, <1>5, <1>6

\* ... and asked for.
LEMMA SelectInputStep ==
    ASSUME WindowsInv, Ready', NEW t \in Tasks, NEW w \in Windows, XSelectInput(t, w, TRUE)
    PROVE  WindowsInv'
  <1>1. Structure(windows, topWin, displays) /\ WTyped(windows) /\ displays \in [Tasks -> Displays \cup {NULL}]
    BY DEF WindowsInv, Structure
  <1>2. /\ w \in Alive(windows) /\ windows[w].owner = t
        /\ windows' = [windows EXCEPT ![w].owner = t, ![w].mask = TRUE]
        /\ call' = [call EXCEPT ![t] = [op |-> "out", got |-> 0]] /\ UNCHANGED <<installed, topWin, displays>>
    BY <1>1 DEF XSelectInput, Leave, Structure, WTyped, Live, Alive
  <1>3. windows[w] \in wininfos /\ windows[w] # NULL /\ w \in Nodes /\ NULL \notin wininfos
    BY <1>1, <1>2, NoNode DEF Alive, WTyped
  <1>4. PICK i \in wininfos : i = windows[w]
    BY <1>3
  <1>5. PICK j : j = [i EXCEPT !.owner = t, !.mask = TRUE]
    OBVIOUS
  <1>6. j \in wininfos /\ \A field \in Fields : j[field] = i[field]
    <2>1. i.owner = t
      BY <1>2, <1>4
    <2>2. [i EXCEPT !.owner = t, !.mask = TRUE] \in wininfos
      BY DEF wininfos
    <2>3. \A field \in Fields : [i EXCEPT !.owner = t, !.mask = TRUE][field] = IF field = "owner" THEN t ELSE i[field]
      BY DEF wininfos, Fields, TreeFields
    <2> QED
      BY <1>5, <2>1, <2>2, <2>3
  <1>7. PICK V : V = windows'
    OBVIOUS
  <1>8. V = [windows EXCEPT ![w] = j]
    BY <1>1, <1>2, <1>3, <1>4, <1>5, <1>7 DEF WTyped
  <1>9. WTyped(V) /\ Alive(V) = Alive(windows) /\ \A field \in Fields : Link(V, field) = Link(windows, field)
    <2>1. /\ V \in [Nodes -> wininfos \cup {NULL}]
          /\ \A v \in Nodes : V[v] = IF v = w THEN j ELSE windows[v]
      BY <1>1, <1>3, <1>6, <1>8 DEF WTyped
    <2>2. \A v \in Nodes : V[v] = NULL <=> windows[v] = NULL
      BY <1>3, <1>6, <2>1
    <2>3. \A field \in Fields : \A v \in Nodes : V[v] # NULL => V[v][field] = windows[v][field]
      BY <1>4, <1>6, <2>1
    <2> QED
      BY <2>1, <2>2, <2>3 DEF WTyped, Alive, Link
  <1>10. Structure(V, topWin, displays)
    BY <1>1, <1>9, MaskKept DEF Fields
  <1>11. SameDisplays(displays, displays)
    BY <1>1, SameSame
  <1>12. \A u \in Tasks : Steady(windows, displays, V, displays, u)
    <2>1. /\ \A field \in TreeFields : Link(V, field) = Link(windows, field)
          /\ Link(V, "down") = Link(windows, "down")
      BY <1>9 DEF Fields
    <2>2. \A u \in Tasks : \A v \in Owned(windows, u) : Link(windows, "down")[v] = NULL => Link(V, "down")[v] = NULL
      BY <2>1
    <2> QED
      BY <1>11, <2>1, <2>2, SameSteady
  <1>13. PICK c : c = [op |-> "out", got |-> 0]
    OBVIOUS
  <1>14. CallSound(V, displays, t, c)
    BY <1>13, OutSound
  <1>15. \A u \in Tasks : Unmapping(u) => call[u].np \in Alive(V) \cup {NULL}
    BY <1>9, StandsAlive
  <1> QED
    BY <1>2, <1>7, <1>10, <1>12, <1>13, <1>14, <1>15, WindowsOnward DEF WindowsInv

\* What the calls for a window of its own ask of it.
LEMMA OwnWindow ==
    ASSUME WindowsInv, NEW t \in Tasks, NEW w \in Live \ {Root}, windows[w].owner = t
    PROVE  /\ w \in Alive(windows) \ {Root} /\ Link(windows, "owner")[w] = t /\ w \in Nodes /\ t # NULL
           /\ Link(windows, "down")[w] = windows[w].down /\ Link(windows, "next")[w] = windows[w].next
           /\ Link(windows, "prev")[w] = windows[w].prev /\ displays[t] # NULL
  <1>1. WTyped(windows) /\ t # NULL
    BY NoNode DEF WindowsInv, Structure
  <1>2. w \in Alive(windows) \ {Root} /\ w \in Nodes /\ windows[w] # NULL
    BY <1>1 DEF WTyped, Live, Alive
  <1>3. Link(windows, "owner")[w] = t
    BY <1>2 DEF Link
  <1>4. displays[t] # NULL
    BY <1>1, <1>2, <1>3, TreeLinks DEF WindowsInv
  <1> QED
    BY <1>1, <1>2, <1>3, <1>4 DEF Link

\* XMapWindow()
LEMMA MapStep ==
    ASSUME WindowsInv, Ready', NEW t \in Tasks, NEW w \in Windows, XMapWindow(t, w)
    PROVE  WindowsInv'
  <1>1. Structure(windows, topWin, displays) /\ displays \in [Tasks -> Displays \cup {NULL}]
    BY DEF WindowsInv, Structure
  <1>2. /\ w \in Live \ {Root} /\ windows[w].owner = t /\ topWin' = w /\ UNCHANGED installed
        /\ call' = [call EXCEPT ![t] = [op |-> "out", got |-> 0]]
        /\ XIQueueEvent(w) \/ UNCHANGED displays
    BY DEF XMapWindow, Leave
  <1>3. w \in Alive(windows) \ {Root} /\ Link(windows, "owner")[w] = t
    BY <1>2, OwnWindow
  <1>4. PICK V, E : V = windows' /\ E = displays'
    OBVIOUS
  <1>5. V = Raised(w)
    BY <1>4 DEF XMapWindow
  <1>6. /\ Structure(V, w, displays) /\ Alive(V) = Alive(windows)
        /\ \A field \in TreeFields : Link(V, field) = Link(windows, field)
        /\ \A v \in Nodes \ {w} : Link(windows, "down")[v] = NULL => Link(V, "down")[v] = NULL
    BY <1>1, <1>3, <1>5, MapKept
  <1>7. SameDisplays(displays, E)
    <2>1. CASE XIQueueEvent(w)
      BY <1>1, <1>3, <1>4, <2>1, EventQueued
    <2>2. CASE UNCHANGED displays
      BY <1>1, <1>4, <2>2, SameSame
    <2> QED
      BY <1>2, <2>1, <2>2
  <1>8. Structure(V, w, E)
    BY <1>6, <1>7, SameKept
  <1>9. ASSUME NEW u \in Tasks \ {t} PROVE Steady(windows, displays, V, E, u)
    <2>1. \A v \in Owned(windows, u) : v \in Nodes \ {w}
      BY <1>3 DEF Owned
    <2> QED
      BY <1>6, <1>7, <2>1, SameSteady
  <1>10. \A u \in Tasks : Unmapping(u) => call[u].np \in Alive(V) \cup {NULL}
    BY <1>6, StandsAlive
  <1>11. PICK c : c = [op |-> "out", got |-> 0]
    OBVIOUS
  <1>12. CallSound(V, E, t, c)
    BY <1>11, OutSound
  <1>13. installed' \in BOOLEAN /\ (installed' \/ \A u \in Tasks : displays'[u] = NULL)
    BY <1>2, <1>4, <1>7 DEF WindowsInv, SameDisplays
  <1> QED
    BY <1>2, <1>4, <1>8, <1>9, <1>10, <1>11, <1>12, <1>13, WindowsOnward

\* What is said of the frame of a call that unmaps a window of its own.
LEMMA UnmapOnward ==
    ASSUME WindowsInv, Ready', NEW t \in Tasks, NEW frame \in XFrames, frame.win \in Live \ {Root},
           windows[frame.win].owner = t, frame.op # "unmap" => frame.at = "walk",
           frame.op = "close" => frame.win = displays[t].windows /\ frame.tmp = windows[frame.win].next,
           Unmap(t, frame), UNCHANGED <<displays, installed>>
    PROVE  WindowsInv'
  <1>1. Structure(windows, topWin, displays) /\ displays \in [Tasks -> Displays \cup {NULL}]
    BY DEF WindowsInv, Structure
  <1>2. PICK w : w = frame.win
    OBVIOUS
  <1>3. /\ w \in Alive(windows) \ {Root} /\ Link(windows, "owner")[w] = t /\ w \in Nodes
        /\ Link(windows, "down")[w] = windows[w].down /\ Link(windows, "next")[w] = windows[w].next /\ displays[t] # NULL
    BY <1>2, OwnWindow
  <1>4. PICK V, dn : V = windows' /\ dn = windows[w].down
    OBVIOUS
  <1>5. V = Unmapped(w)
    BY <1>2, <1>4 DEF Unmap, Unmapped
  <1>6. PICK first : first = IF w = topWin THEN Link(windows, "down")[w] ELSE topWin
    OBVIOUS
  <1>7. topWin' = first
    BY <1>2, <1>3, <1>6 DEF Unmap
  <1>8. /\ Structure(V, first, displays) /\ Alive(V) = Alive(windows)
        /\ \A field \in TreeFields : Link(V, field) = Link(windows, field)
        /\ Link(V, "down")[w] = NULL
        /\ \A v \in Nodes : Link(windows, "down")[v] = NULL => Link(V, "down")[v] = NULL
    BY <1>1, <1>3, <1>5, <1>6, UnmapKept
  <1>9. \A u \in Tasks : Steady(windows, displays, V, displays, u)
    <2>1. SameDisplays(displays, displays)
      BY <1>1, SameSame
    <2>2. \A u \in Tasks : \A v \in Owned(windows, u) : v \in Nodes
      BY DEF Owned
    <2> QED
      BY <1>8, <2>1, <2>2, SameSteady
  <1>10. \A u \in Tasks : Unmapping(u) => call[u].np \in Alive(V) \cup {NULL}
    BY <1>8, StandsAlive
  <1>11. CASE call' = [call EXCEPT ![t] = [op |-> "out", got |-> 0]]
    <2>1. PICK c : c = [op |-> "out", got |-> 0]
      OBVIOUS
    <2>2. CallSound(V, displays, t, c)
      BY <2>1, OutSound
    <2> QED
      BY <1>4, <1>7, <1>8, <1>9, <1>10, <1>11, <2>1, <2>2, WindowsOnward DEF WindowsInv
  <1>12. CASE call' = [call EXCEPT ![t] = [frame EXCEPT !.np = windows[w].down]]
    <2>1. PICK c : c = [frame EXCEPT !.np = dn]
      OBVIOUS
    <2>2. call' = [call EXCEPT ![t] = c]
      BY <1>4, <1>12, <2>1
    <2>3. dn \in Alive(V) \cup {NULL} /\ dn \in Nodes \cup {NULL}
      <3>1. PICK s : DisplayChain(windows, topWin, s)
        BY <1>1 DEF Structure
      <3>2. Link(windows, "down")[w] \in Alive(windows) \cup {NULL}
        BY <1>3, <3>1, ChainAlive
      <3> QED
        BY <1>3, <1>4, <1>8, <3>2 DEF Alive
    <2>4. c \in XFrames /\ c.np = dn /\ c.op = frame.op /\ c.win = w /\ c.at = frame.at /\ c.tmp = frame.tmp
      BY <1>2, <2>1, <2>3 DEF XFrames
    <2>5. frame.op \in {"unmap", "destroy", "close"}
      BY DEF XFrames
    <2>6. Link(V, "owner") = Link(windows, "owner") /\ Link(V, "next") = Link(windows, "next")
      BY <1>8 DEF TreeFields
    <2>7. Leaving(V, t, w)
      BY <1>3, <1>8, <2>6 DEF Leaving
    <2>8. c.op = "close" => c.tmp = Link(V, "next")[w] /\ w = displays[t].windows
      BY <1>2, <1>3, <2>4, <2>6
    <2>9. CallSound(V, displays, t, c)
      BY <1>3, <2>3, <2>4, <2>5, <2>7, <2>8 DEF CallSound
    <2> QED
      BY <1>4, <1>7, <1>8, <1>9, <1>10, <2>2, <2>9, WindowsOnward DEF WindowsInv
  <1> QED
    BY <1>2, <1>11, <1>12 DEF Unmap, Enter, Leave

\* XDestroyWindow()
LEMMA DestroyOnward ==
    ASSUME WindowsInv, Ready', NEW t \in Tasks, NEW frame \in XFrames, frame.win \in Live \ {Root},
           windows[frame.win].owner = t, frame.op # "unmap", frame.at = "walk", frame.np = NULL,
           frame.op = "close" => frame.win = displays[t].windows /\ frame.tmp = windows[frame.win].next,
           Destroy(t, frame), UNCHANGED <<displays, installed>>
    PROVE  WindowsInv'
  <1>1. CASE windows[frame.win].down # NULL
    BY <1>1, UnmapOnward DEF Destroy
  <1>2. CASE windows[frame.win].down = NULL
    <2>1. call' = [call EXCEPT ![t] = frame] /\ UNCHANGED <<windows, topWin>>
      BY <1>2 DEF Destroy, Enter
    <2>2. PICK w : w = frame.win
      OBVIOUS
    <2>3. /\ w \in Alive(windows) \ {Root} /\ Link(windows, "owner")[w] = t
          /\ Link(windows, "down")[w] = windows[w].down /\ Link(windows, "next")[w] = windows[w].next /\ displays[t] # NULL
      BY <2>2, OwnWindow
    <2>4. CallSound(windows, displays, t, frame)
      BY <1>2, <2>2, <2>3 DEF CallSound, Leaving
    <2>5. SameDisplays(displays, displays)
      BY SameSame DEF WindowsInv, Structure
    <2>6. CallSound(windows, displays', t, frame) /\ SameDisplays(displays, displays')
      BY <2>4, <2>5
    <2> QED
      BY <2>1, <2>6, EventsOnward
  <1> QED
    BY <1>1, <1>2

\* The frame of a call begins with no window to go on to.
LEMMA FrameTyped ==
    ASSUME NEW op \in {"unmap", "destroy", "close"}, NEW w \in Nodes \cup {NULL}, NEW f, f = Frame(op, w)
    PROVE  f \in XFrames /\ f.op = op /\ f.win = w /\ f.np = NULL /\ f.at = "walk"
  BY DEF Frame, XFrames

\* XUnmapWindow() and XDestroyWindow()
LEMMA UnmapSteps ==
    ASSUME WindowsInv, Ready', NEW t \in Tasks, NEW w \in Windows, XUnmapWindow(t, w) \/ XDestroyWindow(t, w)
    PROVE  WindowsInv'
  <1>1. w \in Live \ {Root} /\ windows[w].owner = t /\ UNCHANGED <<displays, installed>>
    BY DEF XUnmapWindow, XDestroyWindow
  <1>2. w \in Nodes
    BY <1>1, OwnWindow
  <1>3. CASE XUnmapWindow(t, w)
    <2>1. PICK f : f = Frame("unmap", w)
      OBVIOUS
    <2>2. f \in XFrames /\ f.op = "unmap" /\ f.win = w
      BY <1>2, <2>1, FrameTyped
    <2>3. Unmap(t, f)
      BY <1>3, <2>1 DEF XUnmapWindow
    <2> QED
      BY <1>1, <2>2, <2>3, UnmapOnward
  <1>4. CASE XDestroyWindow(t, w)
    <2>1. PICK f : f = Frame("destroy", w)
      OBVIOUS
    <2>2. f \in XFrames /\ f.op = "destroy" /\ f.win = w /\ f.np = NULL /\ f.at = "walk"
      BY <1>2, <2>1, FrameTyped
    <2>3. Destroy(t, f)
      BY <1>4, <2>1 DEF XDestroyWindow
    <2> QED
      BY <1>1, <2>2, <2>3, DestroyOnward
  <1> QED
    BY <1>3, <1>4

\* XIChainDisplayEvent(), from a window to the one above it.
LEMMA WalkStep ==
    ASSUME WindowsInv, Ready', NEW t \in Tasks, walk(t)
    PROVE  WindowsInv'
  <1>1. Structure(windows, topWin, displays) /\ displays \in [Tasks -> Displays \cup {NULL}]
    BY DEF WindowsInv, Structure
  <1>2. PICK np, d : np = call[t].np /\ d = call[t]
    OBVIOUS
  <1>3. Unmapping(t) /\ np # NULL /\ UNCHANGED <<windows, topWin, installed>> /\ (XIQueueEvent(np) \/ UNCHANGED displays)
    BY <1>2 DEF walk
  <1>4. np \in Alive(windows) /\ d \in XFrames /\ CallSound(windows, displays, t, d)
    BY <1>2, <1>3, StandsAlive DEF WindowsInv
  <1>5. SameDisplays(displays, displays')
    <2>1. CASE XIQueueEvent(np)
      BY <1>1, <1>4, <2>1, EventQueued
    <2>2. CASE UNCHANGED displays
      <3>1. SameDisplays(displays, displays)
        BY <1>1, SameSame
      <3> QED
        BY <2>2, <3>1
    <2> QED
      BY <1>3, <2>1, <2>2
  <1>6. CASE call' = [call EXCEPT ![t] = Out]
    <2>1. PICK c : c = Out
      OBVIOUS
    <2>2. CallSound(windows, displays', t, c)
      <3>1. c.op = "out"
        BY <2>1 DEF Out
      <3> QED
        BY <3>1, OutSound
    <2> QED
      BY <1>3, <1>5, <1>6, <2>1, <2>2, EventsOnward
  <1>7. CASE call' = [call EXCEPT ![t].np = windows[np].up]
    <2>1. PICK x : x = windows[np].up
      OBVIOUS
    <2>2. PICK c : c = [d EXCEPT !.np = x]
      OBVIOUS
    <2>3. call' = [call EXCEPT ![t] = c]
      BY <1>2, <1>7, <2>1, <2>2
    <2>4. x \in Alive(windows) \cup {NULL} /\ x \in Nodes \cup {NULL}
      <3>1. PICK s : DisplayChain(windows, topWin, s)
        BY <1>1 DEF Structure
      <3>2. np \in Nodes /\ Link(windows, "up")[np] = x
        BY <1>4, <2>1 DEF Link, Alive
      <3>3. Link(windows, "up")[np] \in Alive(windows) \cup {NULL}
        BY <3>1, <3>2, ChainAlive
      <3> QED
        BY <3>2, <3>3 DEF Alive
    <2>5. c \in XFrames /\ c.np = x /\ c.op = d.op /\ c.win = d.win /\ c.at = d.at /\ c.tmp = d.tmp
      BY <1>4, <2>2, <2>4 DEF XFrames
    <2>6. d.op = "close" => d.at = "walk"
      <3>1. d.at \in {"walk", "next"}
        BY <1>4 DEF XFrames
      <3> QED
        BY <1>2, <1>3, <1>4, <3>1 DEF CallSound
    <2>7. CallSound(windows, displays, t, c)
      BY <1>4, <2>4, <2>5, <2>6 DEF CallSound
    <2>8. Steady(windows, displays, windows, displays', t)
      BY <1>5, StaysSteady
    <2>9. CallSound(windows, displays', t, c)
      <3>1. PICK E : E = displays'
        OBVIOUS
      <3>2. c.op \in {"unmap", "destroy", "close"} => c.np \in Alive(windows) \cup {NULL}
        BY <2>4, <2>5
      <3>3. CallSound(windows, E, t, c)
        BY <2>7, <2>8, <3>1, <3>2, CallKept
      <3> QED
        BY <3>1, <3>3
    <2> QED
      BY <1>3, <1>5, <2>3, <2>9, EventsOnward
  <1> QED
    BY <1>2, <1>6, <1>7 DEF walk

\* The end of XDestroyWindow()
LEMMA UnhookStep ==
    ASSUME "walk" \notin Misuses, WindowsInv, Ready', NEW t \in Tasks, destroyUnhook(t)
    PROVE  WindowsInv'
  <1>1. Structure(windows, topWin, displays) /\ displays \in [Tasks -> Displays \cup {NULL}]
    BY DEF WindowsInv, Structure
  <1>2. PICK d : d = call[t]
    OBVIOUS
  <1>3. PICK w : w = d.win
    OBVIOUS
  <1>4. /\ d.op \in {"destroy", "close"} /\ d.at = "walk" /\ d.np = NULL
        /\ CallSound(windows, displays, t, d) /\ d \in XFrames
    BY <1>2, StandsAlive DEF destroyUnhook, WindowsInv, Unmapping
  <1>5. /\ w \in Alive(windows) \ {Root} /\ Link(windows, "owner")[w] = t /\ Link(windows, "down")[w] = NULL /\ w \in Nodes
    BY <1>3, <1>4 DEF CallSound, Leaving, Alive
  <1>6. /\ Link(windows, "prev")[w] = windows[w].prev /\ Link(windows, "next")[w] = windows[w].next
        /\ displays[t] # NULL /\ displays[t] \in Displays /\ t # NULL
    <2>1. windows[w] # NULL
      BY <1>5 DEF Alive
    <2>2. t # NULL
      BY NoNode
    <2>3. displays[t] # NULL
      BY <1>1, <1>5, <2>2, TreeLinks
    <2> QED
      BY <1>1, <1>5, <2>1, <2>2, <2>3 DEF Link
  <1>7. PICK V, E, x : V = windows' /\ E = displays' /\ x = Link(windows, "next")[w]
    OBVIOUS
  <1>8. V = Unhooked(w) /\ UNCHANGED <<installed, topWin>>
    BY <1>2, <1>3, <1>7 DEF destroyUnhook
  <1>9. PICK s : OwnChain(windows, t, displays[t].windows, s)
    BY <1>1, <1>6 DEF Structure
  <1>10. x \in (Alive(windows) \ {Root}) \cup {NULL} /\ (Link(windows, "prev")[w] = NULL <=> w = displays[t].windows)
    <2>1. w \in Owned(windows, t)
      BY <1>5 DEF Owned
    <2> QED
      BY <1>1, <1>7, <1>9, <2>1, OwnLinks
  <1>11. /\ E \in [Tasks -> Displays \cup {NULL}] /\ E[t] # NULL /\ \A u \in Tasks \ {t} : E[u] = displays[u]
         /\ E[t].windows = IF Link(windows, "prev")[w] = NULL THEN Link(windows, "next")[w] ELSE displays[t].windows
    <2>1. CASE windows[w].prev = NULL
      <3>1. PICK e : e = [displays[t] EXCEPT !.windows = x]
        OBVIOUS
      <3>2. E = [displays EXCEPT ![t] = e]
        BY <1>2, <1>3, <1>6, <1>7, <2>1, <3>1 DEF destroyUnhook
      <3>3. x \in Windows \cup {NULL}
        BY <1>10 DEF Alive, Nodes
      <3>4. e \in Displays /\ e.windows = x
        BY <1>6, <3>1, <3>3 DEF Displays
      <3> QED
        BY <1>1, <1>6, <1>7, <2>1, <3>2, <3>4, NoNode
    <2>2. CASE windows[w].prev # NULL
      <3>1. E = displays
        BY <1>2, <1>3, <1>7, <2>2 DEF destroyUnhook
      <3> QED
        BY <1>1, <1>6, <2>2, <3>1
    <2> QED
      BY <2>1, <2>2
  <1>12. /\ Structure(V, topWin, E) /\ Alive(V) = Alive(windows) \ {w}
         /\ \A v \in Nodes \ {w} : \A field \in {"owner", "up", "down"} : Link(V, field)[v] = Link(windows, field)[v]
         /\ \A v \in Nodes \ {w} : Link(windows, "owner")[v] # t => Link(V, "next")[v] = Link(windows, "next")[v]
    BY <1>1, <1>5, <1>8, <1>11, UnhookedKept
  <1>13. ASSUME NEW u \in Tasks \ {t} PROVE Steady(windows, displays, V, E, u)
    <2>1. \A v \in Owned(windows, u) : v \in Nodes \ {w} /\ Link(windows, "owner")[v] = u
      BY <1>5 DEF Owned
    <2> QED
      BY <1>11, <1>12, <2>1 DEF Steady
  <1>14. ASSUME NEW u \in Tasks, Unmapping(u) PROVE call[u].np \in Alive(V) \cup {NULL}
    <2>1. call[u].np # w
      BY <1>2, <1>3, <1>14 DEF destroyUnhook
    <2> QED
      BY <1>12, <1>14, <2>1, StandsAlive
  <1>15. CASE d.op = "destroy"
    <2>1. PICK c : c = [op |-> "out", got |-> 0]
      OBVIOUS
    <2>2. call' = [call EXCEPT ![t] = c]
      BY <1>2, <1>15, <2>1 DEF destroyUnhook, Leave
    <2>3. CallSound(V, E, t, c)
      BY <2>1, OutSound
    <2>4. \A u \in Tasks \ {t} : Steady(windows, displays, V, E, u) /\ (Unmapping(u) => call[u].np \in Alive(V) \cup {NULL})
      BY <1>13, <1>14
    <2>5. installed' \in BOOLEAN /\ (installed' \/ \A u \in Tasks : E[u] = NULL)
      BY <1>6, <1>8 DEF WindowsInv
    <2> QED
      BY <1>7, <1>8, <1>12, <2>2, <2>3, <2>4, <2>5, WindowsOnward
  <1>16. CASE d.op = "close"
    <2>1. PICK c : c = [d EXCEPT !.win = d.tmp, !.at = "next"]
      OBVIOUS
    <2>2. call' = [call EXCEPT ![t] = c]
      BY <1>2, <1>16, <2>1 DEF destroyUnhook, Enter
    <2>3. c \in XFrames /\ c.op = "close" /\ c.win = d.tmp /\ c.at = "next" /\ c.np = NULL
      BY <1>4, <1>16, <2>1 DEF XFrames
    <2>4. d.tmp = x /\ w = displays[t].windows
      BY <1>3, <1>4, <1>7, <1>16 DEF CallSound
    <2>5. E[t].windows = x
      BY <1>7, <1>10, <1>11, <2>4
    <2>6. CallSound(V, E, t, c)
      BY <1>11, <2>3, <2>4, <2>5 DEF CallSound
    <2>7. \A u \in Tasks \ {t} : Steady(windows, displays, V, E, u) /\ (Unmapping(u) => call[u].np \in Alive(V) \cup {NULL})
      BY <1>13, <1>14
    <2>8. installed' \in BOOLEAN /\ (installed' \/ \A u \in Tasks : E[u] = NULL)
      BY <1>6, <1>8 DEF WindowsInv
    <2> QED
      BY <1>7, <1>8, <1>12, <2>2, <2>6, <2>7, <2>8, WindowsOnward
  <1> QED
    BY <1>4, <1>15, <1>16

\* XCloseDisplay()
LEMMA CloseSteps ==
    ASSUME WindowsInv, Ready', NEW t \in Tasks, XCloseDisplay(t) \/ closeNext(t)
    PROVE  WindowsInv'
  <1>1. /\ Structure(windows, topWin, displays) /\ displays \in [Tasks -> Displays \cup {NULL}]
        /\ NULL \notin Displays /\ NULL \notin Nodes /\ t # NULL
    BY NoNode DEF WindowsInv, Structure
  <1>2. SameDisplays(displays, displays)
    BY <1>1, SameSame
  <1>3. CASE XCloseDisplay(t)
    <2>1. /\ displays[t] # NULL /\ UNCHANGED <<windows, topWin, installed, displays>>
          /\ call' = [call EXCEPT ![t] = [Frame("close", displays[t].windows) EXCEPT !.at = "next"]]
      BY <1>3 DEF XCloseDisplay, Enter, windowVars
    <2>2. displays[t].windows \in Nodes \cup {NULL}
      <3>1. displays[t] \in Displays
        BY <1>1, <2>1
      <3> QED
        BY <3>1 DEF Displays, Nodes
    <2>3. PICK w : w = displays[t].windows
      OBVIOUS
    <2>4. PICK f : f = Frame("close", w)
      OBVIOUS
    <2>5. f \in XFrames /\ f.op = "close" /\ f.win = w /\ f.np = NULL
      BY <2>2, <2>3, <2>4, FrameTyped
    <2>6. PICK c : c = [f EXCEPT !.at = "next"]
      OBVIOUS
    <2>7. c \in XFrames /\ c.op = "close" /\ c.win = w /\ c.np = NULL /\ c.at = "next"
      BY <2>5, <2>6 DEF XFrames
    <2>8. CallSound(windows, displays, t, c)
      BY <2>1, <2>3, <2>7 DEF CallSound
    <2>9. call' = [call EXCEPT ![t] = c]
      BY <2>1, <2>3, <2>4, <2>6
    <2>10. CallSound(windows, displays', t, c) /\ SameDisplays(displays, displays')
      BY <1>2, <2>1, <2>8
    <2> QED
      BY <2>1, <2>9, <2>10, EventsOnward
  <1>4. CASE closeNext(t)
    <2>1. PICK d : d = call[t]
      OBVIOUS
    <2>2. d.op = "close" /\ d.at = "next" /\ CallSound(windows, displays, t, d)
      BY <1>4, <2>1 DEF closeNext, WindowsInv
    <2>3. d \in XFrames /\ displays[t] # NULL /\ d.win = displays[t].windows /\ d.np = NULL
      BY <2>2 DEF CallSound
    <2>4. PICK s : OwnChain(windows, t, displays[t].windows, s)
      BY <1>1, <2>3 DEF Structure
    <2>5. /\ s \in Seq(Nodes) /\ IsList(s, displays[t].windows, Link(windows, "next"), Link(windows, "prev"), NULL)
          /\ Elements(s) = Owned(windows, t) /\ Elements(s) \subseteq Alive(windows) \ {Root}
          /\ d.win \in Owned(windows, t) \cup {NULL}
      BY <1>1, <2>3, <2>4, OwnLinks
    <2>6. CASE d.win = NULL
      <3>1. displays' = [displays EXCEPT ![t] = NULL] /\ Leave(t, 0) /\ UNCHANGED <<windows, topWin, installed>>
        BY <1>4, <2>1, <2>6 DEF closeNext
      <3>2. Owned(windows, t) = {}
        <4>1. Len(s) = 0
          <5>1. CASE Len(s) # 0
            <6>1. 1 \in 1..Len(s)
              BY <2>5, <5>1, ElementsIn
            <6>2. s[1] = NULL /\ s[1] \in Elements(s)
              BY <2>3, <2>5, <2>6, <5>1, <6>1 DEF IsList, Forward, Elements
            <6>3. s[1] \in Nodes
              BY <2>5, <6>2 DEF Alive
            <6> QED
              BY <1>1, <6>2, <6>3
          <5> QED
            BY <5>1
        <4> QED
          BY <2>5, <4>1 DEF Elements
      <3>3. PICK E : E = displays'
        OBVIOUS
      <3>4. E \in [Tasks -> Displays \cup {NULL}] /\ E[t] = NULL /\ \A u \in Tasks \ {t} : E[u] = displays[u]
        BY <1>1, <3>1, <3>3
      <3>5. Related(windows, E)
        <4>1. \A v \in Alive(windows) \ {Root} : Link(windows, "owner")[v] # t
          BY <3>2 DEF Owned, Alive
        <4> QED
          BY <1>1, <3>4, <4>1 DEF Structure, Related
      <3>6. Structure(windows, topWin, E)
        BY <1>1, <3>4, <3>5 DEF Structure
      <3>7. \A u \in Tasks \ {t} : Steady(windows, displays, windows, E, u)
        BY <3>4 DEF Steady, Owned
      <3>8. PICK c : c = [op |-> "out", got |-> 0]
        OBVIOUS
      <3>9. CallSound(windows, E, t, c)
        BY <3>8, OutSound
      <3>10. \A u \in Tasks : Unmapping(u) => call[u].np \in Alive(windows) \cup {NULL}
        BY StandsAlive
      <3>11. installed' \in BOOLEAN /\ (installed' \/ \A u \in Tasks : E[u] = NULL)
        BY <3>1, <3>4 DEF WindowsInv
      <3> QED
        BY <3>1, <3>3, <3>6, <3>7, <3>8, <3>9, <3>10, <3>11, WindowsOnward DEF Leave
    <2>7. CASE d.win # NULL
      <3>1. PICK c : c = [d EXCEPT !.tmp = windows[d.win].next, !.at = "walk"]
        OBVIOUS
      <3>2. Destroy(t, c) /\ UNCHANGED <<displays, installed>>
        BY <1>4, <2>1, <2>7, <3>1 DEF closeNext
      <3>3. d.win \in Alive(windows) \ {Root} /\ d.win \in Nodes /\ Link(windows, "owner")[d.win] = t
        BY <2>5, <2>7 DEF Owned
      <3>4. d.win \in Live \ {Root} /\ windows[d.win].owner = t /\ Link(windows, "next")[d.win] = windows[d.win].next
        BY <1>1, <3>3 DEF Alive, Live, Link, Structure, WTyped
      <3>5. windows[d.win].next \in Nodes \cup {NULL}
        <4>1. Link(windows, "next")[d.win] \in Owned(windows, t) \cup {NULL}
          BY <1>1, <2>3, <2>4, <2>5, <2>7, OwnLinks
        <4> QED
          BY <3>4, <4>1 DEF Owned
      <3>6. /\ c \in XFrames /\ c.op = "close" /\ c.win = d.win /\ c.np = NULL /\ c.at = "walk"
            /\ c.tmp = windows[d.win].next
        BY <2>2, <2>3, <3>1, <3>5 DEF XFrames
      <3> QED
        BY <2>3, <3>2, <3>4, <3>6, DestroyOnward
    <2> QED
      BY <2>6, <2>7
  <1> QED
    BY <1>3, <1>4

\* XOpenDisplay()
LEMMA OpenStep ==
    ASSUME WindowsInv, Ready', NEW t \in Tasks, XOpenDisplay(t)
    PROVE  WindowsInv'
  <1>1. /\ Structure(windows, topWin, displays) /\ displays \in [Tasks -> Displays \cup {NULL}]
        /\ NULL \notin Displays /\ t # NULL
    BY NoNode DEF WindowsInv, Structure
  <1>2. PICK e : e = [windows |-> NULL, head |-> 0, tail |-> 0, pending |-> NULL, queue |-> [i \in 0 .. QueueSize - 1 |-> FALSE]]
    OBVIOUS
  <1>3. e \in Displays /\ e.windows = NULL
    BY <1>2, XAssumption DEF Displays
  <1>4. PICK E : E = displays'
    OBVIOUS
  <1>5. /\ installed /\ displays[t] = NULL /\ E = [displays EXCEPT ![t] = e] /\ UNCHANGED <<installed, windows, topWin>>
        /\ call' = [call EXCEPT ![t] = [op |-> "out", got |-> 0]]
    BY <1>2, <1>4 DEF XOpenDisplay, Leave
  <1>6. /\ E \in [Tasks -> Displays \cup {NULL}] /\ E[t] # NULL /\ E[t].windows = NULL
        /\ \A u \in Tasks \ {t} : E[u] = displays[u]
    BY <1>1, <1>3, <1>5
  <1>7. Owned(windows, t) = {}
    BY <1>1, <1>5, TreeLinks DEF Owned
  <1>8. Related(windows, E)
    BY <1>1, <1>5, <1>6 DEF Structure, Related
  <1>9. ASSUME NEW u \in Tasks, E[u] # NULL PROVE \E r : OwnChain(windows, u, E[u].windows, r)
    <2>1. CASE u = t
      <3>1. PICK r : r = <<>>
        OBVIOUS
      <3>2. r \in Seq(Nodes) /\ Elements(r) = {} /\ IsList(r, NULL, Link(windows, "next"), Link(windows, "prev"), NULL)
        BY <3>1 DEF Elements, IsList, Forward, Backward
      <3> QED
        BY <1>6, <1>7, <2>1, <3>2 DEF OwnChain
    <2>2. CASE u # t
      BY <1>1, <1>6, <1>9, <2>2 DEF Structure
    <2> QED
      BY <2>1, <2>2
  <1>10. Structure(windows, topWin, E)
    BY <1>1, <1>6, <1>8, <1>9 DEF Structure
  <1>11. \A u \in Tasks \ {t} : Steady(windows, displays, windows, E, u)
    BY <1>6 DEF Steady, Owned
  <1>12. PICK c : c = [op |-> "out", got |-> 0]
    OBVIOUS
  <1>13. CallSound(windows, E, t, c)
    BY <1>12, OutSound
  <1>14. \A u \in Tasks : Unmapping(u) => call[u].np \in Alive(windows) \cup {NULL}
    BY StandsAlive
  <1>15. installed' \in BOOLEAN /\ installed'
    BY <1>5 DEF WindowsInv
  <1> QED
    BY <1>4, <1>5, <1>10, <1>11, <1>12, <1>13, <1>14, <1>15, WindowsOnward

\* XCreateSimpleWindow()
LEMMA CreateStep ==
    ASSUME WindowsInv, Ready', NEW t \in Tasks, NEW w \in Windows, NEW p \in {Root} \cup Windows, NEW area \in Areas,
           XCreateSimpleWindow(t, w, p, area)
    PROVE  WindowsInv'
  <1>1. /\ Structure(windows, topWin, displays) /\ displays \in [Tasks -> Displays \cup {NULL}]
        /\ NULL \notin Displays /\ Live = Alive(windows) /\ w \in Nodes
    BY NoNode DEF WindowsInv, Structure, WTyped, Live, Alive, Nodes
  <1>2. PICK V, E : V = windows' /\ E = displays'
    OBVIOUS
  <1>3. displays[t] # NULL /\ w \in Windows \ Alive(windows) /\ p \in Alive(windows)
    BY <1>1 DEF XCreateSimpleWindow
  <1>a. E = [displays EXCEPT ![t].windows = w]
    BY <1>2 DEF XCreateSimpleWindow
  <1>b. UNCHANGED <<installed, topWin>> /\ call' = [call EXCEPT ![t] = [op |-> "out", got |-> 0]]
    BY DEF XCreateSimpleWindow, Leave
  <1>4. V = MadeIn(t, w, p, area)
    BY <1>2 DEF XCreateSimpleWindow, MadeIn
  <1>5. /\ E \in [Tasks -> Displays \cup {NULL}] /\ E[t] # NULL /\ E[t].windows = w
        /\ \A u \in Tasks \ {t} : E[u] = displays[u]
    <2>1. displays[t] \in Displays
      BY <1>1, <1>3
    <2>2. PICK e : e = [displays[t] EXCEPT !.windows = w]
      OBVIOUS
    <2>3. e \in Displays /\ e.windows = w
      BY <2>1, <2>2 DEF Displays
    <2>4. E = [displays EXCEPT ![t] = e]
      BY <1>a, <2>2
    <2> QED
      BY <1>1, <2>3, <2>4
  <1>6. /\ Structure(V, topWin, E) /\ Alive(V) = Alive(windows) \cup {w}
        /\ \A v \in Nodes \ {w} : \A field \in {"owner", "next", "up", "down"} : Link(V, field)[v] = Link(windows, field)[v]
    BY <1>1, <1>3, <1>4, <1>5, CreatedKept
  <1>7. ASSUME NEW u \in Tasks \ {t} PROVE Steady(windows, displays, V, E, u)
    <2>1. \A v \in Owned(windows, u) : v \in Nodes \ {w} /\ Link(windows, "owner")[v] = u
      <3>1. Link(windows, "owner")[w] = NULL /\ u # NULL
        BY <1>1, <1>3, NoLinks, NoNode
      <3> QED
        BY <3>1 DEF Owned
    <2> QED
      BY <1>5, <1>6, <2>1 DEF Steady
  <1>8. \A u \in Tasks : Unmapping(u) => call[u].np \in Alive(V) \cup {NULL}
    BY <1>6, StandsAlive
  <1>9. PICK c : c = [op |-> "out", got |-> 0]
    OBVIOUS
  <1>10. CallSound(V, E, t, c)
    BY <1>9, OutSound
  <1>11. installed' \in BOOLEAN /\ (installed' \/ \A u \in Tasks : E[u] = NULL)
    <2>1. installed' = installed
      BY <1>b
    <2>2. installed \in BOOLEAN /\ (installed \/ \A u \in Tasks : displays[u] = NULL)
      BY DEF WindowsInv
    <2> QED
      BY <1>3, <2>1, <2>2
  <1>12. call' = [call EXCEPT ![t] = c] /\ topWin' = topWin
    BY <1>b, <1>9
  <1> QED
    BY <1>2, <1>12, <1>6, <1>7, <1>8, <1>9, <1>10, <1>11, WindowsOnward

\* The library is installed, removed, and asked for colours.
LEMMA LibrarySteps ==
    ASSUME "reinstall" \notin Misuses, WindowsInv, Ready', NEW t \in Tasks,
           InstallXWindows(t) \/ RemoveXWindows(t) \/ ColorStep(t)
    PROVE  WindowsInv'
  <1>1. /\ Structure(windows, topWin, displays) /\ displays \in [Tasks -> Displays \cup {NULL}]
        /\ SameDisplays(displays, displays)
    BY SameSame DEF WindowsInv, Structure
  <1>2. PICK value : call' = [call EXCEPT ![t] = [op |-> "out", got |-> value]]
    BY DEF InstallXWindows, RemoveXWindows, ColorStep, XAllocColorCells, XAllocColor, XStoreColor, XStoreColors, Leave
  <1>3. UNCHANGED <<windows, topWin, displays>>
    <2>1. CASE InstallXWindows(t)
      <3>1. ~installed /\ windows' = Raised(Root) /\ topWin' = Root /\ UNCHANGED displays
        BY <2>1 DEF InstallXWindows
      <3>2. \A u \in Tasks : displays[u] = NULL
        BY <3>1 DEF WindowsInv
      <3>3. Alive(windows) = {Root}
        <4>1. \A v \in Alive(windows) : v = Root
          BY <1>1, <3>2 DEF Structure, Related
        <4> QED
          BY <1>1, <4>1 DEF Structure, Related
      <3>4. topWin = Root
        <4>1. PICK s : DisplayChain(windows, topWin, s)
          BY <1>1 DEF Structure
        <4> QED
          BY <3>3, <4>1, ChainAlive
      <3> QED
        BY <3>1, <3>4 DEF Raised
    <2>2. CASE RemoveXWindows(t) \/ ColorStep(t)
      BY <2>2 DEF RemoveXWindows, ColorStep, windowVars
    <2> QED
      BY <2>1, <2>2
  <1>4. installed' \in BOOLEAN /\ (installed' \/ \A u \in Tasks : displays'[u] = NULL)
    <2>1. CASE InstallXWindows(t)
      BY <2>1 DEF InstallXWindows
    <2>2. CASE RemoveXWindows(t)
      BY <2>2 DEF RemoveXWindows
    <2>3. CASE ColorStep(t)
      BY <2>3 DEF ColorStep, windowVars, WindowsInv
    <2> QED
      BY <2>1, <2>2, <2>3
  <1>5. PICK c : c = [op |-> "out", got |-> value]
    OBVIOUS
  <1>6. CallSound(windows, displays, t, c)
    BY <1>5, OutSound
  <1>7. \A u \in Tasks : Steady(windows, displays, windows, displays, u)
    BY <1>1, StaysSteady
  <1>8. \A u \in Tasks : Unmapping(u) => call[u].np \in Alive(windows) \cup {NULL}
    BY StandsAlive
  <1>9. /\ windows' = windows /\ topWin' = topWin /\ displays' = displays
        /\ call' = [call EXCEPT ![t] = c]
    BY <1>2, <1>3, <1>5
  <1> QED
    BY <1>1, <1>4, <1>6, <1>7, <1>8, <1>9, WindowsOnward

\* The calls of an application.
LEMMA WindowCalls ==
    ASSUME "walk" \notin Misuses, WindowsInv, Ready', NEW t \in Tasks, WindowStep(t)
    PROVE  WindowsInv'
  <1>1. CASE \E w \in Windows : XMapWindow(t, w)
    BY <1>1, MapStep
  <1>2. CASE \E w \in Windows : XUnmapWindow(t, w) \/ XDestroyWindow(t, w)
    BY <1>2, UnmapSteps
  <1>3. CASE \E w \in Windows : \E p \in {Root} \cup Windows, area \in Areas : XCreateSimpleWindow(t, w, p, area)
    BY <1>3, CreateStep
  <1>4. CASE \E w \in Windows : XSelectInput(t, w, TRUE)
    BY <1>4, SelectInputStep
  <1>5. CASE (\E w \in Windows : XSendEvent(t, w)) \/ XNextEvent(t) \/ eventTake(t)
    BY <1>5, EventSteps
  <1>6. CASE XOpenDisplay(t)
    BY <1>6, OpenStep
  <1>7. CASE walk(t)
    BY <1>7, WalkStep
  <1>8. CASE destroyUnhook(t)
    BY <1>8, UnhookStep
  <1>9. CASE XCloseDisplay(t) \/ closeNext(t)
    BY <1>9, CloseSteps
  <1> QED
    <2>1. \A parent \in {Root} \cup (IF WithEvents THEN {} ELSE Windows) : parent \in {Root} \cup Windows
      OBVIOUS
    <2> QED
      BY <1>1, <1>2, <1>3, <1>4, <1>5, <1>6, <1>7, <1>8, <1>9, <2>1 DEF WindowStep

\* Every step keeps the windows' structures.
LEMMA WindowsNext ==
    ASSUME "reinstall" \notin Misuses, "walk" \notin Misuses, WindowsInv, [Next]_vars
    PROVE  WindowsInv'
  <1>0. Ready
    BY DEF WindowsInv
  <1>1. CASE UNCHANGED vars
    <2>1. UNCHANGED <<linked, call, windowVars>>
      BY <1>1 DEF vars, driversVars
    <2>2. MovesOnly({})
      BY <1>0, <2>1, NoCall
    <2> QED
      BY <2>1, <2>2, WindowsAside
  <1>2. CASE DriverStep
    <2>1. UNCHANGED windowVars /\ DriverOps \cap XOps = {}
      BY <1>2 DEF DriverStep, DriverOps, SerialOps, ConsoleOps, DiskOps, XOps
    <2> QED
      BY <1>0, <1>2, <2>1, DriverMoves, WindowsAside
  <1>3. CASE X11Step
    <2>1. PICK t \in Tasks : InstallXWindows(t) \/ RemoveXWindows(t) \/ WindowStep(t) \/ ColorStep(t)
      BY <1>0, <1>3, ApplicationTasks DEF X11Step
    <2>2. Ready'
      BY <1>0, <1>3, X11Moves DEF MovesOnly
    <2> QED
      BY <2>1, <2>2, LibrarySteps, WindowCalls
  <1>4. CASE DrawingStep
    <2>1. UNCHANGED windowVars
      BY <1>4 DEF DrawingStep
    <2> QED
      BY <1>0, <1>4, <2>1, DrawingMoves, WindowsAside
  <1>5. CASE LoaderStep
    <2>1. UNCHANGED <<linked, call, windowVars>>
      BY <1>5 DEF LoaderStep, driversVars
    <2>2. MovesOnly({})
      BY <1>0, <2>1, NoCall
    <2> QED
      BY <2>1, <2>2, WindowsAside
  <1>6. CASE KernelStep
    <2>1. UNCHANGED windowVars /\ {"fat"} \cap XOps = {} /\ {} \cap XOps = {}
      BY <1>6 DEF KernelStep, XOps
    <2> QED
      BY <1>0, <1>6, <2>1, KernelMoves, WindowsAside
  <1>7. CASE IdleStep
    <2>1. UNCHANGED windowVars /\ HookOps \cap XOps = {}
      BY <1>7 DEF IdleStep, HookOps, XOps
    <2> QED
      BY <1>0, <1>7, <2>1, IdleMoves, WindowsAside
  <1> QED
    BY <1>1, <1>2, <1>3, <1>4, <1>5, <1>6, <1>7 DEF Next

\* At first there is the root window only.
LEMMA WindowsInitial == ASSUME Init PROVE WindowsInv
  <1>1. /\ installed = FALSE /\ topWin = Root /\ displays = [t \in Tasks |-> NULL]
        /\ windows = [w \in Nodes |-> IF w = Root THEN X11rootWin ELSE NULL]
    BY DEF Init, WindowsInit, Nodes
  <1>2. NULL \notin Nodes /\ NULL \notin wininfos /\ NULL \notin Tasks /\ Root \in Nodes
    BY NoNode
  <1>3. X11rootWin \in wininfos /\ \A field \in Fields : X11rootWin[field] = NULL
    BY DEF X11rootWin, wininfo, wininfos, Fields, TreeFields
  <1>4. WTyped(windows) /\ Alive(windows) = {Root} /\ \A field \in Fields : \A v \in Nodes : Link(windows, field)[v] = NULL
    <2>1. \A v \in Nodes : windows[v] = IF v = Root THEN X11rootWin ELSE NULL
      BY <1>1
    <2>2. WTyped(windows)
      BY <1>1, <1>3 DEF WTyped
    <2>3. Alive(windows) = {Root}
      BY <1>2, <1>3, <2>1 DEF Alive
    <2>4. \A field \in Fields : \A v \in Nodes : Link(windows, field)[v] = NULL
      BY <1>2, <1>3, <2>1 DEF Link
    <2> QED
      BY <2>2, <2>3, <2>4
  <1>5. Related(windows, displays)
    BY <1>2, <1>4 DEF Related, Fields, TreeFields
  <1>6. DisplayChain(windows, topWin, <<Root>>)
    <2>1. PICK s : s = <<Root>>
      OBVIOUS
    <2>2. s \in Seq(Nodes) /\ Len(s) = 1 /\ s[1] = Root /\ Elements(s) = {Root}
      BY <1>2, <2>1 DEF Elements
    <2>3. Link(windows, "down")[Root] = NULL /\ Link(windows, "up")[Root] = NULL
      BY <1>2, <1>4 DEF Fields
    <2>4. IsList(s, Root, Link(windows, "down"), Link(windows, "up"), NULL) /\ LastOf(s, NULL) = Root
      BY <2>2, <2>3 DEF IsList, Forward, Backward, LastOf
    <2>5. \A v \in Nodes \ Elements(s) : Link(windows, "down")[v] = NULL /\ Link(windows, "up")[v] = NULL
      BY <1>4 DEF Fields
    <2> QED
      BY <1>1, <1>4, <2>1, <2>2, <2>4, <2>5 DEF DisplayChain
  <1>7. ASSUME NEW p \in Alive(windows) PROVE \E s : SonChain(windows, p, s)
    <2>1. PICK s : s = <<>>
      OBVIOUS
    <2>2. s \in Seq(Nodes) /\ Elements(s) = {} /\ Forward(s, NULL, Link(windows, "siblings"), NULL)
      BY <2>1 DEF Elements, Forward
    <2>3. Link(windows, "children")[p] = NULL /\ p # NULL /\ \A v \in Nodes : Link(windows, "parent")[v] = NULL
      BY <1>2, <1>4 DEF Fields, TreeFields, Alive
    <2>4. Sons(windows, p) = {}
      BY <2>3 DEF Sons
    <2> QED
      BY <2>2, <2>3, <2>4 DEF SonChain
  <1>8. Structure(windows, topWin, displays)
    BY <1>1, <1>4, <1>5, <1>6, <1>7 DEF Structure
  <1>9. Ready /\ \A t \in Tasks : call[t].op = "out"
    BY ReadyInit
  <1> QED
    BY <1>1, <1>8, <1>9, OutSound DEF WindowsInv

\* Following a link from the head of a list passes the entries of the list.
LEMMA ReachIs ==
    ASSUME WTyped(windows), NEW field, NEW from, NEW s \in Seq(Nodes),
           Forward(s, from, Link(windows, field), NULL), Elements(s) \subseteq Alive(windows)
    PROVE  reach(from, field) = Elements(s)
  <1> DEFINE N == Cardinality(Windows) + 1
             nxt == Link(windows, field)
  <1>1. NULL \notin Nodes /\ Live = Alive(windows) /\ NULL \notin Live
    BY NoNode DEF WTyped, Live, Alive
  <1>2. \A v \in Live : windows[v][field] = nxt[v]
    BY <1>1 DEF Alive, Link
  <1>3. N \in Nat /\ Len(s) <= N
    <2>1. IsFiniteSet(Windows) /\ Root \notin Windows
      BY XAssumption
    <2>2. IsFiniteSet(Nodes) /\ Cardinality(Nodes) = N
      BY <2>1, FS_AddElement DEF Nodes
    <2>3. N \in Nat
      BY <2>1, FS_CardinalityType
    <2> QED
      BY <2>2, <2>3, FewElements DEF Forward
  <1> HIDE DEF nxt
  <1>4. Forward(s, from, nxt, NULL) /\ Elements(s) \subseteq Live
    BY <1>1 DEF nxt
  <1>5. PICK L, K, g : L = Live /\ K = N /\ g = nxt
    OBVIOUS
  <1> HIDE DEF N
  <1>6. /\ NULL \notin Nodes /\ NULL \notin L /\ s \in Seq(Nodes) /\ Forward(s, from, g, NULL)
        /\ Elements(s) \subseteq L /\ K \in Nat /\ Len(s) <= K
    BY <1>1, <1>3, <1>4, <1>5
  <1>7. \A v \in L : windows[v][field] = g[v]
    BY <1>2, <1>5
  <1>8. PICK w : Walks(w, from, g, L, K, NULL)
    BY <1>6, WalkFound
  <1>9. w = [i \in 0..K |-> IF i = 0 THEN from ELSE IF w[i-1] \in L THEN g[w[i-1]] ELSE NULL]
    BY ONLY <1>8 DEF Walks
  <1>10. w = [i \in 0..K |-> IF i = 0 THEN from ELSE IF w[i-1] \in L THEN windows[w[i-1]][field] ELSE NULL]
    <2>1. \A i \in 0..K : (IF i = 0 THEN from ELSE IF w[i-1] \in L THEN g[w[i-1]] ELSE NULL)
                        = (IF i = 0 THEN from ELSE IF w[i-1] \in L THEN windows[w[i-1]][field] ELSE NULL)
      BY <1>7
    <2> QED
      BY ONLY <1>9, <2>1
  <1>11. PICK at : at = CHOOSE w1 : w1 = [i \in 0..K |-> IF i = 0 THEN from
                                           ELSE IF w1[i-1] \in L THEN windows[w1[i-1]][field] ELSE NULL]
    BY SMTT(30)
  <1>12. at = [i \in 0..K |-> IF i = 0 THEN from ELSE IF at[i-1] \in L THEN windows[at[i-1]][field] ELSE NULL]
    BY ONLY <1>10, <1>11, Zenon
  <1>13. at = [i \in 0..K |-> IF i = 0 THEN from ELSE IF at[i-1] \in L THEN g[at[i-1]] ELSE NULL]
    <2>1. \A i \in 0..K : (IF i = 0 THEN from ELSE IF at[i-1] \in L THEN g[at[i-1]] ELSE NULL)
                        = (IF i = 0 THEN from ELSE IF at[i-1] \in L THEN windows[at[i-1]][field] ELSE NULL)
      BY <1>7
    <2> QED
      BY ONLY <1>12, <2>1
  <1>14. Walks(at, from, g, L, K, NULL)
    BY ONLY <1>13 DEF Walks
  <1>15. reach(from, field) = {at[i] : i \in 0..K} \ {NULL}
    BY <1>5, <1>11 DEF reach, N
  <1> QED
    BY <1>6, <1>14, <1>15, WalkWithin

\* What the structures of the windows say of what a program finds along the links.
LEMMA StructureSound == ASSUME WindowsInv PROVE WindowsSound
  <1>1. /\ Structure(windows, topWin, displays) /\ WTyped(windows) /\ NULL \notin Nodes /\ NULL \notin Tasks
        /\ Live = Alive(windows) /\ Alive(windows) \subseteq Nodes /\ Root \in Alive(windows)
    BY NoNode DEF WindowsInv, Structure, WTyped, Live, Alive, Related
  <1>2. \A w \in Live : \A field : windows[w][field] = Link(windows, field)[w]
    BY <1>1 DEF Alive, Link
  <1>3. \A w \in Live : /\ windows[w].down = Link(windows, "down")[w] /\ windows[w].up = Link(windows, "up")[w]
                        /\ windows[w].next = Link(windows, "next")[w] /\ windows[w].prev = Link(windows, "prev")[w]
                        /\ windows[w].children = Link(windows, "children")[w]
                        /\ windows[w].parent = Link(windows, "parent")[w] /\ windows[w].owner = Link(windows, "owner")[w]
    BY <1>2
  <1>4. PICK s : DisplayChain(windows, topWin, s)
    BY <1>1 DEF Structure
  <1>5. reach(topWin, "down") = Elements(s) /\ Elements(s) \subseteq Live
    BY <1>1, <1>4, ReachIs DEF DisplayChain, IsList
  <1>6. PICK shown : shown = reach(topWin, "down")
    OBVIOUS
  <1>7. /\ Root \in shown /\ shown \subseteq Live
        /\ \A v \in Live : /\ Link(windows, "down")[v] = NULL <=> v = Root \/ v \notin shown
                           /\ Link(windows, "up")[v] = NULL <=> v = topWin \/ v \notin shown
                           /\ Link(windows, "down")[v] # NULL => Link(windows, "down")[v] \in Live
                                 /\ Link(windows, "up")[Link(windows, "down")[v]] = v
    BY <1>1, <1>4, <1>5, <1>6, ChainLinks
  <1>8. ASSUME NEW t \in Tasks, displays[t] # NULL
        PROVE  /\ reach(displays[t].windows, "next") = Owned(windows, t)
               /\ \A v \in Owned(windows, t) : Link(windows, "next")[v] # NULL =>
                     Link(windows, "next")[v] \in Live /\ Link(windows, "prev")[Link(windows, "next")[v]] = v
    <2>1. PICK first : first = displays[t].windows
      OBVIOUS
    <2>2. PICK r : OwnChain(windows, t, first, r)
      BY <1>1, <1>8, <2>1 DEF Structure
    <2>3. /\ r \in Seq(Nodes) /\ IsList(r, first, Link(windows, "next"), Link(windows, "prev"), NULL)
          /\ Elements(r) = Owned(windows, t) /\ Elements(r) \subseteq Alive(windows) \ {Root}
          /\ \A v \in Owned(windows, t) : Link(windows, "next")[v] \in Owned(windows, t) \cup {NULL}
                /\ (Link(windows, "next")[v] # NULL => Link(windows, "prev")[Link(windows, "next")[v]] = v)
      BY <1>1, <2>2, OwnLinks
    <2>4. reach(first, "next") = Elements(r)
      BY <1>1, <2>3, ReachIs DEF IsList
    <2> QED
      BY <1>1, <2>1, <2>3, <2>4
  <1>9. ASSUME NEW w \in Live
        PROVE  reach(windows[w].children, "siblings") = {v \in Live : windows[v].parent = w}
    <2>1. PICK r : SonChain(windows, w, r)
      BY <1>1, <1>9 DEF Structure
    <2>2. /\ r \in Seq(Nodes) /\ Forward(r, windows[w].children, Link(windows, "siblings"), NULL)
          /\ Elements(r) = Sons(windows, w)
      BY <1>3, <1>9, <2>1 DEF SonChain
    <2>3. Sons(windows, w) = {v \in Live : windows[v].parent = w}
      <3>1. \A v \in Nodes \ Live : Link(windows, "parent")[v] = NULL
        BY <1>1, NoLinks
      <3>2. w # NULL
        BY <1>1, <1>9
      <3> QED
        BY <1>1, <1>3, <3>1, <3>2 DEF Sons
    <2> QED
      BY <1>1, <2>2, <2>3, ReachIs
  <1>10. /\ \A v \in Live : Link(windows, "owner")[v] \in Tasks \cup {NULL}
                          /\ (Link(windows, "owner")[v] # NULL => displays[Link(windows, "owner")[v]] # NULL)
                          /\ (Link(windows, "owner")[v] = NULL => Link(windows, "next")[v] = NULL)
         /\ \A v \in Nodes \ Live : Link(windows, "owner")[v] = NULL
    BY <1>1, TreeLinks
  <1>11. ASSUME NEW w \in Live, windows[w].next # NULL PROVE windows[windows[w].next].prev = w
    <2>1. PICK t : t = Link(windows, "owner")[w]
      OBVIOUS
    <2>2. t \in Tasks /\ displays[t] # NULL /\ Link(windows, "next")[w] # NULL
      BY <1>3, <1>10, <1>11, <2>1
    <2>3. w \in Owned(windows, t)
      BY <1>1, <1>11, <2>1 DEF Owned
    <2> QED
      BY <1>3, <1>8, <1>11, <2>2, <2>3
  <1>12. ASSUME NEW t \in Tasks PROVE Owned(windows, t) = {w \in Live : windows[w].owner = t}
    BY <1>1, <1>3, <1>10 DEF Owned
  <1>13. ASSUME NEW t \in Tasks, displays[t] = NULL PROVE {w \in Live : windows[w].owner = t} = {}
    BY <1>1, <1>3, <1>10, <1>13
  <1>14. \A t \in Tasks : Unmapping(t) => call[t].np \in Live \cup {NULL}
    BY <1>1, StandsAlive
  <1>15. \A w \in Live : /\ (windows[w].down = NULL) <=> (w = Root \/ w \notin shown)
                         /\ (windows[w].up = NULL) <=> (w = topWin \/ w \notin shown)
                         /\ windows[w].down # NULL => windows[windows[w].down].up = w
    BY <1>3, <1>7
  <1>16. \A t \in Tasks : IF displays[t] = NULL THEN {w \in Live : windows[w].owner = t} = {}
                          ELSE reach(displays[t].windows, "next") = {w \in Live : windows[w].owner = t}
    BY <1>8, <1>12, <1>13
  <1>17. Root \in shown /\ shown \subseteq Live
    BY <1>7
  <1> QED
    BY ONLY <1>6, <1>9, <1>11, <1>14, <1>15, <1>16, <1>17 DEF WindowsSound

\* Unless a program installs the library again, or has a window destroyed that the walk of
\* another task in XUnmapWindow() stands on, the structures of the windows hold: ...
THEOREM WindowsHold ==
    ASSUME "reinstall" \notin Misuses, "walk" \notin Misuses
    PROVE  Spec => []WindowsSound
  <1>1. Init => WindowsInv
    BY WindowsInitial
  <1>2. WindowsInv /\ [Next]_vars => WindowsInv'
    BY WindowsNext
  <1>3. WindowsInv => WindowsSound
    BY StructureSound
  <1> QED
    BY <1>1, <1>2, <1>3, PTL DEF Spec

-----------------------------------------------------------------------------
(* Who sleeps for events.                                                  *)

DisplayNotes ==
    \A t \in Tasks : (displays[t] # NULL /\ displays[t].pending # NULL) =>
        displays[t].pending = t /\ t \in asleep /\ call[t].op = "event"

\* ... the displays ...
LEMMA DisplaysKept ==
    ASSUME DisplayNotes, NEW ops, Within(ops), "event" \notin ops, UNCHANGED displays
    PROVE  DisplayNotes'
  <1>1. ASSUME NEW t \in Tasks, call[t].op = "event"
        PROVE  call'[t].op = "event" /\ (t \in asleep => t \in asleep')
    BY <1>1, OthersStay
  <1> QED
    BY <1>1 DEF DisplayNotes

\* The displays keep whom they kept, but for those that get an event.
LEMMA NotesOn ==
    ASSUME DisplayNotes, NEW t \in Tasks, t \in asleep => call[t].op # "event",
           \A u \in Tasks \ {t} : call'[u] = call[u],
           \A u \in Tasks : (displays'[u] # NULL /\ displays'[u].pending # NULL) =>
               \/ displays'[u].pending = u /\ u \in asleep' /\ call'[u].op = "event"
               \/ displays[u] # NULL /\ displays'[u].pending = displays[u].pending /\ (u \in asleep => u \in asleep')
    PROVE  DisplayNotes'
  <1> SUFFICES ASSUME NEW u \in Tasks, displays'[u] # NULL, displays'[u].pending # NULL
               PROVE  displays'[u].pending = u /\ u \in asleep' /\ call'[u].op = "event"
    BY DEF DisplayNotes
  <1>1. CASE displays[u] # NULL /\ displays'[u].pending = displays[u].pending /\ (u \in asleep => u \in asleep')
    <2>1. displays[u].pending = u /\ u \in asleep /\ call[u].op = "event"
      BY <1>1 DEF DisplayNotes
    <2> QED
      BY <1>1, <2>1
  <1> QED
    BY <1>1

\* An event wakes the owner of the window, and nobody else.
LEMMA EventWakes ==
    ASSUME Structure(windows, topWin, displays), DisplayNotes, NEW w \in Alive(windows), XIQueueEvent(w)
    PROVE  /\ \A u \in Tasks : (displays'[u] # NULL /\ displays'[u].pending # NULL) =>
                 displays[u] # NULL /\ displays'[u].pending = displays[u].pending /\ (u \in asleep => u \in asleep')
           /\ \A u \in Tasks : call[u].op # "event" => (u \in asleep' <=> u \in asleep)
  <1> DEFINE owner == windows[w].owner
  <1>1. displays \in [Tasks -> Displays \cup {NULL}]
    BY DEF Structure
  <1>2. CASE owner = NULL
    BY <1>2 DEF XIQueueEvent
  <1>3. CASE owner # NULL
    <2>1. owner = Link(windows, "owner")[w] /\ w \in Nodes
      BY DEF Link, Alive
    <2>2. owner \in Tasks /\ displays[owner] # NULL
      BY <1>3, <2>1, TreeLinks
    <2>3. PICK d \in Displays : d = displays[owner]
      BY <1>1, <2>2
    <2>4. /\ displays' = [displays EXCEPT ![owner].queue[d.head] = TRUE, ![owner].head = (d.head + 1) % QueueSize,
                                          ![owner].pending = NULL]
          /\ asleep' = asleep \ {d.pending}
      BY <1>3, <2>3 DEF XIQueueEvent, Resume
    <2>5. d.pending \in {NULL, owner} /\ (d.pending # NULL => call[owner].op = "event")
      BY <2>2, <2>3 DEF DisplayNotes
    <2>6. \A u \in Tasks \ {owner} : displays'[u] = displays[u]
      BY <1>1, <2>4
    <2>7. \A k : [displays EXCEPT ![owner].queue[d.head] = TRUE, ![owner].head = k, ![owner].pending = NULL]
                 = [displays EXCEPT ![owner] = [d EXCEPT !.queue[d.head] = TRUE, !.head = k, !.pending = NULL]]
      BY <1>1, <2>2, <2>3
    <2>8. displays'[owner] = Queued(d)
      <3>1. PICK k : k = (d.head + 1) % QueueSize
        OBVIOUS
      <3>2. displays' = [displays EXCEPT ![owner] = [d EXCEPT !.queue[d.head] = TRUE, !.head = k, !.pending = NULL]]
        BY <2>4, <2>7, <3>1, Zenon
      <3> QED
        BY <1>1, <2>2, <3>1, <3>2 DEF Queued
    <2>9. Queued(d).pending = NULL
      BY DEF Queued, Displays
    <2> HIDE DEF owner
    <2>10. \A u \in Tasks : u # owner => (u \in asleep' <=> u \in asleep)
      BY <2>4, <2>5, NoTask
    <2>11. call[owner].op # "event" => (owner \in asleep' <=> owner \in asleep)
      BY <2>2, <2>4, <2>5, NoTask
    <2> QED
      BY <2>6, <2>8, <2>9, <2>10, <2>11
  <1> QED
    BY <1>2, <1>3

\* Only the task's own call goes on.
LEMMA WindowCaller ==
    ASSUME NEW t \in Tasks, WindowStep(t)
    PROVE  /\ t \in asleep => call[t].op # "event"
           /\ \A u \in Tasks \ {t} : call'[u] = call[u]
           /\ call[t].op \in XOps \cup {"out"}
  <1>1. CASE \/ \E w \in Windows : XMapWindow(t, w) \/ XSelectInput(t, w, TRUE) \/ XSendEvent(t, w)
             \/ \E w \in Windows : \E parent, area : XCreateSimpleWindow(t, w, parent, area)
             \/ XOpenDisplay(t) \/ XCloseDisplay(t) \/ XNextEvent(t)
    <2>1. Idle(t) /\ \E f : call' = [call EXCEPT ![t] = f]
      BY <1>1, Zenon DEF XMapWindow, XSelectInput, XSendEvent, XCreateSimpleWindow, XOpenDisplay, XCloseDisplay, XNextEvent,
                  Enter, Leave
    <2> QED
      BY <2>1 DEF Idle
  <1>2. CASE eventTake(t) \/ walk(t)
    <2>1. \E f : call' = [call EXCEPT ![t] = f]
      <3>1. CASE eventTake(t)
        BY <3>1 DEF eventTake, Leave
      <3>2. CASE walk(t)
        <4>1. \A np : [call EXCEPT ![t].np = np] = [call EXCEPT ![t] = [call[t] EXCEPT !.np = np]]
          OBVIOUS
        <4> QED
          BY <3>2, <4>1 DEF walk
      <3> QED
        BY <1>2, <3>1, <3>2
    <2>2. call[t].op \in XOps /\ (t \in asleep => call[t].op # "event")
      BY <1>2 DEF eventTake, Runs, walk, Unmapping, XOps
    <2> QED
      BY <2>1, <2>2
  <1>3. CASE destroyUnhook(t) \/ closeNext(t)
    <2>1. call[t].op \in {"unmap", "destroy", "close"}
      BY <1>3 DEF destroyUnhook, closeNext, Unmapping
    <2>2. \E f : Leave(t, 0) \/ Enter(t, f) \/ Destroy(t, f)
      BY <1>3 DEF destroyUnhook, closeNext
    <2>3. \E f : call' = [call EXCEPT ![t] = f]
      BY <2>2 DEF Leave, Enter, Destroy, Unmap
    <2> QED
      BY <2>1, <2>3 DEF XOps
  <1>4. CASE \E w \in Windows : XUnmapWindow(t, w) \/ XDestroyWindow(t, w)
    <2>1. Idle(t) /\ \E f : Unmap(t, f) \/ Destroy(t, f)
      BY <1>4 DEF XUnmapWindow, XDestroyWindow
    <2>2. \E f : call' = [call EXCEPT ![t] = f]
      BY <2>1 DEF Leave, Enter, Destroy, Unmap
    <2> QED
      BY <2>1, <2>2 DEF Idle
  <1> QED
    BY <1>1, <1>2, <1>3, <1>4 DEF WindowStep

\* All steps with windows: those who wait for an event sleep until they get one.
LEMMA WindowSleeps ==
    ASSUME WindowsInv, DisplayNotes, NEW t \in Tasks, WindowStep(t)
    PROVE  DisplayNotes' /\ \A u \in Tasks : call[u].op \notin XOps \cup {"out"} => (u \in asleep' <=> u \in asleep)
  <1>1. /\ t \in asleep => call[t].op # "event"
        /\ \A u \in Tasks \ {t} : call'[u] = call[u]
        /\ call[t].op \in XOps \cup {"out"}
    BY WindowCaller
  <1>2. Structure(windows, topWin, displays) /\ displays \in [Tasks -> Displays \cup {NULL}] /\ "event" \in XOps
        /\ CallsOK
    BY DEF WindowsInv, Structure, XOps, Ready
  <1>3. ASSUME NEW w \in Alive(windows), XIQueueEvent(w)
        PROVE  DisplayNotes' /\ \A u \in Tasks : call[u].op \notin XOps \cup {"out"} => (u \in asleep' <=> u \in asleep)
    BY <1>1, <1>2, <1>3, EventWakes, NotesOn
  <1>4. ASSUME asleep' = asleep,
               \A u \in Tasks : (displays'[u] # NULL /\ displays'[u].pending # NULL) =>
                   displays[u] # NULL /\ displays'[u].pending = displays[u].pending
        PROVE  DisplayNotes' /\ \A u \in Tasks : call[u].op \notin XOps \cup {"out"} => (u \in asleep' <=> u \in asleep)
    BY <1>1, <1>4, NotesOn
  <1>5. ASSUME asleep' = asleep, displays[t] # NULL, displays' = [displays EXCEPT ![t] = Taken(t, displays[t])]
        PROVE  DisplayNotes' /\ \A u \in Tasks : call[u].op \notin XOps \cup {"out"} => (u \in asleep' <=> u \in asleep)
    <2>1. PICK d \in Displays : d = displays[t]
      BY <1>2, <1>5
    <2>2. Taken(t, d).pending = d.pending
      BY DEF Taken, Displays
    <2>3. displays'[t] = Taken(t, d) /\ \A u \in Tasks \ {t} : displays'[u] = displays[u]
      BY <1>2, <1>5, <2>1
    <2> QED
      BY <1>4, <1>5, <2>1, <2>2, <2>3
  <1>6. ASSUME asleep' = asleep, displays[t] # NULL, NEW w, displays' = [displays EXCEPT ![t].windows = w]
        PROVE  DisplayNotes' /\ \A u \in Tasks : call[u].op \notin XOps \cup {"out"} => (u \in asleep' <=> u \in asleep)
    <2>1. PICK d \in Displays : d = displays[t]
      BY <1>2, <1>6
    <2>2. displays'[t] = [d EXCEPT !.windows = w] /\ \A u \in Tasks \ {t} : displays'[u] = displays[u]
      BY <1>2, <1>6, <2>1
    <2>3. [d EXCEPT !.windows = w].pending = d.pending
      BY DEF Displays
    <2> QED
      BY <1>4, <1>6, <2>1, <2>2, <2>3
  <1>7. CASE XNextEvent(t)
    <2>1. CASE displays[t].head = displays[t].tail
      <3>1. /\ displays[t] # NULL /\ displays' = [displays EXCEPT ![t].pending = t] /\ asleep' = asleep \cup {t}
            /\ call' = [call EXCEPT ![t] = [op |-> "event", at |-> "take", got |-> 0]]
        BY <1>7, <2>1 DEF XNextEvent, Enter
      <3>2. call'[t].op = "event"
        BY <1>2, <3>1 DEF CallsOK
      <3>3. PICK d \in Displays : d = displays[t]
        BY <1>2, <3>1
      <3>4. displays'[t] = [d EXCEPT !.pending = t] /\ \A u \in Tasks \ {t} : displays'[u] = displays[u]
        BY <1>2, <3>1, <3>3
      <3>5. [d EXCEPT !.pending = t].pending = t
        BY DEF Displays
      <3>6. \A u \in Tasks : (displays'[u] # NULL /\ displays'[u].pending # NULL) =>
               \/ displays'[u].pending = u /\ u \in asleep' /\ call'[u].op = "event"
               \/ displays[u] # NULL /\ displays'[u].pending = displays[u].pending /\ (u \in asleep => u \in asleep')
        BY <3>1, <3>2, <3>4, <3>5
      <3> QED
        BY <1>1, <3>1, <3>6, NotesOn
    <2>2. CASE displays[t].head # displays[t].tail
      BY <1>5, <1>7, <2>2 DEF XNextEvent
    <2> QED
      BY <2>1, <2>2
  <1>8. CASE eventTake(t)
    <2>1. displays[t] # NULL
      BY <1>8 DEF eventTake, Runs, WindowsInv, CallSound
    <2> QED
      BY <1>5, <1>8, <2>1 DEF eventTake
  <1>9. CASE \E w \in Windows : XMapWindow(t, w) \/ XSendEvent(t, w)
    <2>1. PICK w \in Windows : XMapWindow(t, w) \/ XSendEvent(t, w)
      BY <1>9
    <2>2. w \in Alive(windows)
      BY <1>2, <2>1 DEF XMapWindow, XSendEvent, Live, Alive, Structure, WTyped
    <2>3. XIQueueEvent(w) \/ UNCHANGED <<displays, asleep>>
      BY <2>1 DEF XMapWindow, XSendEvent
    <2> QED
      BY <1>3, <1>4, <2>2, <2>3
  <1>10. CASE walk(t)
    <2>1. PICK np : np = call[t].np
      OBVIOUS
    <2>2. np \in Alive(windows)
      BY <1>10, <2>1, StandsAlive DEF walk
    <2>3. XIQueueEvent(np) \/ UNCHANGED <<displays, asleep>>
      BY <1>10, <2>1 DEF walk
    <2> QED
      BY <1>3, <1>4, <2>2, <2>3
  <1>11. CASE \E w \in Windows : \E parent, area : XCreateSimpleWindow(t, w, parent, area)
    BY <1>6, <1>11 DEF XCreateSimpleWindow
  <1>12. CASE destroyUnhook(t)
    <2>1. CASE UNCHANGED displays
      BY <1>4, <1>12, <2>1 DEF destroyUnhook
    <2>2. CASE displays[t] # NULL /\ ~UNCHANGED displays
      BY <1>6, <1>12, <2>2 DEF destroyUnhook
    <2>3. displays[t] # NULL
      <3>1. PICK c : c = call[t]
        OBVIOUS
      <3>2. c.op \in {"destroy", "close"} /\ c.at = "walk" /\ CallSound(windows, displays, t, c)
        BY <1>12, <3>1 DEF destroyUnhook, Unmapping, WindowsInv
      <3>3. c.win \in Alive(windows) \ {Root} /\ Link(windows, "owner")[c.win] = t
        BY <3>2 DEF CallSound, Leaving
      <3> QED
        BY <1>2, <3>3 DEF Structure, Related
    <2> QED
      BY <2>1, <2>2, <2>3
  <1>13. CASE closeNext(t)
    <2>1. asleep' = asleep /\ (displays' = displays \/ displays' = [displays EXCEPT ![t] = NULL])
      BY <1>13 DEF closeNext
    <2>2. \A u \in Tasks : displays'[u] \in {displays[u], NULL}
      BY <1>2, <2>1
    <2> QED
      BY <1>4, <2>1, <2>2
  <1>14. CASE XOpenDisplay(t)
    <2>1. PICK d : d = [windows |-> NULL, head |-> 0, tail |-> 0, pending |-> NULL,
                        queue |-> [i \in 0 .. QueueSize - 1 |-> FALSE]]
      OBVIOUS
    <2>2. asleep' = asleep /\ displays' = [displays EXCEPT ![t] = d] /\ d.pending = NULL
      BY <1>14, <2>1 DEF XOpenDisplay
    <2>3. displays'[t] = d /\ \A u \in Tasks \ {t} : displays'[u] = displays[u]
      BY <1>2, <2>2
    <2> QED
      BY <1>4, <2>2, <2>3
  <1>15. CASE \/ \E w \in Windows : XSelectInput(t, w, TRUE) \/ XUnmapWindow(t, w) \/ XDestroyWindow(t, w)
              \/ XCloseDisplay(t)
    <2>1. UNCHANGED <<displays, asleep>>
      BY <1>15 DEF XSelectInput, XUnmapWindow, XDestroyWindow, XCloseDisplay, windowVars
    <2> QED
      BY <1>4, <2>1
  <1> QED
    BY <1>7, <1>8, <1>9, <1>10, <1>11, <1>12, <1>13, <1>14, <1>15 DEF WindowStep

-----------------------------------------------------------------------------
(* The sleepers of the idle hooks.                                         *)

\* A line: the tasks in it sleep, each in it once.  Where hooks edit the table, the idle task
\* can be in it too
InLine(line, c, sl) ==
    \A i \in 1 .. Len(line) : line[i] \in Tasks =>
        /\ line[i] \in sl /\ c[line[i]].op \in HookOps /\ c[line[i]].at = "find"
        /\ \A j \in 1 .. Len(line) : line[j] = line[i] => j = i

\* The line for the table of hooks
HookLine ==
    /\ idleSem \in [owner : Tasks \cup {NULL, IdleTask}, line : Seq(Tasks \cup {IdleTask})]
    /\ InLine(idleSem.line, call, asleep)

\* The task t, which is not in the line, does what it likes.
LEMMA LineStays ==
    ASSUME NEW line \in Seq(Tasks \cup {IdleTask}), NEW c, NEW sl, InLine(line, c, sl),
           NEW t \in Tasks, t \notin sl \/ c[t].op \notin HookOps,
           NEW c2, NEW sl2, \A u \in Tasks \ {t} : c2[u] = c[u] /\ (u \in sl => u \in sl2)
    PROVE  InLine(line, c2, sl2) /\ \A i \in 1 .. Len(line) : line[i] # t
  BY DEF InLine

\* It gets in line, ...
LEMMA LineJoined ==
    ASSUME NEW line \in Seq(Tasks \cup {IdleTask}), NEW c, NEW sl, InLine(line, c, sl),
           NEW t \in Tasks, t \notin sl \/ c[t].op \notin HookOps,
           NEW c2, NEW sl2, \A u \in Tasks \ {t} : c2[u] = c[u] /\ (u \in sl => u \in sl2),
           t \in sl2, c2[t].op \in HookOps, c2[t].at = "find"
    PROVE  InLine(Append(line, t), c2, sl2)
  <1>1. InLine(line, c2, sl2) /\ \A i \in 1 .. Len(line) : line[i] # t
    BY LineStays
  <1>2. PICK n \in Nat : n = Len(line)
    OBVIOUS
  <1>3. PICK r : r = Append(line, t)
    OBVIOUS
  <1>4. Len(r) = n + 1 /\ r[n + 1] = t /\ \A i \in 1 .. n : r[i] = line[i]
    BY <1>2, <1>3
  <1>5. ASSUME NEW i \in 1 .. n + 1, r[i] \in Tasks
        PROVE  /\ r[i] \in sl2 /\ c2[r[i]].op \in HookOps /\ c2[r[i]].at = "find"
               /\ \A j \in 1 .. n + 1 : r[j] = r[i] => j = i
    <2>1. CASE i = n + 1
      <3>1. \A j \in 1 .. n + 1 : j # n + 1 => j \in 1 .. n
        OBVIOUS
      <3> QED
        BY <1>1, <1>2, <1>4, <2>1, <3>1
    <2>2. CASE i \in 1 .. n
      <3>1. \A j \in 1 .. n + 1 : j # n + 1 => j \in 1 .. n
        OBVIOUS
      <3> QED
        BY <1>1, <1>2, <1>4, <1>5, <2>2, <3>1 DEF InLine
    <2> QED
      BY <2>1, <2>2
  <1> QED
    BY <1>3, <1>4, <1>5 DEF InLine

\* ... and the first of the line leaves it, awake.
LEMMA LineLed ==
    ASSUME NEW line \in Seq(Tasks \cup {IdleTask}), line # <<>>, NEW c, NEW sl, InLine(line, c, sl)
    PROVE  /\ Tail(line) \in Seq(Tasks \cup {IdleTask}) /\ InLine(Tail(line), c, sl \ {Head(line)})
           /\ Head(line) \in Tasks \cup {IdleTask}
           /\ Head(line) \in Tasks => Head(line) \in sl /\ c[Head(line)].op \in HookOps /\ c[Head(line)].at = "find"
           /\ Len(line) >= 1 /\ Head(line) = line[1]
           /\ Len(Tail(line)) = Len(line) - 1
           /\ \A i \in 1 .. Len(Tail(line)) : Tail(line)[i] = line[i + 1]
  <1>1. PICK n \in Nat : n = Len(line)
    OBVIOUS
  <1>2. PICK r, h : r = Tail(line) /\ h = Head(line)
    OBVIOUS
  <1>3. n >= 1 /\ Len(r) = n - 1 /\ h = line[1] /\ r \in Seq(Tasks \cup {IdleTask}) /\ \A i \in 1 .. n - 1 : r[i] = line[i + 1]
    BY <1>1, <1>2
  <1>4. ASSUME NEW i \in 1 .. n - 1, r[i] \in Tasks
        PROVE  /\ r[i] \in sl \ {h} /\ c[r[i]].op \in HookOps /\ c[r[i]].at = "find"
               /\ \A j \in 1 .. n - 1 : r[j] = r[i] => j = i
    <2>1. i + 1 \in 1 .. n /\ 1 \in 1 .. n /\ i + 1 # 1 /\ r[i] = line[i + 1]
      BY <1>3
    <2>2. /\ r[i] \in sl /\ c[r[i]].op \in HookOps /\ c[r[i]].at = "find"
          /\ \A j \in 1 .. n : line[j] = r[i] => j = i + 1
      BY <1>1, <1>4, <2>1 DEF InLine
    <2>3. \A j \in 1 .. n - 1 : j + 1 \in 1 .. n /\ (j + 1 = i + 1 => j = i)
      OBVIOUS
    <2>4. r[i] # h
      BY <1>3, <2>1, <2>2
    <2>5. \A j \in 1 .. n - 1 : r[j] = r[i] => j = i
      BY <1>3, <2>2, <2>3
    <2> QED
      BY <2>2, <2>4, <2>5
  <1>5. h \in Tasks => h \in sl /\ c[h].op \in HookOps /\ c[h].at = "find"
    BY <1>1, <1>3 DEF InLine
  <1>6. InLine(r, c, sl \ {h})
    BY <1>3, <1>4 DEF InLine
  <1> QED
    BY <1>1, <1>2, <1>3, <1>5, <1>6

\* putSemaphore(), by the idle task or by a task that is awake and goes on.
LEMMA PutsHookLine ==
    ASSUME HookLine, putIdleSem
    PROVE  /\ idleSem' \in [owner : Tasks \cup {NULL, IdleTask}, line : Seq(Tasks \cup {IdleTask})]
           /\ InLine(idleSem'.line, call, asleep')
           /\ asleep' \subseteq asleep
           /\ \A u \in asleep \cap Tasks : u \notin asleep' => call[u].op \in HookOps /\ call[u].at = "find" /\ idleSem'.owner = u
           /\ idleSem'.owner \in Tasks => idleSem'.owner \notin asleep' /\ call[idleSem'.owner].op \in HookOps
           /\ idleSem'.owner = NULL => idleSem'.line = <<>>
           /\ idleSem'.owner = IdleTask => \E i \in 1 .. Len(idleSem.line) : idleSem.line[i] = IdleTask
           /\ \A i \in 1 .. Len(idleSem'.line) : \E j \in 1 .. Len(idleSem.line) : idleSem'.line[i] = idleSem.line[j]
  <1>1. PICK line \in Seq(Tasks \cup {IdleTask}) : line = idleSem.line /\ InLine(line, call, asleep)
    BY DEF HookLine
  <1>2. CASE line = <<>>
    <2>1. idleSem' = [idleSem EXCEPT !.owner = NULL] /\ asleep' = asleep
      BY <1>1, <1>2 DEF putIdleSem
    <2>2. idleSem'.owner = NULL /\ idleSem'.line = line
          /\ idleSem' \in [owner : Tasks \cup {NULL, IdleTask}, line : Seq(Tasks \cup {IdleTask})]
      BY <1>1, <2>1 DEF HookLine
    <2>3. NULL \notin Tasks /\ NULL # IdleTask
      BY NoTask, HooksAssumption
    <2> QED
      BY <1>1, <1>2, <2>1, <2>2, <2>3
  <1>3. CASE line # <<>>
    <2>1. PICK h, r : h = Head(line) /\ r = Tail(line)
      OBVIOUS
    <2>2. idleSem' = [owner |-> h, line |-> r] /\ asleep' = asleep \ {h}
      BY <1>1, <1>3, <2>1 DEF putIdleSem, Resume
    <2>3. /\ r \in Seq(Tasks \cup {IdleTask}) /\ InLine(r, call, asleep \ {h}) /\ h \in Tasks \cup {IdleTask}
          /\ h \in Tasks => h \in asleep /\ call[h].op \in HookOps /\ call[h].at = "find"
          /\ Len(line) >= 1 /\ h = line[1] /\ Len(r) = Len(line) - 1
          /\ \A i \in 1 .. Len(r) : r[i] = line[i + 1]
      BY <1>1, <1>3, <2>1, LineLed
    <2>4. 1 \in 1 .. Len(line) /\ \A i \in 1 .. Len(r) : i + 1 \in 1 .. Len(line)
      BY <2>3
    <2>5. NULL \notin Tasks /\ NULL # IdleTask
      BY NoTask, HooksAssumption
    <2>6. idleSem'.owner = h /\ idleSem'.line = r
          /\ idleSem' \in [owner : Tasks \cup {NULL, IdleTask}, line : Seq(Tasks \cup {IdleTask})]
      BY <2>2, <2>3
    <2>7. \A i \in 1 .. Len(r) : \E j \in 1 .. Len(line) : r[i] = line[j]
      BY <2>3, <2>4
    <2>8. asleep' \subseteq asleep /\ InLine(r, call, asleep') /\ h \notin asleep'
      BY <2>2, <2>3
    <2>9. \A u \in asleep \cap Tasks : u \notin asleep' => call[u].op \in HookOps /\ call[u].at = "find" /\ h = u
      BY <2>2, <2>3
    <2>10. h = IdleTask => \E i \in 1 .. Len(line) : line[i] = IdleTask
      BY <2>3, <2>4
    <2>11. /\ \A i \in 1 .. Len(idleSem'.line) : \E j \in 1 .. Len(idleSem.line) : idleSem'.line[i] = idleSem.line[j]
           /\ InLine(idleSem'.line, call, asleep')
      BY <1>1, <2>6, <2>7, <2>8
    <2>12. /\ \A u \in asleep \cap Tasks : u \notin asleep' => call[u].op \in HookOps /\ call[u].at = "find" /\ idleSem'.owner = u
           /\ idleSem'.owner \in Tasks => idleSem'.owner \notin asleep' /\ call[idleSem'.owner].op \in HookOps
      BY <2>3, <2>6, <2>8, <2>9
    <2>13. /\ idleSem'.owner # NULL
           /\ idleSem'.owner = IdleTask => \E i \in 1 .. Len(idleSem.line) : idleSem.line[i] = IdleTask
      BY <1>1, <2>3, <2>5, <2>6, <2>10
    <2> QED
      BY <2>6, <2>8, <2>11, <2>12, <2>13
  <1> QED
    BY <1>2, <1>3

HookFrame(op, f) == [op |-> op, f |-> f, i |-> 0, at |-> "find", got |-> 0]

\* getSemaphore(): the task is the owner, or the last of the line.
LEMMA GetsHookLine ==
    ASSUME HookLine, DOMAIN call = Tasks, NEW t \in Tasks, Idle(t), NEW op \in HookOps, NEW f,
           getIdleSem(t, [op |-> op, f |-> f, i |-> 0, at |-> "get", got |-> 0])
    PROVE  /\ HookLine' /\ call'[t] = HookFrame(op, f) /\ \A u \in Tasks \ {t} : call'[u] = call[u]
           /\ \A u \in Tasks \ {t} : u \in asleep' <=> u \in asleep
           /\ \/ idleSem.owner = NULL /\ idleSem'.owner = t /\ idleSem'.line = idleSem.line
              \/ /\ idleSem.owner # NULL /\ idleSem'.owner = idleSem.owner /\ t \in asleep'
                 /\ idleSem'.line = Append(idleSem.line, t)
  <1>1. PICK g : g = HookFrame(op, f)
    OBVIOUS
  <1>2. g.op = op /\ g.at = "find"
    BY <1>1 DEF HookFrame
  <1>3. call' = [call EXCEPT ![t] = g]
    BY <1>1 DEF getIdleSem, Enter, HookFrame
  <1>4. call'[t] = g /\ \A u \in Tasks \ {t} : call'[u] = call[u]
    BY <1>3
  <1>5. PICK line \in Seq(Tasks \cup {IdleTask}) : line = idleSem.line /\ InLine(line, call, asleep)
    BY DEF HookLine
  <1>6. PICK c : c = call'
    OBVIOUS
  <1>7. c[t].op \in HookOps /\ c[t].at = "find" /\ \A u \in Tasks \ {t} : c[u] = call[u]
    BY <1>2, <1>4, <1>6
  <1>8. call[t].op \notin HookOps
    BY DEF Idle, HookOps
  <1>9. CASE idleSem.owner = NULL
    <2>1. idleSem' = [idleSem EXCEPT !.owner = t] /\ asleep' = asleep
      BY <1>9 DEF getIdleSem
    <2>2. idleSem'.owner = t /\ idleSem'.line = line
          /\ idleSem' \in [owner : Tasks \cup {NULL, IdleTask}, line : Seq(Tasks \cup {IdleTask})]
      BY <1>5, <2>1 DEF HookLine
    <2>3. InLine(line, c, asleep)
      BY <1>5, <1>7, <1>8, LineStays
    <2> QED
      BY <1>1, <1>4, <1>5, <1>6, <1>9, <2>1, <2>2, <2>3 DEF HookLine
  <1>10. CASE idleSem.owner # NULL
    <2>1. idleSem' = [idleSem EXCEPT !.line = Append(line, t)] /\ asleep' = asleep \cup {t}
      BY <1>5, <1>10 DEF getIdleSem
    <2>2. PICK r \in Seq(Tasks \cup {IdleTask}) : r = Append(line, t)
      <3>1. \A S : \A s \in Seq(S), e \in S : Append(s, e) \in Seq(S)
        OBVIOUS
      <3>2. t \in Tasks \cup {IdleTask}
        OBVIOUS
      <3>3. Append(line, t) \in Seq(Tasks \cup {IdleTask})
        BY <3>1, <3>2
      <3> QED
        BY <3>3
    <2>3. idleSem'.owner = idleSem.owner /\ idleSem'.line = r
          /\ idleSem' \in [owner : Tasks \cup {NULL, IdleTask}, line : Seq(Tasks \cup {IdleTask})]
      BY <2>1, <2>2 DEF HookLine
    <2>4. InLine(r, c, asleep')
      <3>1. PICK sl : sl = asleep'
        OBVIOUS
      <3>2. t \in sl /\ \A u \in Tasks \ {t} : u \in asleep => u \in sl
        BY <2>1, <3>1
      <3>3. InLine(Append(line, t), c, sl)
        BY <1>5, <1>7, <1>8, <3>2, LineJoined
      <3> QED
        BY <2>2, <3>1, <3>3
    <2> QED
      BY <1>1, <1>4, <1>5, <1>6, <1>10, <2>1, <2>2, <2>3, <2>4 DEF HookLine
  <1> QED
    BY <1>9, <1>10

\* The task goes on that gave the table back.
LEMMA PutsHookOn ==
    ASSUME HookLine, putIdleSem, DOMAIN call = Tasks, NEW t \in Tasks \ asleep,
           \A u \in Tasks \ {t} : call'[u] = call[u]
    PROVE  HookLine'
  <1>1. PICK c, sl, s2 : c = call' /\ sl = asleep' /\ s2 = idleSem'
    OBVIOUS
  <1>2. /\ s2 \in [owner : Tasks \cup {NULL, IdleTask}, line : Seq(Tasks \cup {IdleTask})]
        /\ InLine(s2.line, call, sl) /\ sl \subseteq asleep
    BY <1>1, PutsHookLine
  <1>3. PICK line \in Seq(Tasks \cup {IdleTask}) : line = s2.line
    BY <1>2
  <1>4. t \notin sl /\ \A u \in Tasks \ {t} : c[u] = call[u] /\ (u \in sl => u \in sl)
    BY <1>1, <1>2
  <1>5. InLine(line, c, sl)
    BY <1>2, <1>3, <1>4, LineStays
  <1> QED
    BY <1>1, <1>2, <1>3, <1>5 DEF HookLine

\* Of the hooks' calls, the one that has found its entry goes on with the table, or gives it back.
LEMMA HookCall ==
    ASSUME Ready, NEW t \in Tasks, hookFind(t) \/ hookStore(t)
    PROVE  /\ t \notin asleep /\ call[t].op \in HookOps /\ call[t].at \in {"find", "store"}
           /\ \A u \in Tasks \ {t} : call'[u] = call[u]
           /\ \/ putIdleSem /\ call'[t].op = "out"
              \/ /\ UNCHANGED <<idleSem, asleep>> /\ call'[t].op = call[t].op /\ call'[t].f = call[t].f
                 /\ call[t].at = "find" /\ call'[t].at = "store" /\ hookFind(t) /\ Wanted(t) # {}
                 /\ call'[t].i = CHOOSE i \in Wanted(t) : \A j \in Wanted(t) : i <= j
  <1>1. DOMAIN call = Tasks
    BY DEF Ready, CallsOK
  <1>2. t \notin asleep /\ call[t].op \in HookOps /\ call[t].at \in {"find", "store"}
    BY DEF hookFind, hookStore, Runs, HookOps
  <1>3. CASE \E value : Leave(t, value) /\ putIdleSem
    <2>0. PICK value : Leave(t, value)
      BY <1>3
    <2>3. PICK f : f = [op |-> "out", got |-> value]
      OBVIOUS
    <2>1. call' = [call EXCEPT ![t] = f] /\ f.op = "out"
      BY <2>0, <2>3 DEF Leave
    <2>2. call'[t] = f /\ \A u \in Tasks \ {t} : call'[u] = call[u]
      BY <1>1, <2>1
    <2> QED
      BY <1>2, <1>3, <2>1, <2>2
  <1>4. CASE hookFind(t) /\ Wanted(t) # {}
    <2>1. PICK k : k = CHOOSE i \in Wanted(t) : \A j \in Wanted(t) : i <= j
      OBVIOUS
    <2>2. call' = [call EXCEPT ![t].at = "store", ![t].i = k] /\ UNCHANGED <<idleSem, asleep>> /\ call[t].at = "find"
      BY <1>4, <2>1 DEF hookFind, Runs
    <2>3. PICK g : g = [call[t] EXCEPT !.at = "store", !.i = k]
      OBVIOUS
    <2>4. call'[t] = g /\ \A u \in Tasks \ {t} : call'[u] = call[u]
      BY <1>1, <2>2, <2>3
    <2>5. g.op = call[t].op /\ g.f = call[t].f /\ g.at = "store" /\ g.i = k
      BY <2>3
    <2> QED
      BY <1>2, <1>4, <2>1, <2>2, <2>4, <2>5
  <1> QED
    BY <1>3, <1>4 DEF hookFind, hookStore

\* Tasks sleep in the line for the table, and the one that gets the table awakes.
LEMMA HookSleeps ==
    ASSUME Ready, HookLine, IdleStep
    PROVE  Within(HookOps) /\ HookLine'
  <1>1. MovesOnly(HookOps)
    BY IdleMoves
  <1>2. DOMAIN call = Tasks
    BY DEF Ready, CallsOK
  <1>3. ASSUME HookLine', \A u \in Tasks : call[u].op \notin HookOps \cup {"out"} => (u \in asleep' <=> u \in asleep)
        PROVE  Within(HookOps) /\ HookLine'
    BY <1>1, <1>3 DEF Within
  <1>4. ASSUME putIdleSem
        PROVE  \A u \in Tasks : call[u].op \notin HookOps \cup {"out"} => (u \in asleep' <=> u \in asleep)
    BY <1>4, PutsHookLine
  <1>5. ASSUME NEW t \in Tasks, hookFind(t) \/ hookStore(t) PROVE Within(HookOps) /\ HookLine'
    <2>1. CASE putIdleSem
      BY <1>2, <1>3, <1>4, <1>5, <2>1, HookCall, PutsHookOn
    <2>2. CASE UNCHANGED <<idleSem, asleep>>
      <3>1. t \notin asleep /\ \A u \in Tasks \ {t} : call'[u] = call[u]
        BY <1>5, HookCall
      <3>2. PICK line \in Seq(Tasks \cup {IdleTask}) : line = idleSem.line /\ InLine(line, call, asleep)
        BY DEF HookLine
      <3>3. PICK c : c = call'
        OBVIOUS
      <3>4. InLine(line, c, asleep)
        BY <3>1, <3>2, <3>3, LineStays
      <3>5. HookLine'
        BY <2>2, <3>2, <3>3, <3>4 DEF HookLine
      <3> QED
        BY <1>3, <2>2, <3>5
    <2> QED
      BY <1>5, <2>1, <2>2, HookCall
  <1>6. ASSUME NEW t \in Tasks, NEW f, setIdleHook(t, f) \/ clearIdleHook(t, f) PROVE Within(HookOps) /\ HookLine'
    <2>0. Idle(t)
      BY <1>6 DEF setIdleHook, clearIdleHook
    <2>1. CASE Leave(t, -1) /\ UNCHANGED <<idleSem, asleep>>
      <3>1. \A u \in Tasks \ {t} : call'[u] = call[u]
        BY <1>2, <2>1 DEF Leave
      <3>2. PICK line \in Seq(Tasks \cup {IdleTask}) : line = idleSem.line /\ InLine(line, call, asleep)
        BY DEF HookLine
      <3>3. PICK c : c = call'
        OBVIOUS
      <3>4. InLine(line, c, asleep)
        BY <2>0, <3>1, <3>2, <3>3, LineStays DEF Idle, HookOps
      <3>5. HookLine'
        BY <2>1, <3>2, <3>3, <3>4 DEF HookLine
      <3> QED
        BY <1>3, <2>1, <3>5
    <2>2. ASSUME NEW op \in HookOps, getIdleSem(t, [op |-> op, f |-> f, i |-> 0, at |-> "get", got |-> 0])
          PROVE  Within(HookOps) /\ HookLine'
      <3>1. HookLine' /\ \A u \in Tasks \ {t} : u \in asleep' <=> u \in asleep
        BY <1>2, <2>0, <2>2, GetsHookLine
      <3> QED
        BY <1>3, <2>0, <3>1 DEF Idle
    <2> QED
      BY <1>6, <2>1, <2>2 DEF setIdleHook, clearIdleHook, HookOps
  <1>7. ASSUME call' = call, asleep' = asleep, idleSem' \in [owner : Tasks \cup {NULL, IdleTask}, line : Seq(Tasks \cup {IdleTask})],
               idleSem'.line = idleSem.line \/ idleSem'.line = Append(idleSem.line, IdleTask)
        PROVE  Within(HookOps) /\ HookLine'
    <2>1. PICK line \in Seq(Tasks \cup {IdleTask}) : line = idleSem.line /\ InLine(line, call, asleep)
      BY DEF HookLine
    <2>2. CASE idleSem'.line = line
      BY <1>3, <1>7, <2>1, <2>2 DEF HookLine
    <2>3. CASE idleSem'.line = Append(line, IdleTask)
      <3>0. PICK n \in Nat : n = Len(line)
        OBVIOUS
      <3>1. PICK r : r = Append(line, IdleTask)
        OBVIOUS
      <3>2. Len(r) = n + 1 /\ r[n + 1] = IdleTask /\ \A i \in 1 .. n : r[i] = line[i]
        BY <3>0, <3>1
      <3>3. \A i \in 1 .. n + 1 : r[i] \in Tasks => i \in 1 .. n
        BY <3>2, HooksAssumption
      <3>4. InLine(r, call, asleep)
        BY <2>1, <3>0, <3>2, <3>3 DEF InLine
      <3> QED
        BY <1>3, <1>7, <2>3, <3>1, <3>4 DEF HookLine
    <2> QED
      BY <1>7, <2>1, <2>2, <2>3
  <1>8. CASE idleGet
    <2>1. call' = call /\ asleep' = asleep /\ idleSem' = [idleSem EXCEPT !.owner = IdleTask]
      BY <1>8 DEF idleGet
    <2> QED
      BY <1>7, <2>1 DEF HookLine
  <1>9. CASE idleTest
    <2>1. call' = call /\ (putIdleSem \/ UNCHANGED <<idleSem, asleep>>)
      BY <1>9 DEF idleTest
    <2>2. CASE putIdleSem
      <3>1. HookLine'
        BY <2>1, <2>2, PutsHookLine DEF HookLine
      <3> QED
        BY <1>3, <1>4, <2>2, <3>1
    <2>3. CASE UNCHANGED <<idleSem, asleep>>
      BY <1>7, <2>1, <2>3 DEF HookLine
    <2> QED
      BY <2>1, <2>2, <2>3
  <1>10. CASE idleCall
    <2>1. /\ call' = call /\ asleep' = asleep
          /\ idleSem' = idleSem \/ idleSem' = [idleSem EXCEPT !.line = Append(@, IdleTask)]
      BY <1>10 DEF idleCall
    <2>2. PICK line \in Seq(Tasks \cup {IdleTask}) : line = idleSem.line
      BY DEF HookLine
    <2>3. Append(line, IdleTask) \in Seq(Tasks \cup {IdleTask})
      <3>1. \A S : \A s \in Seq(S), e \in S : Append(s, e) \in Seq(S)
        OBVIOUS
      <3>2. IdleTask \in Tasks \cup {IdleTask}
        OBVIOUS
      <3> QED
        BY <3>1, <3>2
    <2>4. CASE idleSem' = [idleSem EXCEPT !.line = Append(line, IdleTask)]
      <3>1. idleSem'.line = Append(line, IdleTask)
            /\ idleSem' \in [owner : Tasks \cup {NULL, IdleTask}, line : Seq(Tasks \cup {IdleTask})]
        BY <2>3, <2>4 DEF HookLine
      <3> QED
        BY <1>7, <2>1, <2>2, <3>1
    <2>5. CASE idleSem' = idleSem
      BY <1>7, <2>1, <2>5 DEF HookLine
    <2> QED
      BY <2>1, <2>2, <2>4, <2>5
  <1> QED
    BY <1>5, <1>6, <1>8, <1>9, <1>10, ApplicationTasks DEF IdleStep, HookStep

\* Steps of others leave the line alone.
LEMMA HookLineKept ==
    ASSUME HookLine, NEW ops, Within(ops), ops \cap HookOps = {}, UNCHANGED idleSem
    PROVE  HookLine'
  <1>1. PICK line \in Seq(Tasks \cup {IdleTask}) : line = idleSem.line /\ InLine(line, call, asleep)
    BY DEF HookLine
  <1>2. ASSUME NEW i \in 1 .. Len(line), line[i] \in Tasks
        PROVE  call'[line[i]] = call[line[i]] /\ line[i] \in asleep'
    <2>1. call[line[i]].op \in HookOps /\ line[i] \in asleep
      BY <1>1, <1>2 DEF InLine
    <2> QED
      BY <1>2, <2>1, OthersStay DEF HookOps
  <1>3. InLine(line, call', asleep')
    BY <1>1, <1>2 DEF InLine
  <1> QED
    BY <1>1, <1>3 DEF HookLine

-----------------------------------------------------------------------------
(* The table of idle hooks, where hooks do not edit it.                    *)

At(f) == {i \in HookEntries : idleHooks[i] = f}

\* The table, and who is in it
HooksTable ==
    /\ idleHooks \in [HookEntries -> Hooks \cup {NULL}]
    /\ hooked \in [Hooks -> Int]
    /\ \A f \in Hooks : Cardinality(At(f)) = hooked[f]

\* The idle task has the table as long as it goes round, and meets those that it has to call
HooksRound ==
    /\ idle \in [at : {"yield", "test", "call"}, i : 0 .. MaxIdleHooks]
    /\ idle.at = "call" => idle.i \in HookEntries /\ idleHooks[idle.i] # NULL
    /\ idleSem.owner = IdleTask <=> idle.at # "yield"
    /\ notRun \subseteq Hooks /\ (idle.at = "yield" => notRun = {})
    /\ \A f \in notRun : \E j \in HookEntries : idle.i <= j /\ idleHooks[j] = f

HookCallOK(t) ==
    /\ call[t].f \in Hooks \cup {NULL} /\ (call[t].op = "setIdleHook" => call[t].f # NULL)
    /\ t \notin asleep => idleSem.owner = t
    /\ call[t].at = "store" =>
            /\ t \notin asleep /\ call[t].i \in HookEntries
            /\ idleHooks[call[t].i] = IF call[t].op = "setIdleHook" THEN NULL ELSE call[t].f

\* A task that has not been put to sleep for the table has it
HooksCalled ==
    /\ idleSem.owner = NULL => idleSem.line = <<>>
    /\ \A i \in 1 .. Len(idleSem.line) : idleSem.line[i] \in Tasks
    /\ \A t \in Tasks : call[t].op \in HookOps => HookCallOK(t)

HooksHeld == HooksTable /\ HooksRound /\ HooksCalled

\* Whoever gives the table back, the next one has it or nobody.
LEMMA PutsHooks ==
    ASSUME HookLine, HooksCalled, putIdleSem, NEW t \in Tasks \cup {IdleTask}, idleSem.owner = t,
           \A u \in Tasks \ {t} : call'[u] = call[u], t \in Tasks => call'[t].op \notin HookOps
    PROVE  HooksCalled' /\ idleSem'.owner # IdleTask
  <1>1. /\ asleep' \subseteq asleep
        /\ \A u \in asleep \cap Tasks : u \notin asleep' => call[u].at = "find" /\ idleSem'.owner = u
        /\ idleSem'.owner = NULL => idleSem'.line = <<>>
        /\ idleSem'.owner = IdleTask => \E i \in 1 .. Len(idleSem.line) : idleSem.line[i] = IdleTask
        /\ \A i \in 1 .. Len(idleSem'.line) : \E j \in 1 .. Len(idleSem.line) : idleSem'.line[i] = idleSem.line[j]
    BY PutsHookLine
  <1>2. \A i \in 1 .. Len(idleSem.line) : idleSem.line[i] \in Tasks
    BY DEF HooksCalled
  <1>3. (\A i \in 1 .. Len(idleSem'.line) : idleSem'.line[i] \in Tasks) /\ idleSem'.owner # IdleTask
    BY <1>1, <1>2, HooksAssumption
  <1>4. ASSUME NEW u \in Tasks, call'[u].op \in HookOps PROVE HookCallOK(u)'
    <2>1. u # t /\ call'[u] = call[u]
      BY <1>4
    <2>2. HookCallOK(u)
      BY <1>4, <2>1 DEF HooksCalled
    <2>3. u \in asleep /\ call[u].at # "store"
      BY <2>1, <2>2 DEF HookCallOK
    <2>4. u \notin asleep' => idleSem'.owner = u
      BY <1>1, <2>3
    <2> QED
      BY <2>1, <2>2, <2>3, <2>4 DEF HookCallOK
  <1> QED
    BY <1>1, <1>3, <1>4 DEF HooksCalled

\* A call begins.
LEMMA GetsHooks ==
    ASSUME Ready, HookLine, HooksHeld, NEW t \in Tasks, NEW f \in Hooks \cup {NULL}, setIdleHook(t, f) \/ clearIdleHook(t, f)
    PROVE  HooksHeld'
  <1>1. DOMAIN call = Tasks /\ Idle(t) /\ UNCHANGED <<idleHooks, idle, hooked, notRun>>
    BY DEF Ready, CallsOK, setIdleHook, clearIdleHook
  <1>2. HooksTable'
    BY <1>1 DEF HooksHeld, HooksTable, At
  <1>3. CASE Leave(t, -1) /\ UNCHANGED <<idleSem, asleep>>
    <2>1. PICK c : c = [op |-> "out", got |-> -1]
      OBVIOUS
    <2>2. call' = [call EXCEPT ![t] = c] /\ c.op = "out"
      BY <1>3, <2>1 DEF Leave
    <2>3. call'[t].op = "out" /\ \A u \in Tasks \ {t} : call'[u] = call[u]
      BY <1>1, <2>2
    <2>4. \A u \in Tasks : call'[u].op \in HookOps => u # t /\ call'[u] = call[u]
      BY <2>3 DEF HookOps
    <2>5. HooksRound'
      BY <1>1, <1>3 DEF HooksHeld, HooksRound
    <2>6. HooksCalled'
      BY <1>1, <1>3, <2>4 DEF HooksHeld, HooksCalled, HookCallOK
    <2> QED
      BY <1>2, <2>5, <2>6 DEF HooksHeld
  <1>4. ASSUME NEW op \in HookOps, op = "setIdleHook" => f # NULL,
               getIdleSem(t, [op |-> op, f |-> f, i |-> 0, at |-> "get", got |-> 0])
        PROVE  HooksHeld'
    <2>1. /\ call'[t] = HookFrame(op, f) /\ \A u \in Tasks \ {t} : call'[u] = call[u]
          /\ \A u \in Tasks \ {t} : u \in asleep' <=> u \in asleep
          /\ \/ idleSem.owner = NULL /\ idleSem'.owner = t /\ idleSem'.line = idleSem.line
             \/ /\ idleSem.owner # NULL /\ idleSem'.owner = idleSem.owner /\ t \in asleep'
                /\ idleSem'.line = Append(idleSem.line, t)
      BY <1>1, <1>4, GetsHookLine
    <2>2. NULL \notin Tasks /\ NULL # IdleTask /\ IdleTask \notin Tasks
      BY NoTask, HooksAssumption
    <2>3. HooksRound'
      <3>1. idleSem'.owner = IdleTask <=> idleSem.owner = IdleTask
        BY <2>1, <2>2
      <3> QED
        BY <1>1, <3>1 DEF HooksHeld, HooksRound
    <2>4. idleSem'.owner # NULL /\ \A u \in Tasks : idleSem.owner = u => idleSem'.owner = u
      BY <2>1, <2>2
    <2>5. \A i \in 1 .. Len(idleSem'.line) : idleSem'.line[i] \in Tasks
      <3>1. PICK line \in Seq(Tasks \cup {IdleTask}) : line = idleSem.line
        BY DEF HookLine
      <3>2. \A i \in 1 .. Len(line) : line[i] \in Tasks
        BY <3>1 DEF HooksHeld, HooksCalled
      <3>3. CASE idleSem'.line = Append(line, t)
        <4>1. PICK r : r = Append(line, t)
          OBVIOUS
        <4>2. Len(r) = Len(line) + 1 /\ \A i \in 1 .. Len(line) + 1 : r[i] = IF i <= Len(line) THEN line[i] ELSE t
          BY <4>1
        <4>3. \A i \in 1 .. Len(line) + 1 : i <= Len(line) => i \in 1 .. Len(line)
          OBVIOUS
        <4> QED
          BY <3>2, <3>3, <4>1, <4>2, <4>3
      <3> QED
        BY <2>1, <3>1, <3>2, <3>3
    <2>6. HookCallOK(t)'
      <3>1. PICK g : g = HookFrame(op, f)
        OBVIOUS
      <3>2. g.op = op /\ g.f = f /\ g.at = "find"
        BY <3>1 DEF HookFrame
      <3>3. t \notin asleep' => idleSem'.owner = t
        BY <2>1
      <3> QED
        BY <1>4, <2>1, <3>1, <3>2, <3>3 DEF HookCallOK
    <2>7. ASSUME NEW u \in Tasks \ {t}, call'[u].op \in HookOps PROVE HookCallOK(u)'
      <3>1. call'[u] = call[u] /\ (u \in asleep' <=> u \in asleep)
        BY <2>1
      <3>2. HookCallOK(u)
        BY <2>7, <3>1 DEF HooksHeld, HooksCalled
      <3> QED
        BY <1>1, <2>4, <3>1, <3>2 DEF HookCallOK
    <2>8. HooksCalled'
      BY <2>4, <2>5, <2>6, <2>7 DEF HooksCalled
    <2> QED
      BY <1>2, <2>3, <2>8 DEF HooksHeld
  <1> QED
    BY <1>3, <1>4 DEF setIdleHook, clearIdleHook, HookOps

\* A call looks for its entry, and gives the table back if there is none.
LEMMA FindsHooks ==
    ASSUME Ready, HookLine, HooksHeld, NEW t \in Tasks, hookFind(t)
    PROVE  HooksHeld'
  <1>1. /\ t \notin asleep /\ call[t].op \in HookOps /\ \A u \in Tasks \ {t} : call'[u] = call[u]
        /\ UNCHANGED <<idleHooks, idle, hooked, notRun>>
    BY HookCall DEF hookFind
  <1>2. HooksTable'
    BY <1>1 DEF HooksHeld, HooksTable, At
  <1>3. HookCallOK(t) /\ idleSem.owner = t
    BY <1>1 DEF HooksHeld, HooksCalled, HookCallOK
  <1>4. CASE putIdleSem /\ call'[t].op = "out"
    <2>1. HooksCalled' /\ idleSem'.owner # IdleTask
      BY <1>1, <1>3, <1>4, PutsHooks DEF HooksHeld, HookOps
    <2>2. HooksRound'
      BY <1>1, <1>3, <2>1, HooksAssumption DEF HooksHeld, HooksRound
    <2> QED
      BY <1>2, <2>1, <2>2 DEF HooksHeld
  <1>5. CASE /\ UNCHANGED <<idleSem, asleep>> /\ call'[t].op = call[t].op /\ call'[t].f = call[t].f
             /\ call'[t].at = "store" /\ Wanted(t) # {}
             /\ call'[t].i = CHOOSE i \in Wanted(t) : \A j \in Wanted(t) : i <= j
    <2>1. call'[t].i \in Wanted(t)
      <3>1. Wanted(t) \subseteq Nat
        BY HooksAssumption DEF Wanted, HookEntries
      <3>2. \E i \in Wanted(t) : \A j \in Wanted(t) : ~(j < i)
        <4> DEFINE Less == OpToRel(<, Nat)
        <4>1. PICK i \in Wanted(t) : \A j \in Wanted(t) : <<j, i>> \notin Less
          BY <1>5, <3>1, NatLessThanWellFounded, WFMin, Zenon
        <4> QED
          BY <3>1, <4>1 DEF OpToRel
      <3>3. PICK i \in Wanted(t) : \A j \in Wanted(t) : i <= j
        BY <3>1, <3>2
      <3> QED
        BY <1>5, <3>3
    <2>2. /\ call'[t].i \in HookEntries
          /\ idleHooks[call'[t].i] = IF call[t].op = "setIdleHook" THEN NULL ELSE call[t].f
      BY <2>1 DEF Wanted
    <2>3. HookCallOK(t)'
      BY <1>1, <1>3, <1>5, <2>2 DEF HookCallOK
    <2>4. ASSUME NEW u \in Tasks \ {t}, call'[u].op \in HookOps PROVE HookCallOK(u)'
      <3>1. call'[u] = call[u]
        BY <1>1
      <3>2. HookCallOK(u)
        BY <2>4, <3>1 DEF HooksHeld, HooksCalled
      <3> QED
        BY <1>1, <1>5, <3>1, <3>2 DEF HookCallOK
    <2>5. HooksCalled'
      BY <1>5, <2>3, <2>4 DEF HooksHeld, HooksCalled
    <2>6. HooksRound'
      BY <1>1, <1>5 DEF HooksHeld, HooksRound
    <2> QED
      BY <1>2, <2>5, <2>6 DEF HooksHeld
  <1> QED
    BY <1>4, <1>5, HookCall

\* A call writes its entry.
LEMMA StoresHooks ==
    ASSUME Ready, HookLine, HooksHeld, NEW t \in Tasks, hookStore(t)
    PROVE  HooksHeld'
  <1>1. /\ t \notin asleep /\ call[t].op \in HookOps /\ \A u \in Tasks \ {t} : call'[u] = call[u]
        /\ call[t].at = "store"
    BY HookCall DEF hookStore, Runs
  <1>2. PICK f, k : f = call[t].f /\ k = call[t].i
    OBVIOUS
  <1>3. /\ HookCallOK(t) /\ idleSem.owner = t /\ f \in Hooks \cup {NULL} /\ k \in HookEntries
        /\ idleHooks[k] = (IF call[t].op = "setIdleHook" THEN NULL ELSE f) /\ (call[t].op = "setIdleHook" => f # NULL)
    BY <1>1, <1>2 DEF HooksHeld, HooksCalled, HookCallOK
  <1>4. putIdleSem /\ idle' = idle /\ call'[t].op = "out"
    <2>1. putIdleSem /\ idle' = idle
      BY DEF hookStore
    <2>2. \/ putIdleSem /\ call'[t].op = "out"
          \/ call[t].at = "find"
      BY HookCall
    <2> QED
      BY <1>1, <2>1, <2>2
  <1>5. HooksCalled' /\ idleSem'.owner # IdleTask
    BY <1>1, <1>3, <1>4, PutsHooks DEF HooksHeld, HookOps
  <1>6. HooksRound'
    <2>1. idle.at = "yield" /\ notRun = {}
      BY <1>3, HooksAssumption DEF HooksHeld, HooksRound
    <2>2. notRun' = {}
      BY <2>1 DEF hookStore
    <2> QED
      BY <1>4, <1>5, <2>1, <2>2 DEF HooksHeld, HooksRound
  <1>7. NULL \notin Hooks /\ DOMAIN idleHooks = HookEntries /\ DOMAIN hooked = Hooks
    BY HooksAssumption DEF HooksHeld, HooksTable
  <1>8. \A g \in Hooks : IsFiniteSet(At(g)) /\ Cardinality(At(g)) = hooked[g] /\ hooked[g] \in Int
    <2>1. IsFiniteSet(HookEntries)
      BY FS_Interval, HooksAssumption DEF HookEntries
    <2>2. \A g : At(g) \subseteq HookEntries
      BY DEF At
    <2> QED
      BY <2>1, <2>2, FS_Subset DEF HooksHeld, HooksTable
  <1>9. CASE call[t].op = "setIdleHook"
    <2>1. /\ idleHooks' = [idleHooks EXCEPT ![k] = f] /\ hooked' = [hooked EXCEPT ![f] = @ + 1]
          /\ f \in Hooks /\ idleHooks[k] = NULL
      BY <1>2, <1>3, <1>9 DEF hookStore
    <2>2. idleHooks' \in [HookEntries -> Hooks \cup {NULL}] /\ hooked' \in [Hooks -> Int]
      <3>1. idleHooks \in [HookEntries -> Hooks \cup {NULL}] /\ hooked \in [Hooks -> Int]
        BY DEF HooksHeld, HooksTable
      <3>2. idleHooks' \in [HookEntries -> Hooks \cup {NULL}]
        BY <1>3, <2>1, <3>1
      <3>3. PICK n \in Int : n = hooked[f] + 1
        BY <1>8, <2>1
      <3>4. hooked' = [hooked EXCEPT ![f] = n]
        BY <2>1, <3>3
      <3>5. hooked' \in [Hooks -> Int]
        BY <3>1, <3>4
      <3> QED
        BY <3>2, <3>5
    <2>3. \A i \in HookEntries : idleHooks'[i] = IF i = k THEN f ELSE idleHooks[i]
      BY <1>7, <2>1
    <2>4. At(f)' = At(f) \cup {k} /\ k \notin At(f) /\ \A g \in Hooks \ {f} : At(g)' = At(g)
      BY <1>3, <1>7, <2>1, <2>3 DEF At
    <2>5. Cardinality(At(f)') = hooked[f] + 1
      BY <1>8, <2>1, <2>4, FS_AddElement
    <2>6. hooked'[f] = hooked[f] + 1 /\ \A g \in Hooks \ {f} : hooked'[g] = hooked[g]
      BY <1>7, <2>1
    <2>7. \A g \in Hooks : Cardinality(At(g)') = hooked'[g]
      BY <1>8, <2>4, <2>5, <2>6
    <2> QED
      BY <1>5, <1>6, <2>2, <2>7 DEF HooksHeld, HooksTable
  <1>10. CASE call[t].op # "setIdleHook" /\ f \in Hooks
    <2>1. /\ idleHooks' = [idleHooks EXCEPT ![k] = NULL] /\ hooked' = [hooked EXCEPT ![f] = @ + -1]
          /\ idleHooks[k] = f
      BY <1>2, <1>3, <1>7, <1>10 DEF hookStore
    <2>2. idleHooks' \in [HookEntries -> Hooks \cup {NULL}] /\ hooked' \in [Hooks -> Int]
      <3>1. idleHooks \in [HookEntries -> Hooks \cup {NULL}] /\ hooked \in [Hooks -> Int]
        BY DEF HooksHeld, HooksTable
      <3>2. idleHooks' \in [HookEntries -> Hooks \cup {NULL}]
        BY <1>3, <2>1, <3>1
      <3>3. PICK n \in Int : n = hooked[f] + -1
        BY <1>8, <1>10, <2>1
      <3>4. hooked' = [hooked EXCEPT ![f] = n]
        BY <2>1, <3>3
      <3>5. hooked' \in [Hooks -> Int]
        BY <3>1, <3>4
      <3> QED
        BY <3>2, <3>5
    <2>3. \A i \in HookEntries : idleHooks'[i] = IF i = k THEN NULL ELSE idleHooks[i]
      BY <1>7, <2>1
    <2>4. At(f)' = At(f) \ {k} /\ k \in At(f) /\ \A g \in Hooks \ {f} : At(g)' = At(g)
      BY <1>3, <1>7, <1>10, <2>1, <2>3 DEF At
    <2>5. Cardinality(At(f)') = hooked[f] - 1
      BY <1>8, <1>10, <2>4, FS_RemoveElement
    <2>6. hooked'[f] = hooked[f] + -1 /\ hooked[f] \in Int /\ \A g \in Hooks \ {f} : hooked'[g] = hooked[g]
      BY <1>7, <1>8, <1>10, <2>1
    <2>7. \A g \in Hooks : Cardinality(At(g)') = hooked'[g]
      BY <1>8, <2>4, <2>5, <2>6
    <2> QED
      BY <1>5, <1>6, <2>2, <2>7 DEF HooksHeld, HooksTable
  <1>11. CASE f = NULL
    <2>1. idleHooks' = [idleHooks EXCEPT ![k] = NULL] /\ hooked' = hooked /\ idleHooks[k] = NULL
      BY <1>2, <1>3, <1>11 DEF hookStore
    <2>2. idleHooks' = idleHooks
      BY <1>3, <2>1 DEF HooksHeld, HooksTable
    <2>3. HooksTable'
      BY <2>1, <2>2 DEF HooksHeld, HooksTable, At
    <2> QED
      BY <1>5, <1>6, <2>3 DEF HooksHeld
  <1> QED
    BY <1>3, <1>9, <1>10, <1>11

\* The idle task begins its round, ...
LEMMA RoundBegins == ASSUME HookLine, HooksHeld, idleGet PROVE HooksHeld'
  <1>1. /\ idle.at = "yield" /\ idleSem.owner = NULL /\ idleSem' = [idleSem EXCEPT !.owner = IdleTask]
        /\ idle' = [at |-> "test", i |-> 0] /\ notRun' = {f \in Hooks : hooked[f] > 0}
        /\ UNCHANGED <<idleHooks, hooked, asleep, call>>
    BY DEF idleGet
  <1>2. HooksTable'
    BY <1>1 DEF HooksHeld, HooksTable, At
  <1>3. idleSem'.owner = IdleTask /\ idleSem'.line = idleSem.line
    BY <1>1 DEF HookLine
  <1>4. NULL \notin Tasks /\ NULL # IdleTask
    BY NoTask, HooksAssumption
  <1>5. HooksCalled'
    BY <1>1, <1>3, <1>4 DEF HooksHeld, HooksCalled, HookCallOK
  <1>6. idle'.at = "test" /\ idle'.i = 0
    BY <1>1
  <1>7. HooksRound'
    <2>1. ASSUME NEW f \in notRun' PROVE \E j \in HookEntries : 0 <= j /\ idleHooks'[j] = f
      <3>1. f \in Hooks /\ Cardinality(At(f)) > 0
        BY <1>1, <2>1 DEF HooksHeld, HooksTable
      <3>2. At(f) # {}
        BY <3>1, FS_EmptySet
      <3>3. \A j \in HookEntries : 0 <= j
        BY HooksAssumption DEF HookEntries
      <3> QED
        BY <1>1, <3>2, <3>3 DEF At
    <2>2. idle' \in [at : {"yield", "test", "call"}, i : 0 .. MaxIdleHooks]
      BY <1>1, HooksAssumption
    <2> QED
      BY <1>1, <1>3, <1>6, <2>1, <2>2 DEF HooksRound
  <1> QED
    BY <1>2, <1>5, <1>7 DEF HooksHeld

\* ... goes on with the next entry or ends its round, ...
LEMMA RoundTests == ASSUME HookLine, HooksHeld, idleTest PROVE HooksHeld'
  <1>1. idle.at = "test" /\ UNCHANGED <<idleHooks, hooked, notRun, call>>
    BY DEF idleTest
  <1>2. HooksTable'
    BY <1>1 DEF HooksHeld, HooksTable, At
  <1>3. idleSem.owner = IdleTask /\ idle.i \in 0 .. MaxIdleHooks /\ MaxIdleHooks \in Nat
    BY <1>1, HooksAssumption DEF HooksHeld, HooksRound
  <1>4. PICK n \in 0 .. MaxIdleHooks : n = idle.i
    BY <1>3
  <1>5. CASE n = MaxIdleHooks
    <2>1. idle' = [idle EXCEPT !.at = "yield"] /\ putIdleSem
      BY <1>4, <1>5 DEF idleTest
    <2>2. HooksCalled' /\ idleSem'.owner # IdleTask
      BY <1>1, <1>3, <2>1, PutsHooks, HooksAssumption DEF HooksHeld
    <2>3. notRun = {}
      <3>1. \A j \in HookEntries : ~(n <= j)
        BY <1>3, <1>5 DEF HookEntries
      <3> QED
        BY <1>4, <3>1 DEF HooksHeld, HooksRound
    <2>4. idle' \in [at : {"yield", "test", "call"}, i : 0 .. MaxIdleHooks] /\ idle'.at = "yield"
      BY <2>1 DEF HooksHeld, HooksRound
    <2>5. HooksRound'
      BY <1>1, <2>2, <2>3, <2>4 DEF HooksRound
    <2> QED
      BY <1>2, <2>2, <2>5 DEF HooksHeld
  <1>6. CASE n # MaxIdleHooks
    <2>1. UNCHANGED <<idleSem, asleep>>
      BY <1>4, <1>6 DEF idleTest
    <2>2. HooksCalled'
      BY <1>1, <2>1 DEF HooksHeld, HooksCalled, HookCallOK
    <2>3. n \in HookEntries /\ n + 1 \in 0 .. MaxIdleHooks /\ \A j \in HookEntries : n <= j /\ j # n => n + 1 <= j
      BY <1>3, <1>6 DEF HookEntries
    <2>4. CASE idleHooks[n] = NULL
      <3>1. idle' = [idle EXCEPT !.i = n + 1]
        BY <1>4, <1>6, <2>4 DEF idleTest
      <3>2. idle' \in [at : {"yield", "test", "call"}, i : 0 .. MaxIdleHooks] /\ idle'.at = "test" /\ idle'.i = n + 1
        BY <1>1, <2>3, <3>1 DEF HooksHeld, HooksRound
      <3>3. \A f \in notRun : \E j \in HookEntries : n + 1 <= j /\ idleHooks[j] = f
        <4>1. NULL \notin notRun
          BY HooksAssumption DEF HooksHeld, HooksRound
        <4> QED
          BY <1>4, <2>3, <2>4, <4>1 DEF HooksHeld, HooksRound
      <3>4. notRun \subseteq Hooks
        BY DEF HooksHeld, HooksRound
      <3>5. HooksRound'
        BY <1>1, <1>3, <2>1, <3>2, <3>3, <3>4 DEF HooksRound
      <3> QED
        BY <1>2, <2>2, <3>5 DEF HooksHeld
    <2>5. CASE idleHooks[n] # NULL
      <3>1. idle' = [idle EXCEPT !.at = "call"]
        BY <1>4, <1>6, <2>5 DEF idleTest
      <3>2. idle' \in [at : {"yield", "test", "call"}, i : 0 .. MaxIdleHooks] /\ idle'.at = "call" /\ idle'.i = n
        BY <1>4, <3>1 DEF HooksHeld, HooksRound
      <3>3. HooksRound'
        BY <1>1, <1>3, <1>4, <2>1, <2>3, <2>5, <3>2 DEF HooksHeld, HooksRound
      <3> QED
        BY <1>2, <2>2, <3>3 DEF HooksHeld
    <2> QED
      BY <2>4, <2>5
  <1> QED
    BY <1>5, <1>6

\* ... and calls one.
LEMMA RoundCalls == ASSUME ~HooksEdit, HookLine, HooksHeld, idleCall PROVE HooksHeld'
  <1>1. /\ idle.at = "call" /\ notRun' = notRun \ {idleHooks[idle.i]} /\ UNCHANGED <<idleHooks, hooked, asleep, call>>
        /\ idle' = [at |-> "test", i |-> idle.i + 1] /\ idleSem' = idleSem
    <2>1. HooksEdit = FALSE
      BY HooksAssumption, Zenon
    <2>2. \A edits \in {FALSE, HooksEdit} : edits = FALSE
      BY <2>1, Zenon
    <2>3. idle' = [at |-> "test", i |-> idle.i + 1] /\ idleSem' = idleSem
      BY <2>2 DEF idleCall
    <2> QED
      BY <2>3 DEF idleCall
  <1>2. HooksTable' /\ HooksCalled'
    BY <1>1 DEF HooksHeld, HooksTable, At, HooksCalled, HookCallOK
  <1>3. PICK n \in HookEntries : n = idle.i
    BY <1>1 DEF HooksHeld, HooksRound
  <1>4. n + 1 \in 0 .. MaxIdleHooks /\ \A j \in HookEntries : n <= j /\ j # n => n + 1 <= j
    BY HooksAssumption DEF HookEntries
  <1>5. idle' \in [at : {"yield", "test", "call"}, i : 0 .. MaxIdleHooks] /\ idle'.at = "test" /\ idle'.i = n + 1
    BY <1>1, <1>3, <1>4
  <1>6. ASSUME NEW f \in notRun' PROVE \E j \in HookEntries : n + 1 <= j /\ idleHooks[j] = f
    <2>1. f \in notRun /\ f # idleHooks[n]
      BY <1>1, <1>3, <1>6
    <2>2. PICK j \in HookEntries : n <= j /\ idleHooks[j] = f
      BY <1>3, <2>1 DEF HooksHeld, HooksRound
    <2> QED
      BY <1>4, <2>1, <2>2
  <1>7. notRun' \subseteq Hooks /\ (idleSem.owner = IdleTask)
    BY <1>1 DEF HooksHeld, HooksRound
  <1>8. HooksRound'
    BY <1>1, <1>5, <1>6, <1>7 DEF HooksRound
  <1> QED
    BY <1>2, <1>8 DEF HooksHeld

\* The other libraries leave the table and the hooks' calls alone.
LEMMA HooksAside ==
    ASSUME HooksHeld, NEW ops, Within(ops), ops \cap HookOps = {}, UNCHANGED hookVars
    PROVE  HooksHeld'
  <1>1. ASSUME NEW t \in Tasks, call'[t].op \in HookOps PROVE HookCallOK(t)'
    <2>1. call'[t] = call[t] /\ (t \in asleep' <=> t \in asleep)
      BY <1>1, OthersNew DEF HookOps
    <2>2. HookCallOK(t)
      BY <1>1, <2>1 DEF HooksHeld, HooksCalled
    <2> QED
      BY <2>1, <2>2 DEF HookCallOK, hookVars
  <1>2. HooksCalled'
    BY <1>1 DEF HooksHeld, HooksCalled, hookVars
  <1>3. HooksTable' /\ HooksRound'
    BY DEF HooksHeld, HooksTable, HooksRound, At, hookVars
  <1> QED
    BY <1>2, <1>3 DEF HooksHeld

-----------------------------------------------------------------------------
(* The lists of sleepers.                                                  *)

\* The blocks of the tasks T on device d are linked from h in some order; but on a
\* serial port there is at most one
Lined(d, h, nx, pv, T, several) ==
    \E s \in Seq(Tasks \X {d}) :
        IsList(s, h, nx, pv, NULL) /\ Elements(s) = T \X {d} /\ (several \/ Len(s) <= 1)

\* Nobody is in line.
LEMMA NoneLined ==
    ASSUME NEW d, NEW nx, NEW pv, NEW several PROVE Lined(d, NULL, nx, pv, {}, several)
  <1>1. PICK s : s = <<>>
    OBVIOUS
  <1>2. s \in Seq(Tasks \X {d}) /\ Len(s) = 0 /\ Elements(s) = {} \X {d}
    BY <1>1 DEF Elements
  <1>3. IsList(s, NULL, nx, pv, NULL)
    BY <1>2 DEF IsList, Forward, Backward
  <1>4. IsList(s, NULL, nx, pv, NULL) /\ Elements(s) = {} \X {d} /\ (several \/ Len(s) <= 1)
    BY <1>2, <1>3
  <1> QED
    BY ONLY <1>2, <1>4 DEF Lined

\* Links of other devices' blocks do not matter.
LEMMA SameLined ==
    ASSUME NEW d, NEW h, NEW nx, NEW pv, NEW T, NEW several, Lined(d, h, nx, pv, T, several),
           NEW nx2, NEW pv2, \A u \in Tasks : nx2[<<u, d>>] = nx[<<u, d>>] /\ pv2[<<u, d>>] = pv[<<u, d>>]
    PROVE  Lined(d, h, nx2, pv2, T, several)
  <1>1. PICK s \in Seq(Tasks \X {d}) :
           IsList(s, h, nx, pv, NULL) /\ Elements(s) = T \X {d} /\ (several \/ Len(s) <= 1)
    BY DEF Lined
  <1>2. \A b \in Tasks \X {d} : nx2[b] = nx[b] /\ pv2[b] = pv[b]
    OBVIOUS
  <1>3. \A i \in 1..Len(s) : s[i] \in Tasks \X {d}
    OBVIOUS
  <1>4. IsList(s, h, nx2, pv2, NULL)
    BY <1>1, <1>2, <1>3 DEF IsList, Forward, Backward
  <1> QED
    BY <1>1, <1>4 DEF Lined

\* A task gets in line, in front of the others.
LEMMA PushedLined ==
    ASSUME NEW d \in Ids, NEW h, NEW nx, NEW pv, NEW T, T \subseteq Tasks, NEW several, Lined(d, h, nx, pv, T, several),
           NEW t \in Tasks \ T, several \/ T = {}, NEW nx2, NEW pv2,
           \A u \in Tasks : nx2[<<u, d>>] = IF u = t THEN h ELSE nx[<<u, d>>],
           \A u \in Tasks : pv2[<<u, d>>] = IF u = t THEN NULL
                                            ELSE IF several /\ <<u, d>> = h THEN <<t, d>> ELSE pv[<<u, d>>]
    PROVE  Lined(d, <<t, d>>, nx2, pv2, T \cup {t}, several)
  <1> DEFINE S == Tasks \X {d}
  <1>1. PICK s \in Seq(S) : IsList(s, h, nx, pv, NULL) /\ Elements(s) = T \X {d} /\ (several \/ Len(s) <= 1)
    BY DEF Lined
  <1>2. NULL \notin S
    BY BlocksAssumption DEF Blocks
  <1>3. PICK b \in S : b = <<t, d>>
    OBVIOUS
  <1>4. b \notin Elements(s) /\ (T \cup {t}) \X {d} = Elements(s) \cup {b}
    BY <1>1, <1>3
  <1>5. nx2[b] = h /\ (\A u \in S \ {b} : nx2[u] = nx[u])
    BY <1>3
  <1>6. h \in Elements(s) \cup {NULL}
    BY <1>1, Neighbours
  <1>7. pv2[b] = NULL /\ \A u \in S \ {b, h} : pv2[u] = pv[u]
    BY <1>3
  <1>8. h # NULL => pv2[h] = b
    <2>1. SUFFICES ASSUME h # NULL PROVE pv2[h] = b
      OBVIOUS
    <2>2. h \in Elements(s) /\ several
      <3>1. h \in Elements(s)
        BY <1>6, <2>1
      <3>2. T # {}
        BY <1>1, <3>1
      <3> QED
        BY <3>1, <3>2
    <2>3. PICK u \in T : h = <<u, d>>
      BY <1>1, <2>2
    <2> QED
      BY <1>3, <2>2, <2>3
  <1>9. /\ <<b>> \o s \in Seq(S) /\ Elements(<<b>> \o s) = Elements(s) \cup {b}
        /\ IsList(<<b>> \o s, b, nx2, pv2, NULL)
    <2> HIDE DEF S
    <2> QED
      BY <1>1, <1>2, <1>4, <1>5, <1>7, <1>8, PushedList
  <1>10. several \/ Len(<<b>> \o s) <= 1
    <2>1. SUFFICES ASSUME T = {} PROVE Len(<<b>> \o s) <= 1
      OBVIOUS
    <2>2. Len(s) \in Nat /\ \A i \in 1..Len(s) : s[i] \in Elements(s)
      BY DEF Elements
    <2>3. Elements(s) = {}
      BY <1>1, <2>1
    <2>4. Len(s) = 0
      BY <2>2, <2>3
    <2>5. Len(<<b>> \o s) = 1 + Len(s)
      OBVIOUS
    <2> QED
      BY <2>4, <2>5
  <1> QED
    BY <1>3, <1>4, <1>9, <1>10 DEF Lined

\* t's block on device d is unlinked
Unlinks(d, t, h, nx, pv, h2, nx2, pv2) ==
    /\ \A u \in Tasks : nx2[<<u, d>>] = IF <<u, d>> = pv[<<t, d>>] THEN nx[<<t, d>>] ELSE nx[<<u, d>>]
    /\ \A u \in Tasks : pv2[<<u, d>>] = IF <<u, d>> = nx[<<t, d>>] THEN pv[<<t, d>>] ELSE pv[<<u, d>>]
    /\ h2 = IF pv[<<t, d>>] = NULL THEN nx[<<t, d>>] ELSE h

\* A task leaves the line.
LEMMA LeftLined ==
    ASSUME NEW d \in Ids, NEW h, NEW nx, NEW pv, NEW T, T \subseteq Tasks, NEW several, Lined(d, h, nx, pv, T, several),
           NEW t \in T, NEW nx2, NEW pv2, NEW h2, Unlinks(d, t, h, nx, pv, h2, nx2, pv2)
    PROVE  Lined(d, h2, nx2, pv2, T \ {t}, several)
  <1> DEFINE S == Tasks \X {d}
  <1>1. PICK s \in Seq(S) : IsList(s, h, nx, pv, NULL) /\ Elements(s) = T \X {d} /\ (several \/ Len(s) <= 1)
    BY DEF Lined
  <1>2. NULL \notin S
    BY BlocksAssumption DEF Blocks
  <1>3. PICK b \in S : b = <<t, d>>
    OBVIOUS
  <1>4. PICK k \in 1..Len(s) : s[k] = b
    BY <1>1, <1>3 DEF Elements
  <1>5. /\ \A u \in S : nx2[u] = IF u = pv[b] THEN nx[b] ELSE nx[u]
        /\ \A u \in S : pv2[u] = IF u = nx[b] THEN pv[b] ELSE pv[u]
    <2> SUFFICES ASSUME NEW u \in S
                 PROVE  nx2[u] = (IF u = pv[b] THEN nx[b] ELSE nx[u]) /\ pv2[u] = (IF u = nx[b] THEN pv[b] ELSE pv[u])
      OBVIOUS
    <2>1. PICK x \in Tasks : u = <<x, d>>
      OBVIOUS
    <2> QED
      BY <1>3, <2>1 DEF Unlinks
  <1>6. PICK r : r = Without(s, k)
    OBVIOUS
  <1>7. IsList(r, IF pv[b] # NULL THEN h ELSE nx[b], nx2, pv2, NULL)
    <2>1. /\ \A u \in S \ {s[k]} : nx2[u] = IF u = pv[s[k]] THEN nx[s[k]] ELSE nx[u]
          /\ \A u \in S \ {s[k]} : pv2[u] = IF u = nx[s[k]] THEN pv[s[k]] ELSE pv[u]
      BY <1>4, <1>5
    <2> HIDE DEF S
    <2>2. IsList(Without(s, k), IF pv[s[k]] # NULL THEN h ELSE nx[s[k]], nx2, pv2, NULL)
      BY <1>1, <1>2, <2>1, UnlinkedList
    <2> QED
      BY <1>4, <1>6, <2>2
  <1>8. r \in Seq(S) /\ Len(r) = Len(s) - 1 /\ Elements(r) = Elements(s) \ {b}
    <2>1. \A i, j \in 1..Len(s) : s[i] = s[j] => i = j
      BY <1>1 DEF IsList, Forward
    <2> HIDE DEF S
    <2> QED
      BY <1>4, <1>6, <2>1, WithoutElements
  <1>9. Elements(r) = (T \ {t}) \X {d}
    BY <1>1, <1>3, <1>8
  <1>10. several \/ Len(r) <= 1
    <2>1. Len(s) \in Nat
      OBVIOUS
    <2> QED
      BY <1>1, <1>8, <2>1
  <1>11. IsList(r, h2, nx2, pv2, NULL)
    BY <1>3, <1>7 DEF Unlinks
  <1> QED
    BY <1>8, <1>9, <1>10, <1>11 DEF Lined

\* A driver meets the blocks of those in line.
LEMMA LinedListed ==
    ASSUME NEW d \in Ids, NEW T, T \subseteq Tasks, NEW several, Lined(d, selList[d], snext, sprev, T, several)
    PROVE  Listed(d) = T \X {d} /\ Selectors(d) = T
  <1> DEFINE S == Tasks \X {d}
  <1>1. PICK s \in Seq(S) : Forward(s, selList[d], snext, NULL) /\ Elements(s) = T \X {d}
    BY DEF Lined, IsList
  <1>2. NULL \notin S /\ IsFiniteSet(Tasks)
    BY BlocksAssumption DEF Blocks
  <1>3. PICK N : N = Cardinality(Tasks)
    OBVIOUS
  <1>4. N \in Nat /\ Len(s) <= N
    <2>1. Cardinality(S) = N * 1 /\ IsFiniteSet(S) /\ N \in Nat
      <3>1. IsFiniteSet({d}) /\ Cardinality({d}) = 1
        BY FS_Singleton
      <3> QED
        BY <1>2, <1>3, <3>1, FS_Product, FS_CardinalityType
    <2>2. Len(s) <= Cardinality(S)
      <3> HIDE DEF S
      <3> QED
        BY <1>1, <2>1, FewElements DEF Forward
    <2> QED
      BY <2>1, <2>2
  <1>5. PICK h : h = selList[d]
    OBVIOUS
  <1>6. PICK f : f = [i \in 0..N |-> IF i < Len(s) THEN s[i + 1] ELSE NULL]
    OBVIOUS
  <1>7. (CHOOSE w : w = [i \in 0..N |-> IF i = 0 THEN h
                                        ELSE IF w[i-1] = NULL THEN NULL ELSE snext[w[i-1]]]) = f
    <2> HIDE DEF S
    <2>1. (CHOOSE w : w = [i \in 0..N |-> IF i = 0 THEN h
                                          ELSE IF w[i-1] = NULL THEN NULL ELSE snext[w[i-1]]])
          = [i \in 0..N |-> IF i < Len(s) THEN s[i + 1] ELSE NULL]
      BY <1>1, <1>2, <1>4, <1>5, OneWalk
    <2> QED
      BY ONLY <1>6, <2>1
  <1>8. Chain(h, N) = {f[i] : i \in 0..N} \ {NULL}
    BY <1>7 DEF Chain
  <1>9. {f[i] : i \in 0..N} \ {NULL} = Elements(s)
    <2>0. Len(s) \in Nat /\ \A i \in 1..Len(s) : s[i] # NULL
      BY <1>2
    <2>1. ASSUME NEW i \in 0..N, f[i] # NULL PROVE f[i] \in Elements(s)
      <3>1. i + 1 \in 1..Len(s) /\ f[i] = s[i + 1]
        BY <1>4, <1>6, <2>0, <2>1
      <3> QED
        BY <3>1 DEF Elements
    <2>2. ASSUME NEW j \in 1..Len(s) PROVE s[j] \in {f[i] : i \in 0..N} \ {NULL}
      <3>1. j - 1 \in 0..N /\ j - 1 < Len(s) /\ j - 1 + 1 = j
        BY <1>4, <2>0
      <3>2. f[j - 1] = s[j]
        BY <1>6, <3>1
      <3> QED
        BY <2>0, <3>1, <3>2
    <2> QED
      BY ONLY <2>1, <2>2 DEF Elements
  <1>10. Listed(d) = T \X {d}
    BY <1>1, <1>3, <1>5, <1>8, <1>9 DEF Listed
  <1>11. Selectors(d) = T
    <2>1. \A u \in T : <<u, d>> \in Listed(d) /\ <<u, d>>[1] = u
      BY <1>10
    <2>2. \A b \in Listed(d) : b[1] \in T
      BY <1>10
    <2> QED
      BY <2>1, <2>2 DEF Selectors
  <1> QED
    BY <1>10, <1>11

-----------------------------------------------------------------------------
(* Who sleeps, and what wakes them.                                        *)

\* The tasks in select() on device d
Sel(d) == {t \in Tasks : call[t].op = "select" /\ d \in call[t].on}

SelectFrames == [op : {"select"}, type : {"read", "write"}, on : SUBSET Ids, at : {"woken"}, got : Int]

\* What a driver finds on its lists: the tasks in select() on its devices, at most one of
\* them but on a serial port.  There is one mouse, and nobody selects on it while it goes
SelectLines ==
    /\ DOMAIN selList = Ids
    /\ \A d \in Ids : Lined(d, selList[d], snext, sprev, Sel(d), Serves(d, "serial"))
    /\ \A d \in Ids : Sel(d) # {} => Selectable(d)
    /\ \A d \in Ids : Serves(d, "mouse") => d = mouseTab /\ (~readTask => Sel(d) = {})
    /\ mouseAt \in {"open", "check", "byte"} => mouseTab \in Ids

\* ...who sleep until they are told of one of their devices
Selecting ==
    \A t \in Tasks : call[t].op = "select" => call[t] \in SelectFrames /\ (t \notin asleep => call[t].got \in call[t].on)

\* A port, a page or a display that keeps a task for its interrupt keeps one that sleeps for it
PortNotes ==
    /\ DOMAIN pendTask = Ports /\ DOMAIN pendWhy = Ports
    /\ \A p \in Ports : pendTask[p] # NULL =>
          /\ pendTask[p] \in Tasks \cap asleep /\ call[pendTask[p]].op \in SerialOps
          /\ call[pendTask[p]].port = p
          /\ pendWhy[p] = "read" => call[pendTask[p]].op = "serialRead" /\ call[pendTask[p]].at = "take"
          /\ pendWhy[p] # "read" => call[pendTask[p]].op = "serialWrite" /\ call[pendTask[p]].at = "woken"

PageNotes ==
    /\ DOMAIN keyTask = Pages /\ focusDev \in Pages
    /\ \A p \in Pages : keyTask[p] # NULL =>
          /\ keyTask[p] \in Tasks \cap asleep /\ call[keyTask[p]].op = "consoleRead"
          /\ call[keyTask[p]].page = p /\ call[keyTask[p]].at = "take"

\* The ports are left alone, ...
LEMMA PortsKept ==
    ASSUME PortNotes, NEW ops, Within(ops), ops \cap SerialOps = {}, UNCHANGED pendVars
    PROVE  PortNotes'
  <1>1. ASSUME NEW p \in Ports, pendTask[p] # NULL
        PROVE  call'[pendTask[p]] = call[pendTask[p]] /\ pendTask[p] \in asleep'
    <2>1. pendTask[p] \in Tasks /\ pendTask[p] \in asleep /\ call[pendTask[p]].op \in SerialOps
      BY <1>1 DEF PortNotes
    <2>2. call[pendTask[p]].op \notin ops \cup {"out"}
      BY <2>1 DEF SerialOps
    <2> QED
      BY <2>1, <2>2, OthersStay
  <1> QED
    BY <1>1 DEF PortNotes, pendVars

\* ... the pages, ...
LEMMA PagesKept ==
    ASSUME PageNotes, NEW ops, Within(ops), "consoleRead" \notin ops, UNCHANGED keyTask, focusDev' \in Pages
    PROVE  PageNotes'
  <1>1. ASSUME NEW p \in Pages, keyTask[p] # NULL
        PROVE  call'[keyTask[p]] = call[keyTask[p]] /\ keyTask[p] \in asleep'
    <2>1. keyTask[p] \in Tasks /\ keyTask[p] \in asleep /\ call[keyTask[p]].op = "consoleRead"
      BY <1>1 DEF PageNotes
    <2> QED
      BY <2>1, OthersStay
  <1> QED
    BY <1>1 DEF PageNotes

\* ... and the lists of the tasks that select.
LEMMA SelectKept ==
    ASSUME Selecting, NEW ops, Within(ops), "select" \notin ops
    PROVE  Selecting' /\ \A d \in Ids : Sel(d)' = Sel(d)
  <1>1. ASSUME NEW t \in Tasks, call[t].op = "select" \/ call'[t].op = "select"
        PROVE  call'[t] = call[t] /\ (t \in asleep' <=> t \in asleep)
    BY <1>1, OthersStay, OthersNew
  <1> QED
    BY <1>1 DEF Selecting, Sel

\* ... which say the same then.
LEMMA LinesKept ==
    ASSUME Selecting, SelectLines, NEW ops, Within(ops), "select" \notin ops,
           UNCHANGED <<devices, selectVars, mouseTab, readTask, mouseAt>>
    PROVE  SelectLines'
  <1>1. \A d \in Ids : Sel(d)' = Sel(d)
    BY SelectKept
  <1>2. ASSUME NEW d \in Ids PROVE Lined(d, selList[d], snext, sprev, Sel(d)', Serves(d, "serial"))
    BY <1>1 DEF SelectLines
  <1> QED
    BY <1>1, <1>2 DEF SelectLines, selectVars, Selectable, Serves, deviceError

\* An empty line has no head.
LEMMA EmptyLined ==
    ASSUME NEW d, NEW h, NEW nx, NEW pv, NEW several, Lined(d, h, nx, pv, {}, several)
    PROVE  h = NULL
  <1>1. PICK s \in Seq(Tasks \X {d}) : IsList(s, h, nx, pv, NULL) /\ Elements(s) = {}
    BY DEF Lined
  <1>2. Len(s) \in Nat /\ \A i \in 1..Len(s) : s[i] \in Elements(s)
    BY DEF Elements
  <1>3. Len(s) = 0
    BY <1>1, <1>2
  <1> QED
    BY <1>1, <1>3 DEF IsList, Forward

\* The lists stay, and so do the devices that somebody selects on.
LEMMA LinesStay ==
    ASSUME SelectLines, UNCHANGED <<snext, sprev>>, DOMAIN selList' = Ids,
           \A d \in Ids : Sel(d)' = Sel(d),
           \A d \in Ids : selList'[d] \in {selList[d], NULL},
           \A d \in Ids : Sel(d) # {} => selList'[d] = selList[d] /\ devices'[d] = devices[d],
           \A d \in Ids : Serves(d, "mouse")' => d = mouseTab' /\ (~readTask' => Sel(d) = {}),
           mouseAt' \in {"open", "check", "byte"} => mouseTab' \in Ids
    PROVE  SelectLines'
  <1>1. ASSUME NEW d \in Ids PROVE Lined(d, selList'[d], snext, sprev, Sel(d), Serves(d, "serial")')
    <2>1. Lined(d, selList[d], snext, sprev, Sel(d), Serves(d, "serial"))
      BY DEF SelectLines
    <2>2. CASE Sel(d) = {}
      <3>1. selList'[d] = NULL
        BY <2>1, <2>2, EmptyLined
      <3>2. \A several : Lined(d, NULL, snext, sprev, {}, several)
        BY NoneLined
      <3> QED
        BY <2>2, <3>1, <3>2
    <2>3. CASE Sel(d) # {}
      <3>1. selList'[d] = selList[d] /\ Serves(d, "serial")' = Serves(d, "serial")
        BY <2>3 DEF Serves, deviceError
      <3> QED
        BY <2>1, <3>1
    <2> QED
      BY <2>2, <2>3
  <1>2. ASSUME NEW d \in Ids, Sel(d) # {} PROVE Selectable(d)'
    <2>1. Selectable(d) /\ devices'[d] = devices[d]
      BY <1>2 DEF SelectLines
    <2> QED
      BY <2>1 DEF Selectable, Serves, deviceError
  <1> QED
    BY <1>1, <1>2 DEF SelectLines

\* Nothing that the lists say changes.
LEMMA SameLines ==
    ASSUME SelectLines, UNCHANGED <<devices, selectVars, mouseTab, readTask>>,
           \A d \in Ids : Sel(d)' = Sel(d),
           mouseAt' \in {"open", "check", "byte"} => mouseTab \in Ids
    PROVE  SelectLines'
  <1>1. ASSUME NEW d \in Ids, Serves(d, "mouse")'
        PROVE  d = mouseTab' /\ (~readTask' => Sel(d) = {})
    BY <1>1 DEF SelectLines, Serves, deviceError
  <1>2. DOMAIN selList' = Ids
    BY DEF SelectLines, selectVars
  <1> QED
    BY <1>1, <1>2, LinesStay DEF selectVars

\* What a driver finds on the list of a device.
LEMMA ListsSay ==
    ASSUME SelectLines, NEW d \in Ids
    PROVE  Listed(d) = Sel(d) \X {d} /\ Selectors(d) = Sel(d) /\ (Listed(d) = {} => Sel(d) = {})
  <1>1. Sel(d) \subseteq Tasks
    BY DEF Sel
  <1>2. PICK several : several = Serves(d, "serial")
    OBVIOUS
  <1>3. Lined(d, selList[d], snext, sprev, Sel(d), several)
    BY <1>2 DEF SelectLines
  <1>4. Listed(d) = Sel(d) \X {d} /\ Selectors(d) = Sel(d)
    BY <1>1, <1>3, LinedListed
  <1>5. ASSUME NEW t \in Sel(d) PROVE <<t, d>> \in Listed(d)
    BY <1>4
  <1> QED
    BY <1>4, <1>5

\* A driver wakes tasks: those in select() learn of its device, which is one of theirs.
LEMMA SelectorsWoken ==
    ASSUME Ready, Selecting, NEW ts, NEW d \in Ids, Notify(ts, d, call),
           \A t \in ts \cap Tasks : call[t].op = "select" => d \in call[t].on
    PROVE  /\ Selecting' /\ \A e \in Ids : Sel(e)' = Sel(e)
           /\ asleep' = asleep \ ts
           /\ \A t \in Tasks : call'[t].op = call[t].op /\ (call[t].op # "select" => call'[t] = call[t])
  <1>1. asleep' = asleep \ ts
    BY DEF Notify, Resume
  <1>2. ASSUME NEW t \in Tasks
        PROVE  /\ call'[t].op = call[t].op /\ (call[t].op # "select" => call'[t] = call[t])
               /\ call[t].op = "select" =>
                    /\ call'[t] \in SelectFrames /\ call'[t].on = call[t].on
                    /\ t \notin asleep' => call'[t].got \in call'[t].on
    <2>1. CASE t \in ts \cap asleep /\ call[t].op = "select"
      <3>1. call'[t] = [call[t] EXCEPT !.got = d]
        BY <2>1 DEF Notify
      <3>2. call[t] \in SelectFrames /\ d \in call[t].on
        BY <2>1 DEF Selecting
      <3>3. d \in Int
        BY DevsAssumption DEF Ids
      <3>4. call'[t] \in SelectFrames /\ call'[t].on = call[t].on /\ call'[t].got = d /\ call'[t].op = "select"
        BY <3>1, <3>2, <3>3 DEF SelectFrames
      <3> QED
        BY <2>1, <3>2, <3>4
    <2>2. CASE ~(t \in ts \cap asleep /\ call[t].op = "select")
      <3>1. call'[t] = call[t]
        BY <2>2 DEF Notify
      <3>2. call[t].op = "select" => (t \in asleep' <=> t \in asleep)
        BY <1>1, <2>2
      <3> QED
        BY <3>1, <3>2 DEF Selecting
    <2> QED
      BY <2>1, <2>2
  <1>3. Selecting'
    BY <1>2 DEF Selecting
  <1>4. \A e \in Ids : Sel(e)' = Sel(e)
    BY <1>2 DEF Sel
  <1> QED
    BY <1>1, <1>2, <1>3, <1>4

\* The task of the mouse is in read() on its port, or out of it
MouseReading ==
    /\ mouseAt \in {"none", "open", "check", "byte", "ended"} /\ (mouseAt # "byte" => Idle(MouseTask))
    /\ call[MouseTask].op = "serialRead" => call[MouseTask].port = MousePort

-----------------------------------------------------------------------------
(* The sleepers: the client calls.                                         *)

\* Another task than those that a port, a page or a display keeps goes on.
LEMMA NotesKept ==
    ASSUME PortNotes, PageNotes, DisplayNotes, NEW t \in Tasks, call[t].op \in {"out", "select"},
           \A u \in Tasks \ {t} : call'[u] = call[u] /\ (u \in asleep' <=> u \in asleep),
           UNCHANGED <<pendVars, keyTask, focusDev, displays>>
    PROVE  PortNotes' /\ PageNotes' /\ DisplayNotes'
  <1>1. ASSUME NEW u \in Tasks, call[u].op \in SerialOps \cup {"consoleRead", "event"}
        PROVE  call'[u] = call[u] /\ (u \in asleep' <=> u \in asleep)
    BY <1>1 DEF SerialOps
  <1>2. PortNotes'
    BY <1>1 DEF PortNotes, pendVars
  <1>3. PageNotes'
    BY <1>1 DEF PageNotes
  <1>4. DisplayNotes'
    BY <1>1 DEF DisplayNotes
  <1> QED
    BY <1>2, <1>3, <1>4

\* A task gets on the lists of the devices it selects on, ...
LEMMA SelectLinesIn ==
    ASSUME Ready, SelectLines, NEW t \in Tasks, Idle(t), NEW on \in SUBSET Ids, \A d \in on : Selectable(d), AloneOn(on),
           SelectOn(t, on), UNCHANGED <<devices, mouseTab, readTask, mouseAt>>,
           \A u \in Tasks \ {t} : call'[u] = call[u], call'[t].op = "select", call'[t].on = on
    PROVE  SelectLines'
  <1>1. \A d \in Ids : t \notin Sel(d) /\ Sel(d) \subseteq Tasks
    BY DEF Sel, Idle
  <1>2. \A d \in Ids : Sel(d)' = IF d \in on THEN Sel(d) \cup {t} ELSE Sel(d)
    BY <1>1 DEF Sel
  <1>3. \A d \in on : Serves(d, "serial") \/ Sel(d) = {}
    BY ListsSay DEF AloneOn
  <1>4. /\ DOMAIN selList' = Ids
        /\ \A d \in Ids : selList'[d] = IF d \in on THEN <<t, d>> ELSE selList[d]
        /\ \A u \in Tasks, d \in Ids : snext'[<<u, d>>] = IF u = t /\ d \in on THEN selList[d] ELSE snext[<<u, d>>]
        /\ \A u \in Tasks, d \in Ids :
            sprev'[<<u, d>>] = IF u = t /\ d \in on THEN NULL
                               ELSE IF d \in on /\ LinksBack(d) /\ <<u, d>> = selList[d] THEN <<t, d>>
                               ELSE sprev[<<u, d>>]
    <2>1. \A u \in Tasks, d \in Ids : <<u, d>> \in Blocks /\ <<u, d>>[1] = u /\ <<u, d>>[2] = d
      BY DEF Blocks
    <2>2. snext' = [b \in Blocks |-> IF b[1] = t /\ b[2] \in on THEN selList[b[2]] ELSE snext[b]]
      BY DEF SelectOn
    <2>3. sprev' = [b \in Blocks |->
                    IF b[1] = t /\ b[2] \in on THEN NULL
                    ELSE IF b[2] \in on /\ LinksBack(b[2]) /\ b = selList[b[2]] THEN <<t, b[2]>>
                    ELSE sprev[b]]
      BY DEF SelectOn
    <2>4. selList' = [d \in Ids |-> IF d \in on THEN <<t, d>> ELSE selList[d]]
      BY DEF SelectOn
    <2>5. \A u \in Tasks, d \in Ids : snext'[<<u, d>>] = IF u = t /\ d \in on THEN selList[d] ELSE snext[<<u, d>>]
      BY <2>1, <2>2, Zenon
    <2>6. \A u \in Tasks, d \in Ids :
            sprev'[<<u, d>>] = IF u = t /\ d \in on THEN NULL
                               ELSE IF d \in on /\ LinksBack(d) /\ <<u, d>> = selList[d] THEN <<t, d>>
                               ELSE sprev[<<u, d>>]
      BY <2>1, <2>3, Zenon
    <2> QED
      BY <2>4, <2>5, <2>6
  <1>5. ASSUME NEW d \in Ids PROVE Lined(d, selList'[d], snext', sprev', Sel(d)', Serves(d, "serial"))
    <2>1. PICK several, T, h, nx, pv, nx2, pv2 :
            several = Serves(d, "serial") /\ T = Sel(d) /\ h = selList[d] /\ nx = snext /\ pv = sprev /\ nx2 = snext' /\ pv2 = sprev'
      OBVIOUS
    <2>2. Lined(d, h, nx, pv, T, several)
      BY <2>1 DEF SelectLines
    <2>3. T \subseteq Tasks /\ t \in Tasks \ T
      BY <1>1, <2>1
    <2>4. CASE d \in on
      <3>1. several \/ T = {}
        BY <1>3, <2>1, <2>4
      <3>2. LinksBack(d) <=> several
        BY <2>1, <2>4 DEF LinksBack, Serves, Selectable
      <3>3. \A u \in Tasks : nx2[<<u, d>>] = IF u = t THEN h ELSE nx[<<u, d>>]
        BY <1>4, <2>1, <2>4
      <3>4. \A u \in Tasks : pv2[<<u, d>>] = IF u = t THEN NULL
                                            ELSE IF several /\ <<u, d>> = h THEN <<t, d>> ELSE pv[<<u, d>>]
        BY <1>4, <2>1, <2>4, <3>2
      <3>5. Lined(d, <<t, d>>, nx2, pv2, T \cup {t}, several)
        BY ONLY d \in Ids, <2>2, <2>3, <3>1, <3>3, <3>4, PushedLined
      <3> QED
        BY <1>2, <1>4, <2>1, <2>4, <3>5
    <2>5. CASE d \notin on
      <3>1. \A u \in Tasks : nx2[<<u, d>>] = nx[<<u, d>>] /\ pv2[<<u, d>>] = pv[<<u, d>>]
        BY <1>4, <2>1, <2>5
      <3>2. Lined(d, h, nx2, pv2, T, several)
        BY ONLY <2>2, <3>1, SameLined
      <3> QED
        BY <1>2, <1>4, <2>1, <2>5, <3>2
    <2> QED
      BY <2>4, <2>5
  <1>6. \A d \in Ids : Serves(d, "serial")' = Serves(d, "serial") /\ Serves(d, "mouse")' = Serves(d, "mouse") /\ Selectable(d)' = Selectable(d)
    BY DEF Serves, deviceError, Selectable
  <1>7. ASSUME NEW d \in Ids PROVE Sel(d)' # {} => Selectable(d)
    BY <1>2 DEF SelectLines
  <1>8. ASSUME NEW d \in Ids, Serves(d, "mouse") PROVE d = mouseTab' /\ (~readTask' => Sel(d)' = {})
    BY <1>2, <1>8 DEF SelectLines, AloneOn
  <1> QED
    BY <1>4, <1>5, <1>6, <1>7, <1>8 DEF SelectLines

\* ... and off them when it is awake again.
LEMMA SelectLinesOut ==
    ASSUME Ready, SelectLines, NEW t \in Tasks, NEW on \in SUBSET Ids, call[t].op = "select", call[t].on = on,
           Unselect(t, on), UNCHANGED <<devices, mouseTab, readTask, mouseAt>>,
           \A u \in Tasks \ {t} : call'[u] = call[u], call'[t].op = "out"
    PROVE  SelectLines'
  <1>1. \A d \in Ids : (t \in Sel(d) <=> d \in on) /\ Sel(d) \subseteq Tasks
    BY DEF Sel
  <1>2. \A d \in Ids : Sel(d)' = IF d \in on THEN Sel(d) \ {t} ELSE Sel(d)
    BY <1>1 DEF Sel
  <1>4. /\ DOMAIN selList' = Ids
        /\ \A d \in Ids : selList'[d] = IF d \in on /\ sprev[<<t, d>>] = NULL THEN snext[<<t, d>>] ELSE selList[d]
        /\ \A u \in Tasks, d \in Ids :
            snext'[<<u, d>>] = IF d \in on /\ <<u, d>> = sprev[<<t, d>>] THEN snext[<<t, d>>] ELSE snext[<<u, d>>]
        /\ \A u \in Tasks, d \in Ids :
            sprev'[<<u, d>>] = IF d \in on /\ <<u, d>> = snext[<<t, d>>] THEN sprev[<<t, d>>] ELSE sprev[<<u, d>>]
    <2>1. \A u \in Tasks, d \in Ids : <<u, d>> \in Blocks /\ <<u, d>>[2] = d
      BY DEF Blocks
    <2>2. snext' = [b \in Blocks |-> IF b[2] \in on /\ b = sprev[<<t, b[2]>>] THEN snext[<<t, b[2]>>] ELSE snext[b]]
      BY DEF Unselect
    <2>3. sprev' = [b \in Blocks |-> IF b[2] \in on /\ b = snext[<<t, b[2]>>] THEN sprev[<<t, b[2]>>] ELSE sprev[b]]
      BY DEF Unselect
    <2>4. selList' = [d \in Ids |-> IF d \in on /\ sprev[<<t, d>>] = NULL THEN snext[<<t, d>>] ELSE selList[d]]
      BY DEF Unselect
    <2>5. \A u \in Tasks, d \in Ids :
            snext'[<<u, d>>] = IF d \in on /\ <<u, d>> = sprev[<<t, d>>] THEN snext[<<t, d>>] ELSE snext[<<u, d>>]
      BY <2>1, <2>2, Zenon
    <2>6. \A u \in Tasks, d \in Ids :
            sprev'[<<u, d>>] = IF d \in on /\ <<u, d>> = snext[<<t, d>>] THEN sprev[<<t, d>>] ELSE sprev[<<u, d>>]
      BY <2>1, <2>3, Zenon
    <2> QED
      BY <2>4, <2>5, <2>6
  <1>5. ASSUME NEW d \in Ids PROVE Lined(d, selList'[d], snext', sprev', Sel(d)', Serves(d, "serial"))
    <2>1. PICK several, T, h, nx, pv, nx2, pv2, h2 :
            /\ several = Serves(d, "serial") /\ T = Sel(d) /\ h = selList[d] /\ nx = snext /\ pv = sprev
            /\ nx2 = snext' /\ pv2 = sprev' /\ h2 = selList'[d]
      OBVIOUS
    <2>2. Lined(d, h, nx, pv, T, several)
      BY <2>1 DEF SelectLines
    <2>3. T \subseteq Tasks
      BY <1>1, <2>1
    <2>4. CASE d \in on
      <3>1. t \in T
        BY <1>1, <2>1, <2>4
      <3>2. \A u \in Tasks : nx2[<<u, d>>] = IF <<u, d>> = pv[<<t, d>>] THEN nx[<<t, d>>] ELSE nx[<<u, d>>]
        BY <1>4, <2>1, <2>4
      <3>3. \A u \in Tasks : pv2[<<u, d>>] = IF <<u, d>> = nx[<<t, d>>] THEN pv[<<t, d>>] ELSE pv[<<u, d>>]
        BY <1>4, <2>1, <2>4
      <3>4. h2 = IF pv[<<t, d>>] = NULL THEN nx[<<t, d>>] ELSE h
        BY <1>4, <2>1, <2>4
      <3>6. Unlinks(d, t, h, nx, pv, h2, nx2, pv2)
        BY <3>2, <3>3, <3>4 DEF Unlinks
      <3>5. Lined(d, h2, nx2, pv2, T \ {t}, several)
        BY ONLY d \in Ids, <2>2, <2>3, <3>1, <3>6, LeftLined
      <3> QED
        BY <1>2, <2>1, <2>4, <3>5
    <2>5. CASE d \notin on
      <3>1. \A u \in Tasks : nx2[<<u, d>>] = nx[<<u, d>>] /\ pv2[<<u, d>>] = pv[<<u, d>>]
        BY <1>4, <2>1, <2>5
      <3>2. Lined(d, h, nx2, pv2, T, several)
        BY ONLY <2>2, <3>1, SameLined
      <3> QED
        BY <1>2, <1>4, <2>1, <2>5, <3>2
    <2> QED
      BY <2>4, <2>5
  <1>6. \A d \in Ids : Serves(d, "serial")' = Serves(d, "serial") /\ Serves(d, "mouse")' = Serves(d, "mouse") /\ Selectable(d)' = Selectable(d)
    BY DEF Serves, deviceError, Selectable
  <1>7. ASSUME NEW d \in Ids PROVE (Sel(d)' # {} => Selectable(d)) /\ (Sel(d) = {} => Sel(d)' = {})
    BY <1>2 DEF SelectLines
  <1>8. ASSUME NEW d \in Ids, Serves(d, "mouse") PROVE d = mouseTab' /\ (~readTask' => Sel(d)' = {})
    BY <1>7, <1>8 DEF SelectLines
  <1> QED
    BY <1>4, <1>5, <1>6, <1>7, <1>8 DEF SelectLines

\* A call that is not select() begins, or is over at once.
LEMMA CallBegins ==
    ASSUME NEW t \in Tasks \ {MouseTask}, Ready,
           \/ \E d \in Ids : \/ \E n \in 1 .. 2 : readDevice(t, d, n)
                             \/ writeDevice(t, d, 1)
                             \/ openDevice(t, d)
                             \/ ioctlDevice(t, d)
    PROVE  /\ Idle(t) /\ call'[t].op # "select" /\ \A u \in Tasks \ {t} : call'[u] = call[u]
           /\ UNCHANGED <<asleep, devices, selectVars, mouseTab, readTask, mouseAt, pendVars, keyTask, focusDev>>
  <1>1. Idle(t)
    BY ZenonT(60) DEF readDevice, serialRead, consoleRead, mouseRead, diskTransfer, writeDevice, serialWrite, consoleWrite,
           openDevice, diskOpen, ioctlDevice, serialIoctl, consoleIoctl, mouseIoctl
  <1>2. UNCHANGED <<asleep, devices, selectVars>>
    BY DEF readDevice, serialRead, consoleRead, mouseRead, diskTransfer, writeDevice, serialWrite, consoleWrite,
           openDevice, diskOpen, ioctlDevice, serialIoctl, consoleIoctl, mouseIoctl
  <1>3. UNCHANGED <<mouseTab, readTask, mouseAt>>
    BY ZenonT(60) DEF readDevice, serialRead, consoleRead, mouseRead, diskTransfer, writeDevice, serialWrite, consoleWrite,
           openDevice, diskOpen, ioctlDevice, serialIoctl, consoleIoctl, mouseIoctl, mouseVars, readerState
  <1>4. UNCHANGED pendVars
    BY DEF readDevice, serialRead, consoleRead, mouseRead, diskTransfer, writeDevice, serialWrite, consoleWrite,
           openDevice, diskOpen, ioctlDevice, serialIoctl, consoleIoctl, mouseIoctl, serialVars
  <1>5. UNCHANGED <<keyTask, focusDev>>
    BY ZenonT(60) DEF readDevice, serialRead, consoleRead, mouseRead, diskTransfer, writeDevice, serialWrite, consoleWrite,
           openDevice, diskOpen, ioctlDevice, serialIoctl, consoleIoctl, mouseIoctl, consoleVars
  <1>6. \/ call' = call
        \/ \E f : f.op # "select" /\ call' = [call EXCEPT ![t] = f]
    <2>1. ASSUME NEW d \in Ids, NEW n, readDevice(t, d, n) PROVE \E f : f.op # "select" /\ call' = [call EXCEPT ![t] = f]
      <3>1. \/ \E value : Leave(t, value)
            \/ Enter(t, [op |-> "serialRead", port |-> devices[d].unit, left |-> n, at |-> "test", got |-> 0])
            \/ Enter(t, [op |-> "consoleRead", page |-> devices[d].unit, size |-> n, cnt |-> 0, at |-> "test", got |-> 0])
            \/ Enter(t, [op |-> "disk", drive |-> devices[d].unit, size |-> n, cnt |-> 0, at |-> "get", got |-> 0])
        BY <2>1 DEF readDevice, serialRead, consoleRead, mouseRead, diskTransfer
      <3>2. \A value : [op |-> "out", got |-> value].op # "select"
        OBVIOUS
      <3> QED
        BY <3>1, <3>2 DEF Enter, Leave
    <2>2. ASSUME NEW d \in Ids, writeDevice(t, d, 1) \/ openDevice(t, d) \/ ioctlDevice(t, d)
          PROVE  \/ call' = call
                 \/ \E f : f.op # "select" /\ call' = [call EXCEPT ![t] = f]
      <3>1. \/ call' = call
            \/ Enter(t, [op |-> "serialWrite", port |-> devices[d].unit, left |-> 1, at |-> "test", got |-> 0])
            \/ Enter(t, [op |-> "diskOpen", drive |-> devices[d].unit, at |-> "get", got |-> 0])
        BY <2>2 DEF writeDevice, openDevice, ioctlDevice, serialWrite, consoleWrite, diskOpen, serialIoctl, consoleIoctl,
                    mouseIoctl
      <3> QED
        BY <3>1 DEF Enter
    <2> QED
      BY <2>1, <2>2
  <1>7. call'[t].op # "select" /\ \A u \in Tasks \ {t} : call'[u] = call[u]
    <2>1. DOMAIN call = Tasks /\ call[t].op = "out"
      BY <1>1 DEF Ready, CallsOK, Idle
    <2> QED
      BY <1>6, <2>1
  <1> QED
    BY <1>1, <1>2, <1>3, <1>4, <1>5, <1>7

\* The client calls: a task that selects may go to sleep.
LEMMA ClientSleeps ==
    ASSUME Ready, linked' = linked, SelectLines, Selecting, PortNotes, PageNotes, DisplayNotes, MouseReading, Client,
           UNCHANGED displays
    PROVE  /\ Within(DriverOps) /\ SelectLines' /\ Selecting' /\ MouseReading'
           /\ PortNotes' /\ PageNotes' /\ DisplayNotes'
  <1>1. PICK t \in Tasks \ {MouseTask} :
            \/ \E d \in Ids : \/ \E n \in 1 .. 2 : readDevice(t, d, n)
                              \/ writeDevice(t, d, 1)
                              \/ openDevice(t, d)
                              \/ ioctlDevice(t, d)
            \/ \E ds \in SUBSET Ids, type \in {"read", "write"} : select(t, type, ds)
            \/ selected(t)
    BY ApplicationTasks DEF Client
  <1>2. MovesOnly(DriverOps)
    BY ClientMoves
  <1>3. DOMAIN call = Tasks
    BY DEF Ready, CallsOK
  <1>4. ASSUME call[t].op \in {"out", "select"},
               \A u \in Tasks \ {t} : call'[u] = call[u] /\ (u \in asleep' <=> u \in asleep),
               UNCHANGED <<pendVars, keyTask, focusDev, mouseAt>>
        PROVE  Within(DriverOps) /\ MouseReading' /\ PortNotes' /\ PageNotes' /\ DisplayNotes'
    <2>1. call[t].op \in DriverOps \cup {"out"}
      BY <1>4 DEF DriverOps
    <2>2. Within(DriverOps)
      BY <1>2, <1>4, <2>1 DEF Within
    <2>3. call'[MouseTask] = call[MouseTask]
      BY <1>4, BytesAssumption
    <2>4. MouseReading'
      BY <1>4, <2>3 DEF MouseReading, Idle
    <2>5. PortNotes' /\ PageNotes' /\ DisplayNotes'
      BY <1>4, NotesKept
    <2> QED
      BY <2>2, <2>4, <2>5
  <1>5. ASSUME Idle(t), call'[t].op # "select", \A u \in Tasks \ {t} : call'[u] = call[u],
               UNCHANGED <<asleep, devices, selectVars, mouseTab, readTask, mouseAt, pendVars, keyTask, focusDev>>
        PROVE  /\ Within(DriverOps) /\ SelectLines' /\ Selecting' /\ MouseReading'
               /\ PortNotes' /\ PageNotes' /\ DisplayNotes'
    <2>1. call[t].op = "out"
      BY <1>5 DEF Idle
    <2>2. Within(DriverOps) /\ MouseReading' /\ PortNotes' /\ PageNotes' /\ DisplayNotes'
      BY <1>4, <1>5, <2>1
    <2>3. \A u \in Tasks : (call[u].op = "select" \/ call'[u].op = "select") => call'[u] = call[u]
      BY <1>5, <2>1
    <2>4. Selecting'
      BY <1>5, <2>3 DEF Selecting
    <2>5. \A d \in Ids : Sel(d)' = Sel(d)
      BY <2>3 DEF Sel
    <2>6. SelectLines'
      BY <1>5, <2>5, SameLines DEF SelectLines
    <2> QED
      BY <2>2, <2>4, <2>6
  <1>6. CASE \E d \in Ids : \/ \E n \in 1 .. 2 : readDevice(t, d, n)
                            \/ writeDevice(t, d, 1)
                            \/ openDevice(t, d)
                            \/ ioctlDevice(t, d)
    BY <1>5, <1>6, CallBegins
  <1>7. ASSUME NEW ds \in SUBSET Ids, NEW type \in {"read", "write"}, select(t, type, ds)
        PROVE  /\ Within(DriverOps) /\ SelectLines' /\ Selecting' /\ MouseReading'
               /\ PortNotes' /\ PageNotes' /\ DisplayNotes'
    <2>1. PICK on : on = {d \in ds : Selectable(d)}
      OBVIOUS
    <2>2. /\ on \subseteq Ids /\ (\A d \in on : Selectable(d)) /\ Idle(t) /\ AloneOn(on)
          /\ UNCHANGED <<devices, mouseTab, readTask, mouseAt, pendVars, keyTask, focusDev>>
      BY <1>7, <2>1 DEF select, mouseVars, readerState, serialVars, consoleVars
    <2>3. CASE Leave(t, 0) /\ UNCHANGED <<asleep, selectVars>>
      <3>1. call' = [call EXCEPT ![t] = [op |-> "out", got |-> 0]]
        BY <2>3 DEF Leave
      <3>2. call'[t].op # "select" /\ \A u \in Tasks \ {t} : call'[u] = call[u]
        BY <1>3, <3>1
      <3> QED
        BY <1>5, <2>2, <2>3, <3>2
    <2>4. CASE /\ SelectOn(t, on) /\ asleep' = asleep \cup {t}
               /\ Enter(t, [op |-> "select", type |-> type, on |-> on, at |-> "woken", got |-> 0])
      <3>1. PICK f : f = [op |-> "select", type |-> type, on |-> on, at |-> "woken", got |-> 0]
        OBVIOUS
      <3>2. call' = [call EXCEPT ![t] = f] /\ f \in SelectFrames /\ f.op = "select" /\ f.on = on
        BY <2>2, <2>4, <3>1 DEF Enter, SelectFrames
      <3>3. call'[t] = f /\ \A u \in Tasks \ {t} : call'[u] = call[u]
        BY <1>3, <3>2
      <3>4. SelectLines'
        BY <2>2, <2>4, <3>2, <3>3, SelectLinesIn
      <3>5. Selecting'
        BY <2>4, <3>2, <3>3 DEF Selecting
      <3>6. call[t].op \in {"out", "select"} /\ \A u \in Tasks \ {t} : call'[u] = call[u] /\ (u \in asleep' <=> u \in asleep)
        BY <2>2, <2>4, <3>3 DEF Idle
      <3> QED
        BY <1>4, <2>2, <3>4, <3>5, <3>6
    <2> QED
      BY <1>7, <2>1, <2>3, <2>4 DEF select
  <1>8. CASE selected(t)
    <2>1. PICK on : on = call[t].on
      OBVIOUS
    <2>2. /\ call[t].op = "select" /\ t \notin asleep /\ Unselect(t, on) /\ Leave(t, 0)
          /\ UNCHANGED <<asleep, devices, mouseTab, readTask, mouseAt, pendVars, keyTask, focusDev>>
      BY <1>8, <2>1 DEF selected, Runs, mouseVars, readerState, serialVars, consoleVars
    <2>3. on \in SUBSET Ids
      BY <2>1, <2>2 DEF Selecting, SelectFrames
    <2>4. call' = [call EXCEPT ![t] = [op |-> "out", got |-> 0]]
      BY <2>2 DEF Leave
    <2>5. call'[t].op = "out" /\ \A u \in Tasks \ {t} : call'[u] = call[u]
      BY <1>3, <2>4
    <2>6. SelectLines'
      BY <2>1, <2>2, <2>3, <2>5, SelectLinesOut
    <2>7. Selecting'
      BY <2>2, <2>5 DEF Selecting
    <2>8. \A u \in Tasks \ {t} : call'[u] = call[u] /\ (u \in asleep' <=> u \in asleep)
      BY <2>2, <2>5
    <2> QED
      BY <1>4, <2>2, <2>6, <2>7, <2>8
  <1> QED
    BY <1>1, <1>6, <1>7, <1>8

-----------------------------------------------------------------------------
(* Who sleeps in select().                                                 *)

\* Whoever sleeps in select() did so before, or found nothing to read
SleepersStay ==
    \A t \in Tasks : (t \in asleep' /\ call'[t].op = "select") =>
        \/ t \in asleep /\ call'[t] = call[t]
        \/ devices' = devices /\ (call'[t].type = "read" => \A d \in call'[t].on : ~Readable(d))

\* An entry of the device table stays, or is cleared, or was free and gets a device of drv
EntriesOf(drv) ==
    \A d \in Ids : devices'[d] \in {devices[d], NULL} \/ (devices[d] = NULL /\ devices'[d].drv = drv)

\* A step in none of those calls, or ...
LEMMA SleepersWithin ==
    ASSUME NEW ops, Within(ops), "select" \notin ops
    PROVE  SleepersStay
  <1>1. ASSUME NEW t \in Tasks, call'[t].op = "select" PROVE call'[t] = call[t] /\ (t \in asleep' <=> t \in asleep)
    BY <1>1, OthersNew
  <1> QED
    BY <1>1 DEF SleepersStay

\* ... one that wakes tasks.
LEMMA SleepersNotified ==
    ASSUME NEW ts, NEW d, Notify(ts, d, call)
    PROVE  SleepersStay
  <1>1. ASSUME NEW t \in Tasks, t \in asleep' PROVE t \in asleep /\ call'[t] = call[t]
    <2>1. t \in asleep /\ t \notin ts
      BY <1>1 DEF Notify, Resume
    <2> QED
      BY <2>1 DEF Notify
  <1> QED
    BY <1>1 DEF SleepersStay

\* A client call.
LEMMA ClientSleepers ==
    ASSUME Ready, Client
    PROVE  SleepersStay /\ devices' = devices
  <1>1. PICK t \in Tasks \ {MouseTask} :
            \/ \E d \in Ids : \/ \E n \in 1 .. 2 : readDevice(t, d, n)
                              \/ writeDevice(t, d, 1)
                              \/ openDevice(t, d)
                              \/ ioctlDevice(t, d)
            \/ \E ds \in SUBSET Ids, type \in {"read", "write"} : select(t, type, ds)
            \/ selected(t)
    BY ApplicationTasks DEF Client
  <1>2. DOMAIN call = Tasks
    BY DEF Ready, CallsOK
  <1>3. ASSUME call'[t].op # "select", \A u \in Tasks \ {t} : call'[u] = call[u], asleep' = asleep
        PROVE  SleepersStay
    BY <1>3 DEF SleepersStay
  <1>4. CASE \E d \in Ids : \/ \E n \in 1 .. 2 : readDevice(t, d, n)
                            \/ writeDevice(t, d, 1)
                            \/ openDevice(t, d)
                            \/ ioctlDevice(t, d)
    <2>1. call'[t].op # "select" /\ (\A u \in Tasks \ {t} : call'[u] = call[u]) /\ asleep' = asleep /\ devices' = devices
      BY <1>4, CallBegins
    <2> QED
      BY <1>3, <2>1
  <1>5. ASSUME NEW value, Leave(t, value) PROVE call'[t].op # "select" /\ \A u \in Tasks \ {t} : call'[u] = call[u]
    BY <1>2, <1>5 DEF Leave
  <1>6. CASE selected(t)
    <2>1. Leave(t, 0) /\ asleep' = asleep /\ devices' = devices
      BY <1>6 DEF selected
    <2> QED
      BY <1>3, <1>5, <2>1
  <1>7. ASSUME NEW ds \in SUBSET Ids, NEW type, select(t, type, ds) PROVE SleepersStay /\ devices' = devices
    <2>1. devices' = devices
      BY <1>7 DEF select
    <2>2. CASE Leave(t, 0) /\ asleep' = asleep
      BY <1>3, <1>5, <2>1, <2>2
    <2>3. CASE ~(Leave(t, 0) /\ asleep' = asleep)
      <3> DEFINE on == {d \in ds : Selectable(d)}
                 f == [op |-> "select", type |-> type, on |-> on, at |-> "woken", got |-> 0]
      <3>1. (type = "read" => \A d \in ds : ~Readable(d)) /\ asleep' = asleep \cup {t} /\ call' = [call EXCEPT ![t] = f]
        BY <1>7, <2>3 DEF select, Enter
      <3>2. call'[t].type = type /\ call'[t].on \subseteq ds
        BY <1>2, <3>1
      <3>3. \A u \in Tasks \ {t} : call'[u] = call[u]
        BY <1>2, <3>1
      <3> HIDE DEF on, f
      <3>4. SleepersStay
        BY <2>1, <3>1, <3>2, <3>3 DEF SleepersStay
      <3> QED
        BY <2>1, <3>4
    <2> QED
      BY <2>2, <2>3
  <1> QED
    BY <1>1, <1>4, <1>6, <1>7

-----------------------------------------------------------------------------
(* The events of the displays.                                             *)

\* A task that was woken for an event is to take it
EventMet(t) == IF Runs(t, "event", "take") THEN QueueSize ELSE 0

\* The slots of display d that hold an event
EventsIn(d) == {i \in 0 .. QueueSize - 1 : d.queue[i]}

\* Display d has the events between the ends of its ring, ...
EventRing(d, met) == HoldUpTo(QueueSize, EventsIn(d), d.tail, Fill(QueueSize, d.head, d.tail, met))

\* ...and no others, if the ends meet only when there is none
EventOnly(d, met) ==
    /\ d.head = d.tail => met = 0
    /\ HoldNoMore(QueueSize, EventsIn(d), d.tail, Fill(QueueSize, d.head, d.tail, met))

\* The events of task t, which sleeps only as long as it has none
EventAt(t) ==
    /\ call[t].op = "event" => call[t].at = "take"
    /\ displays[t] = NULL => t \notin lapped11
    /\ displays[t] # NULL => EventRing(displays[t], EventMet(t)) /\ (t \notin lapped11 => EventOnly(displays[t], EventMet(t)))
    /\ (call[t].op = "event" /\ t \in asleep) => displays[t].head = displays[t].tail /\ displays[t].pending = t

\* What is in the rings of the displays, and who waits for it
EventInv == \A t \in Tasks : EventAt(t)

\* Nothing happens to the events of t.
LEMMA EventStays ==
    ASSUME NEW t \in Tasks, EventAt(t),
           (call[t].op = "event" \/ call'[t].op = "event") => (call'[t] = call[t] /\ (t \in asleep' <=> t \in asleep)),
           t \in lapped11' <=> t \in lapped11,
           \/ displays'[t] = displays[t]
           \/ /\ displays[t] # NULL /\ displays'[t] # NULL
              /\ \A f \in {"head", "tail", "queue", "pending"} : displays'[t][f] = displays[t][f]
    PROVE  EventAt(t)'
  <1>1. EventMet(t)' = EventMet(t)
    BY DEF EventMet, Runs
  <1>2. /\ displays[t] = NULL <=> displays'[t] = NULL
        /\ displays[t] # NULL => /\ displays'[t].head = displays[t].head /\ displays'[t].tail = displays[t].tail
                                 /\ displays'[t].queue = displays[t].queue /\ displays'[t].pending = displays[t].pending
    OBVIOUS
  <1>3. PICK d : d = displays[t]
    OBVIOUS
  <1>4. PICK e : e = displays'[t]
    OBVIOUS
  <1>5. PICK met : met = EventMet(t)
    OBVIOUS
  <1>6. d # NULL => (EventRing(e, met) <=> EventRing(d, met)) /\ (EventOnly(e, met) <=> EventOnly(d, met))
    BY <1>2, <1>3, <1>4 DEF EventRing, EventOnly, EventsIn
  <1>7. displays[t] # NULL => EventRing(d, met) /\ (t \notin lapped11 => EventOnly(d, met))
    BY <1>3, <1>5 DEF EventAt
  <1>8. displays'[t] # NULL => EventRing(displays'[t], EventMet(t)') /\ (t \notin lapped11' => EventOnly(displays'[t], EventMet(t)'))
    BY <1>1, <1>2, <1>3, <1>4, <1>5, <1>6, <1>7
  <1>9. call'[t].op = "event" => call'[t].at = "take"
    BY DEF EventAt
  <1>10. displays'[t] = NULL => t \notin lapped11'
    BY <1>2 DEF EventAt
  <1>11. (call'[t].op = "event" /\ t \in asleep') => displays'[t].head = displays'[t].tail /\ displays'[t].pending = t
    <2>1. ASSUME call'[t].op = "event", t \in asleep' PROVE displays'[t].head = displays'[t].tail /\ displays'[t].pending = t
      <3>1. call[t].op = "event" /\ t \in asleep
        BY <2>1
      <3>2. d.head = d.tail /\ d.pending = t
        BY <1>3, <3>1 DEF EventAt
      <3> QED
        BY <1>2, <1>3, <3>2
    <2> QED
      BY <2>1
  <1> QED
    BY <1>8, <1>9, <1>10, <1>11 DEF EventAt

\* An event for task t.
LEMMA EventCame ==
    ASSUME NEW t \in Tasks, EventAt(t), NEW d \in Displays, displays[t] = d, displays'[t] = Queued(d),
           lapped11' = IF (d.head + 1) % QueueSize = d.tail THEN lapped11 \cup {t} ELSE lapped11,
           asleep' = asleep \ {d.pending},
           (call[t].op = "event" \/ call'[t].op = "event") => call'[t] = call[t]
    PROVE  EventAt(t)'
  <1>1. QueueSize \in Nat /\ QueueSize > 0
    BY XAssumption
  <1>2. PICK n \in Nat : n = QueueSize /\ n > 0
    BY <1>1
  <1>3. PICK h \in 0 .. n - 1 : h = d.head
    BY <1>2 DEF Displays
  <1>4. PICK tl \in 0 .. n - 1 : tl = d.tail
    BY <1>2 DEF Displays
  <1>5. PICK S : S = EventsIn(d)
    OBVIOUS
  <1>6. PICK met \in {0, n} : met = EventMet(t)
    BY <1>2 DEF EventMet
  <1>7. PICK any \in {0, n} : any = EventMet(t)'
    BY <1>2 DEF EventMet
  <1>8. PICK e \in Displays : e = Queued(d)
    BY EventTyped
  <1>9. e.head = (h + 1) % n /\ e.tail = tl /\ EventsIn(e) = S \cup {h} /\ e # NULL /\ d # NULL
    <2>1. e.head = (h + 1) % n /\ e.tail = tl /\ \A i \in 0 .. n - 1 : e.queue[i] <=> (i = h \/ d.queue[i])
      BY <1>2, <1>3, <1>4, <1>8 DEF Queued, Displays
    <2>2. e # NULL /\ d # NULL
      BY NoInfo
    <2> QED
      BY <1>2, <1>3, <1>5, <2>1, <2>2 DEF EventsIn
  <1>10. EventRing(d, met) /\ (t \notin lapped11 => EventOnly(d, met))
    BY <1>6, <1>9 DEF EventAt
  <1>11. HoldUpTo(n, S, tl, Fill(n, h, tl, met))
    BY <1>2, <1>3, <1>4, <1>5, <1>10 DEF EventRing
  <1>12. /\ HoldUpTo(n, S \cup {h}, tl, Fill(n, (h + 1) % n, tl, any))
         /\ (HoldNoMore(n, S, tl, Fill(n, h, tl, met)) /\ (h = tl => met = 0) /\ (h + 1) % n # tl) =>
                HoldNoMore(n, S \cup {h}, tl, Fill(n, (h + 1) % n, tl, any))
    BY <1>2, <1>11, EventStored
  <1>13. EventRing(e, any)
    BY <1>2, <1>9, <1>12 DEF EventRing
  <1>14. ASSUME t \notin lapped11' PROVE EventOnly(e, any)
    <2>1. t \notin lapped11 /\ (h + 1) % n # tl
      BY <1>2, <1>3, <1>4, <1>14
    <2>2. HoldNoMore(n, S, tl, Fill(n, h, tl, met)) /\ (h = tl => met = 0)
      BY <1>2, <1>3, <1>4, <1>5, <1>10, <2>1 DEF EventOnly
    <2> QED
      BY <1>2, <1>9, <1>12, <2>1, <2>2 DEF EventOnly
  <1>15. displays'[t] # NULL => EventRing(displays'[t], EventMet(t)') /\ (t \notin lapped11' => EventOnly(displays'[t], EventMet(t)'))
    BY <1>7, <1>8, <1>13, <1>14
  <1>16. call'[t].op = "event" => call'[t].at = "take"
    BY DEF EventAt
  <1>17. ~(call'[t].op = "event" /\ t \in asleep')
    <2>1. ASSUME call'[t].op = "event", t \in asleep' PROVE FALSE
      <3>1. call[t].op = "event" /\ t \in asleep
        BY <2>1
      <3>2. d.pending = t
        BY <3>1 DEF EventAt
      <3> QED
        BY <2>1, <3>2
    <2> QED
      BY <2>1
  <1>18. displays'[t] # NULL
    BY <1>8, <1>9
  <1> QED
    BY <1>15, <1>16, <1>17, <1>18 DEF EventAt

\* Task t takes an event: there is one.
LEMMA EventGone ==
    ASSUME NEW t \in Tasks, EventAt(t), NEW d \in Displays, displays[t] = d,
           Runs(t, "event", "take") \/ (Idle(t) /\ d.head # d.tail),
           displays'[t] = Taken(t, d), lapped11' = lapped11, call'[t].op # "event"
    PROVE  EventAt(t)' /\ d.queue[d.tail]
  <1>1. QueueSize \in Nat /\ QueueSize > 0
    BY XAssumption
  <1>2. PICK n \in Nat : n = QueueSize /\ n > 0
    BY <1>1
  <1>3. PICK h \in 0 .. n - 1 : h = d.head
    BY <1>2 DEF Displays
  <1>4. PICK tl \in 0 .. n - 1 : tl = d.tail
    BY <1>2 DEF Displays
  <1>5. PICK S : S = EventsIn(d)
    OBVIOUS
  <1>6. PICK met \in {0, n} : met = EventMet(t)
    BY <1>2 DEF EventMet
  <1>7. EventMet(t)' = 0
    BY DEF EventMet, Runs
  <1>8. PICK e \in Displays : e = Taken(t, d)
    BY EventTyped
  <1>9. e.head = h /\ e.tail = (tl + 1) % n /\ EventsIn(e) = S \ {tl} /\ e # NULL /\ d # NULL
    <2>1. e.head = h /\ e.tail = (tl + 1) % n /\ \A i \in 0 .. n - 1 : e.queue[i] <=> (i # tl /\ d.queue[i])
      BY <1>2, <1>3, <1>4, <1>8 DEF Taken, Displays
    <2>2. e # NULL /\ d # NULL
      BY NoInfo
    <2> QED
      BY <1>2, <1>4, <1>5, <2>1, <2>2 DEF EventsIn
  <1>10. EventRing(d, met) /\ (t \notin lapped11 => EventOnly(d, met))
    BY <1>6, <1>9 DEF EventAt
  <1>11. Fill(n, h, tl, met) = Fill(n, h, tl, n)
    <2>1. CASE h # tl
      BY <2>1, FillsApart
    <2>2. CASE h = tl
      <3>1. Runs(t, "event", "take")
        BY <1>3, <1>4, <2>2
      <3>2. met = n
        BY <1>2, <1>6, <3>1 DEF EventMet
      <3> QED
        BY <3>2
    <2> QED
      BY <2>1, <2>2
  <1>12. HoldUpTo(n, S, tl, Fill(n, h, tl, n))
    BY <1>2, <1>3, <1>4, <1>5, <1>10, <1>11 DEF EventRing
  <1>13. /\ tl \in S
         /\ HoldUpTo(n, S \ {tl}, (tl + 1) % n, Fill(n, h, (tl + 1) % n, 0))
         /\ (HoldNoMore(n, S, tl, Fill(n, h, tl, n)) /\ h # tl) =>
                HoldNoMore(n, S \ {tl}, (tl + 1) % n, Fill(n, h, (tl + 1) % n, 0))
    BY <1>2, <1>12, EventTaken
  <1>14. EventRing(e, 0)
    BY <1>2, <1>9, <1>13 DEF EventRing
  <1>15. ASSUME t \notin lapped11 PROVE EventOnly(e, 0)
    <2>1. HoldNoMore(n, S, tl, Fill(n, h, tl, n)) /\ (h = tl => met = 0)
      BY <1>2, <1>3, <1>4, <1>5, <1>10, <1>11, <1>15 DEF EventOnly
    <2>2. h # tl
      <3>1. ASSUME h = tl PROVE FALSE
        <4>1. Runs(t, "event", "take")
          BY <1>3, <1>4, <3>1
        <4>2. met = n
          BY <1>2, <1>6, <4>1 DEF EventMet
        <4> QED
          BY <1>2, <2>1, <3>1, <4>2
      <3> QED
        BY <3>1
    <2> QED
      BY <1>2, <1>9, <1>13, <2>1, <2>2 DEF EventOnly
  <1>16. displays'[t] # NULL /\ EventRing(displays'[t], EventMet(t)') /\ (t \notin lapped11' => EventOnly(displays'[t], EventMet(t)'))
    BY <1>7, <1>8, <1>9, <1>14, <1>15
  <1>17. d.queue[d.tail]
    BY <1>4, <1>5, <1>13 DEF EventsIn
  <1> QED
    BY <1>16, <1>17 DEF EventAt

\* It goes to sleep for one.
LEMMA EventAwaited ==
    ASSUME NEW t \in Tasks, EventAt(t), NEW d \in Displays, displays[t] = d, Idle(t), d.head = d.tail,
           displays'[t] = [d EXCEPT !.pending = t], lapped11' = lapped11, t \in asleep',
           call'[t] = [op |-> "event", at |-> "take", got |-> 0]
    PROVE  EventAt(t)'
  <1>1. EventMet(t) = 0 /\ EventMet(t)' = 0
    BY DEF EventMet, Runs, Idle
  <1>2. PICK e \in Displays : e = [d EXCEPT !.pending = t]
    BY DEF Displays
  <1>3. e.head = d.head /\ e.tail = d.tail /\ e.queue = d.queue /\ e.pending = t /\ e # NULL /\ d # NULL
    BY <1>2, NoInfo DEF Displays
  <1>4. EventRing(d, 0) /\ (t \notin lapped11 => EventOnly(d, 0))
    BY <1>1, <1>3 DEF EventAt
  <1>5. EventRing(e, 0) /\ (t \notin lapped11 => EventOnly(e, 0))
    BY <1>3, <1>4 DEF EventRing, EventOnly, EventsIn
  <1>6. EventRing(displays'[t], EventMet(t)') /\ (t \notin lapped11' => EventOnly(displays'[t], EventMet(t)'))
    BY <1>1, <1>2, <1>5
  <1>7. displays'[t] # NULL /\ displays'[t].head = displays'[t].tail /\ displays'[t].pending = t
    BY <1>2, <1>3
  <1> QED
    BY <1>6, <1>7 DEF EventAt

\* It opens a display, on which there are none.
LEMMA EventOpened ==
    ASSUME NEW t \in Tasks, EventAt(t), displays[t] = NULL, call'[t].op # "event", lapped11' = lapped11,
           displays'[t] = [windows |-> NULL, head |-> 0, tail |-> 0, pending |-> NULL,
                           queue |-> [i \in 0 .. QueueSize - 1 |-> FALSE]]
    PROVE  EventAt(t)'
  <1>1. PICK n \in Nat : n = QueueSize /\ n > 0
    BY XAssumption
  <1>2. PICK d : d = [windows |-> NULL, head |-> 0, tail |-> 0, pending |-> NULL,
                      queue |-> [i \in 0 .. QueueSize - 1 |-> FALSE]]
    OBVIOUS
  <1>3. d.head = 0 /\ d.tail = 0 /\ EventsIn(d) = {}
    BY <1>2 DEF EventsIn
  <1>4. d \in Displays
    BY <1>1, <1>2 DEF Displays
  <1>5. Fill(n, 0, 0, 0) = 0 /\ 0 \in 0 .. n - 1
    BY <1>1 DEF Fill
  <1>6. \A i \in 0 .. n - 1 : Ahead(n, 0, i) \in 0 .. n - 1
    BY <1>1, <1>5, AheadIs
  <1>7. EventRing(d, 0) /\ EventOnly(d, 0)
    BY <1>1, <1>3, <1>5, <1>6 DEF EventRing, EventOnly, HoldUpTo, HoldNoMore
  <1>8. EventMet(t)' = 0
    BY DEF EventMet, Runs
  <1> QED
    BY <1>2, <1>4, <1>7, <1>8, NoInfo DEF EventAt

\* Only XNextEvent() waits for events.
LEMMA OtherWindowCalls ==
    ASSUME WindowsInv, NEW t \in Tasks, WindowStep(t), ~XNextEvent(t), ~eventTake(t)
    PROVE  call[t].op # "event" /\ call'[t].op # "event"
  <1>0. DOMAIN call = Tasks
    BY DEF WindowsInv, Ready, CallsOK
  <1>1. CASE \/ \E w \in Windows : XMapWindow(t, w) \/ XSelectInput(t, w, TRUE) \/ XSendEvent(t, w)
             \/ \E w \in Windows : \E parent, area : XCreateSimpleWindow(t, w, parent, area)
             \/ XOpenDisplay(t)
    <2>1. Idle(t) /\ Leave(t, 0)
      BY <1>1, Zenon DEF XMapWindow, XSelectInput, XSendEvent, XCreateSimpleWindow, XOpenDisplay
    <2> QED
      BY <1>0, <2>1 DEF Idle, Leave, Out
  <1>2. CASE walk(t)
    <2>1. call[t].op \in {"unmap", "destroy", "close"}
      BY <1>2 DEF walk, Unmapping
    <2>2. PICK c : c = call[t]
      OBVIOUS
    <2>3. PICK x : call'[t] = Out \/ call'[t] = [c EXCEPT !.np = x]
      BY <1>0, <1>2, <2>2 DEF walk
    <2>4. c \in XFrames
      BY <2>1, <2>2 DEF WindowsInv, CallSound
    <2>5. PICK e : e = [c EXCEPT !.np = x]
      OBVIOUS
    <2>6. e.op = c.op /\ (call'[t] = Out \/ call'[t] = e)
      BY <2>3, <2>4, <2>5 DEF XFrames
    <2> QED
      BY <2>1, <2>2, <2>6 DEF Out
  <1>3. ASSUME NEW c, c.op \in {"unmap", "destroy", "close"}, \A np : [c EXCEPT !.np = np].op = c.op,
               Enter(t, c) \/ Unmap(t, c) \/ Destroy(t, c) \/ Leave(t, 0)
        PROVE  call'[t].op # "event"
    <2>1. CASE Enter(t, c)
      BY <1>0, <1>3, <2>1 DEF Enter
    <2>2. CASE Leave(t, 0)
      BY <1>0, <2>2 DEF Leave
    <2>3. ASSUME Unmap(t, c) PROVE call'[t].op # "event"
      <3>1. Leave(t, 0) \/ \E np : call' = [call EXCEPT ![t] = [c EXCEPT !.np = np]]
        BY <2>3 DEF Unmap, Enter
      <3> QED
        BY <1>0, <1>3, <2>2, <3>1
    <2>4. CASE Destroy(t, c)
      BY <2>1, <2>3, <2>4 DEF Destroy
    <2> QED
      BY <1>3, <2>1, <2>2, <2>3, <2>4
  <1>4. CASE destroyUnhook(t) \/ closeNext(t)
    <2>1. PICK c : c = call[t]
      OBVIOUS
    <2>2. c.op \in {"unmap", "destroy", "close"}
      BY <1>4, <2>1 DEF destroyUnhook, closeNext, Unmapping
    <2>3. c \in XFrames
      BY <2>1, <2>2 DEF WindowsInv, CallSound
    <2>4. Leave(t, 0) \/ (\E v : Enter(t, [c EXCEPT !.win = v, !.at = "next"]))
                      \/ (\E v : Destroy(t, [c EXCEPT !.tmp = v, !.at = "walk"]))
      BY <1>4, <2>1, Zenon DEF destroyUnhook, closeNext
    <2>5. CASE Leave(t, 0)
      BY <1>0, <2>1, <2>2, <2>5 DEF Leave
    <2>6. ASSUME NEW w, Enter(t, [c EXCEPT !.win = w, !.at = "next"]) PROVE call'[t].op # "event"
      <3>1. PICK e : e = [c EXCEPT !.win = w, !.at = "next"]
        OBVIOUS
      <3>2. e.op = c.op
        BY <2>3, <3>1 DEF XFrames
      <3> QED
        BY <1>0, <2>2, <2>6, <3>1, <3>2 DEF Enter
    <2>7. ASSUME NEW v, Destroy(t, [c EXCEPT !.tmp = v, !.at = "walk"]) PROVE call'[t].op # "event"
      <3>1. PICK e : e = [c EXCEPT !.tmp = v, !.at = "walk"]
        OBVIOUS
      <3>2. e.op = c.op /\ \A np : [e EXCEPT !.np = np].op = e.op
        BY <2>3, <3>1 DEF XFrames
      <3>3. Destroy(t, e)
        BY <2>7, <3>1
      <3> QED
        BY <1>3, <2>2, <3>2, <3>3
    <2> QED
      BY <2>1, <2>2, <2>4, <2>5, <2>6, <2>7, Zenon
  <1>5. CASE \/ \E w \in Windows : XUnmapWindow(t, w) \/ XDestroyWindow(t, w)
             \/ XCloseDisplay(t)
    <2>1. Idle(t) /\ \/ \E op \in {"unmap", "destroy"} : \E w : Unmap(t, Frame(op, w)) \/ Destroy(t, Frame(op, w))
                     \/ \E w : Enter(t, [Frame("close", w) EXCEPT !.at = "next"])
      BY <1>5 DEF XUnmapWindow, XDestroyWindow, XCloseDisplay
    <2>2. \A op, w : Frame(op, w).op = op /\ \A np : [Frame(op, w) EXCEPT !.np = np].op = Frame(op, w).op
      BY DEF Frame
    <2>3. \A w : [Frame("close", w) EXCEPT !.at = "next"].op = "close"
      BY DEF Frame
    <2>4. ASSUME NEW w, Enter(t, [Frame("close", w) EXCEPT !.at = "next"]) PROVE call'[t].op # "event"
      BY <1>0, <2>3, <2>4 DEF Enter
    <2>5. ASSUME NEW op \in {"unmap", "destroy"}, NEW w, Unmap(t, Frame(op, w)) \/ Destroy(t, Frame(op, w))
          PROVE  call'[t].op # "event"
      <3>1. PICK e : e = Frame(op, w)
        OBVIOUS
      <3>2. e.op = op /\ \A np : [e EXCEPT !.np = np].op = e.op
        BY <2>2, <3>1
      <3> QED
        BY <1>3, <2>5, <3>1, <3>2
    <2> QED
      BY <2>1, <2>4, <2>5 DEF Idle
  <1> QED
    BY <1>1, <1>2, <1>4, <1>5 DEF WindowStep

\* The steps with windows.
LEMMA WindowEvents ==
    ASSUME WindowsInv, DisplayNotes, EventInv, NEW t \in Tasks, WindowStep(t)
    PROVE  EventInv'
  <1>1. /\ \A u \in Tasks \ {t} : call'[u] = call[u]
        /\ Ready /\ Structure(windows, topWin, displays) /\ displays \in [Tasks -> Displays \cup {NULL}]
        /\ DOMAIN call = Tasks
    BY WindowCaller DEF WindowsInv, Structure, Ready, CallsOK
  <1>2. \A u \in Tasks : EventAt(u)
    BY DEF EventInv
  <1>3. CASE XNextEvent(t) \/ eventTake(t)
    <2>1. displays[t] # NULL /\ lapped11' = lapped11
      BY <1>3 DEF XNextEvent, eventTake, Runs, WindowsInv, CallSound
    <2>2. PICK d \in Displays : d = displays[t]
      BY <1>1, <2>1
    <2>3. CASE XNextEvent(t) /\ d.head = d.tail
      <3>1. /\ Idle(t) /\ displays' = [displays EXCEPT ![t].pending = t] /\ asleep' = asleep \cup {t}
            /\ call' = [call EXCEPT ![t] = [op |-> "event", at |-> "take", got |-> 0]]
        BY <2>2, <2>3 DEF XNextEvent, Enter
      <3>2. /\ displays'[t] = [d EXCEPT !.pending = t] /\ call'[t] = [op |-> "event", at |-> "take", got |-> 0]
            /\ t \in asleep'
            /\ \A u \in Tasks \ {t} : displays'[u] = displays[u] /\ (u \in asleep' <=> u \in asleep)
        BY <1>1, <2>2, <3>1
      <3>3. EventAt(t)'
        BY <1>2, <2>1, <2>2, <2>3, <3>1, <3>2, EventAwaited
      <3>4. \A u \in Tasks \ {t} : EventAt(u)'
        BY <1>1, <1>2, <2>1, <3>2, EventStays
      <3> QED
        BY <3>3, <3>4 DEF EventInv
    <2>4. CASE eventTake(t) \/ (XNextEvent(t) /\ d.head # d.tail)
      <3>1. /\ displays' = [displays EXCEPT ![t] = Taken(t, d)] /\ asleep' = asleep /\ Leave(t, 0)
            /\ Runs(t, "event", "take") \/ (Idle(t) /\ d.head # d.tail)
        <4>1. CASE eventTake(t)
          BY <1>1, <2>2, <4>1 DEF eventTake
        <4>2. CASE XNextEvent(t) /\ d.head # d.tail
          BY <2>2, <4>2 DEF XNextEvent
        <4> QED
          BY <2>4, <4>1, <4>2
      <3>2. call'[t].op # "event"
        BY <1>1, <3>1 DEF Leave, Out
      <3>3. displays'[t] = Taken(t, d) /\ \A u \in Tasks \ {t} : displays'[u] = displays[u]
        BY <1>1, <3>1
      <3>4. EventAt(t)'
        BY <1>2, <2>1, <2>2, <3>1, <3>2, <3>3, EventGone
      <3>5. \A u \in Tasks \ {t} : EventAt(u)'
        BY <1>1, <1>2, <2>1, <3>1, <3>3, EventStays
      <3> QED
        BY <3>4, <3>5 DEF EventInv
    <2> QED
      BY <1>3, <2>3, <2>4
  <1>4. CASE ~XNextEvent(t) /\ ~eventTake(t)
    <2>1. call[t].op # "event" /\ call'[t].op # "event"
      BY <1>1, <1>4, OtherWindowCalls
    <2>2. ASSUME asleep' = asleep, lapped11' = lapped11,
                 \A u \in Tasks : \/ displays'[u] = displays[u]
                                  \/ /\ displays[u] # NULL /\ displays'[u] # NULL
                                     /\ \A f \in {"head", "tail", "queue", "pending"} : displays'[u][f] = displays[u][f]
          PROVE  EventInv'
      <3>1. \A u \in Tasks : (call[u].op = "event" \/ call'[u].op = "event") => call'[u] = call[u]
        BY <1>1, <2>1
      <3>2. \A u \in Tasks : EventAt(u)'
        BY <1>2, <2>2, <3>1, EventStays
      <3> QED
        BY <3>2 DEF EventInv
    <2>3. ASSUME NEW w \in Alive(windows), XIQueueEvent(w) PROVE EventInv'
      <3> DEFINE owner == windows[w].owner
      <3>1. CASE owner = NULL
        BY <2>2, <2>3, <3>1 DEF XIQueueEvent
      <3>2. CASE owner # NULL
        <4>1. PICK o : o = windows[w].owner
          OBVIOUS
        <4>2. o = Link(windows, "owner")[w] /\ w \in Nodes /\ o # NULL
          BY <3>2, <4>1 DEF Link, Alive
        <4>3. o \in Tasks /\ displays[o] # NULL
          BY <1>1, <4>2, TreeLinks
        <4>4. PICK d \in Displays : d = displays[o]
          BY <1>1, <4>3
        <4>5. PICK k : k = (d.head + 1) % QueueSize
          OBVIOUS
        <4>6. /\ displays' = [displays EXCEPT ![o].queue[d.head] = TRUE, ![o].head = k, ![o].pending = NULL]
              /\ asleep' = asleep \ {d.pending}
              /\ lapped11' = IF k = d.tail THEN lapped11 \cup {o} ELSE lapped11
          BY <2>3, <4>1, <4>2, <4>4, <4>5 DEF XIQueueEvent, Resume
        <4>7. displays'[o] = Queued(d) /\ \A u \in Tasks \ {o} : displays'[u] = displays[u]
          BY <1>1, <4>3, <4>4, <4>5, <4>6 DEF Queued
        <4>8. d.pending \in {NULL, o}
          BY <4>3, <4>4 DEF DisplayNotes
        <4>9. EventAt(o)'
            <5>1. lapped11' = IF (d.head + 1) % QueueSize = d.tail THEN lapped11 \cup {o} ELSE lapped11
            BY <4>5, <4>6
          <5>2. (call[o].op = "event" \/ call'[o].op = "event") => call'[o] = call[o]
            BY <1>1, <2>1, <4>3
          <5>3. EventAt(o) /\ displays[o] = d /\ displays'[o] = Queued(d) /\ asleep' = asleep \ {d.pending}
            BY <1>2, <4>3, <4>4, <4>6, <4>7
          <5> QED
            BY ONLY <4>3, <5>1, <5>2, <5>3, EventCame, d \in Displays
        <4>10. ASSUME NEW u \in Tasks, u # o PROVE EventAt(u)'
          <5>1. (u \in asleep' <=> u \in asleep) /\ (u \in lapped11' <=> u \in lapped11)
            BY <4>6, <4>8, <4>10, NoTask
          <5> QED
            BY <1>1, <1>2, <2>1, <4>7, <4>10, <5>1, EventStays
        <4> QED
          BY <4>9, <4>10 DEF EventInv
      <3> QED
        BY <3>1, <3>2
    <2>4. CASE \E w \in Windows : XMapWindow(t, w) \/ XSendEvent(t, w)
      <3>1. PICK w \in Windows : XMapWindow(t, w) \/ XSendEvent(t, w)
        BY <2>4
      <3>2. w \in Alive(windows)
        BY <1>1, <3>1 DEF XMapWindow, XSendEvent, Live, Alive, Structure, WTyped
      <3>3. XIQueueEvent(w) \/ UNCHANGED <<displays, lapped11, asleep>>
        BY <3>1 DEF XMapWindow, XSendEvent
      <3> QED
        BY <2>2, <2>3, <3>2, <3>3
    <2>5. CASE walk(t)
      <3>1. PICK np : np = call[t].np
        OBVIOUS
      <3>2. np \in Alive(windows)
        BY <2>5, <3>1, StandsAlive DEF walk
      <3>3. XIQueueEvent(np) \/ UNCHANGED <<displays, lapped11, asleep>>
        BY <2>5, <3>1 DEF walk
      <3> QED
        BY <2>2, <2>3, <3>2, <3>3
    <2>6. ASSUME asleep' = asleep, lapped11' = lapped11, displays[t] # NULL, NEW w \in Windows \cup {NULL},
                 displays' = [displays EXCEPT ![t].windows = w]
          PROVE  EventInv'
      <3>1. PICK d \in Displays : d = displays[t]
        BY <1>1, <2>6
      <3>2. displays'[t] = [d EXCEPT !.windows = w] /\ \A u \in Tasks \ {t} : displays'[u] = displays[u]
        BY <1>1, <2>6, <3>1
      <3>3. PICK e : e = [d EXCEPT !.windows = w]
        OBVIOUS
      <3>4. (\A f \in {"head", "tail", "queue", "pending"} : e[f] = d[f]) /\ e \in Displays
        BY <2>6, <3>3 DEF Displays
      <3> QED
        BY <2>2, <2>6, <3>1, <3>2, <3>3, <3>4, NoInfo
    <2>7. CASE \E w \in Windows : \E parent, area : XCreateSimpleWindow(t, w, parent, area)
      BY <2>6, <2>7 DEF XCreateSimpleWindow
    <2>8. CASE destroyUnhook(t)
      <3>1. displays[t] # NULL /\ windows[call[t].win].next \in Windows \cup {NULL}
        <4>1. PICK c : c = call[t]
          OBVIOUS
        <4>2. c.op \in {"destroy", "close"} /\ c.at = "walk" /\ CallSound(windows, displays, t, c)
          BY <2>8, <4>1 DEF destroyUnhook, Unmapping, WindowsInv
        <4>3. c.win \in Alive(windows) \ {Root} /\ Link(windows, "owner")[c.win] = t
          BY <4>2 DEF CallSound, Leaving
        <4>4. PICK w : w = c.win
          OBVIOUS
        <4>5. displays[t] # NULL /\ t # NULL /\ w \in Owned(windows, t)
          BY <1>1, <4>3, <4>4, NoNode, TreeLinks DEF Owned, Alive
        <4>6. PICK s : OwnChain(windows, t, displays[t].windows, s)
          BY <1>1, <4>5 DEF Structure
        <4>7. PICK x : x = Link(windows, "next")[w]
          OBVIOUS
        <4>8. x \in (Alive(windows) \ {Root}) \cup {NULL}
          BY <1>1, <4>5, <4>6, <4>7, OwnLinks
        <4>9. x = windows[w].next
          BY <4>3, <4>4, <4>7 DEF Link, Alive
        <4> QED
          BY <4>1, <4>4, <4>5, <4>8, <4>9 DEF Alive, Nodes
      <3>2. CASE UNCHANGED displays
        BY <2>2, <2>8, <3>2 DEF destroyUnhook
      <3>3. CASE ~UNCHANGED displays
        BY <2>6, <2>8, <3>1, <3>3 DEF destroyUnhook
      <3> QED
        BY <3>2, <3>3
    <2>9. CASE closeNext(t)
      <3>1. CASE displays' = displays /\ lapped11' = lapped11
        BY <2>2, <2>9, <3>1 DEF closeNext
      <3>2. CASE displays' = [displays EXCEPT ![t] = NULL] /\ lapped11' = lapped11 \ {t}
        <4>1. displays'[t] = NULL /\ t \notin lapped11' /\ asleep' = asleep
              /\ \A u \in Tasks \ {t} : displays'[u] = displays[u] /\ (u \in lapped11' <=> u \in lapped11)
          BY <1>1, <2>9, <3>2 DEF closeNext
        <4>2. EventAt(t)'
          BY <2>1, <4>1 DEF EventAt
        <4>3. \A u \in Tasks \ {t} : EventAt(u)'
          BY <1>1, <1>2, <2>1, <4>1, EventStays
        <4> QED
          BY <4>2, <4>3 DEF EventInv
      <3> QED
        BY <2>9, <3>1, <3>2 DEF closeNext
    <2>10. CASE XOpenDisplay(t)
      <3>1. PICK d : d = [windows |-> NULL, head |-> 0, tail |-> 0, pending |-> NULL,
                          queue |-> [i \in 0 .. QueueSize - 1 |-> FALSE]]
        OBVIOUS
      <3>2. displays[t] = NULL /\ asleep' = asleep /\ lapped11' = lapped11 /\ displays' = [displays EXCEPT ![t] = d]
        BY <2>10, <3>1 DEF XOpenDisplay
      <3>3. displays'[t] = d /\ \A u \in Tasks \ {t} : displays'[u] = displays[u]
        BY <1>1, <3>2
      <3>4. EventAt(t)'
        BY <1>2, <2>1, <3>1, <3>2, <3>3, EventOpened
      <3>5. \A u \in Tasks \ {t} : EventAt(u)'
        BY <1>1, <1>2, <2>1, <3>2, <3>3, EventStays
      <3> QED
        BY <3>4, <3>5 DEF EventInv
    <2>11. CASE \/ \E w \in Windows : XSelectInput(t, w, TRUE) \/ XUnmapWindow(t, w) \/ XDestroyWindow(t, w)
                \/ XCloseDisplay(t)
      <3>1. UNCHANGED <<displays, lapped11, asleep>>
        BY <2>11 DEF XSelectInput, XUnmapWindow, XDestroyWindow, XCloseDisplay, windowVars
      <3> QED
        BY <2>2, <3>1
    <2> QED
      BY <1>4, <2>4, <2>5, <2>7, <2>8, <2>9, <2>10, <2>11 DEF WindowStep
  <1> QED
    BY <1>3, <1>4

-----------------------------------------------------------------------------
(* What the drivers share.                                                 *)

\* The calls whose place matters to the device table or to the BIOS
KeptOps == DiskOps \cup {"deleteMouse"}

Drvs == {"serial", "console", "disk", "mouse", "other"}

Units == Ids \cup Ports \cup Pages \cup Drives

Entries == {NULL} \cup [drv : Drvs, unit : Units]

TablesOK ==
    /\ devices \in [Ids -> Entries]
    /\ serialTab \in [Ports -> Int] /\ consoleTab \in [Pages -> Int]
    /\ diskTab \in [Drives -> Int] /\ mouseTab \in Int

\* What every step leaves as it is but those of disks and of deleting a mouse
CallsAside ==
    /\ CallsOK'
    /\ \A t \in Tasks : (call[t].op \in KeptOps \/ call'[t].op \in KeptOps) => call'[t] = call[t]

\* ...and those that delete a mouse too
DisksAside ==
    /\ CallsOK'
    /\ \A t \in Tasks : (call[t].op \in DiskOps \/ call'[t].op \in DiskOps) => call'[t] = call[t]

\* What touches neither disks nor the mouse's deletion touches no disk
LEMMA Aside == CallsAside => DisksAside
  BY DEF CallsAside, DisksAside, KeptOps

-----------------------------------------------------------------------------
(* The inductive invariant.                                                *)

TypesOK ==
    /\ linked \in Programs
    /\ CallsOK /\ TablesOK
    /\ inBios \subseteq Tasks
    /\ DOMAIN done = Tasks /\ DOMAIN missed = Tasks

\* The id a driver keeps is that of its device
Kept ==
    /\ \A p \in Ports : serialTab[p] >= 0 => serialTab[p] \in Ids /\ devices[serialTab[p]] = Device("serial", p)
    /\ \A p \in Pages : consoleTab[p] >= 0 => consoleTab[p] \in Ids /\ devices[consoleTab[p]] = Device("console", p)
    /\ \A v \in Drives : diskTab[v] >= 0 => diskTab[v] \in Ids /\ devices[diskTab[v]] = Device("disk", v)

IsDisk(entry) == entry # NULL /\ entry.drv = "disk"

\* ...and a disk in the table is the one its driver keeps, while it is installed
DisksKept ==
    \A d \in Ids : IsDisk(devices[d]) =>
        disks /\ devices[d].unit \in Drives /\ diskTab[devices[d].unit] = d

\* One task at a time deletes the mouse, which is there until it has
MouseKept ==
    \A t \in Tasks : call[t].op = "deleteMouse" =>
        /\ t \in linked.tasks /\ ~readTask
        /\ mouseTab \in Ids /\ devices[mouseTab] # NULL /\ devices[mouseTab].drv = "mouse"
        /\ \A u \in Tasks : call[u].op = "deleteMouse" => u = t

Creating(t, v) == call[t].op = "diskCreate" /\ call[t].drive = v

\* A drive that is being created is not there, and is so by one task
CreatesNew ==
    \A v \in Drives, t \in Tasks : Creating(t, v) =>
        diskTab[v] < 0 /\ \A u \in Tasks : Creating(u, v) => u = t

DiskFrames ==
    [op : {"disk"}, drive : Drives, size : Nat, cnt : Nat, at : {"get", "bios"}, got : Int]
    \cup [op : {"diskOpen"}, drive : Drives, at : {"get", "bios"}, got : Int]
    \cup [op : {"diskCreate"}, drive : Drives, at : {"get", "bios", "add"}, got : Int]
    \cup [op : {"diskInstall"}, at : {"get", "bios"}, got : Int]

\* The calls of an installed driver, and which of them is in the BIOS: its
\* task is the owner of the semaphore
DiskCalls ==
    /\ \A t \in Tasks : call[t].op \in DiskOps => disks /\ t \in linked.tasks /\ call[t] \in DiskFrames
    /\ \A t \in Tasks : t \in inBios <=> (call[t].op \in DiskOps /\ call[t].at = "bios")
    /\ \A t \in inBios : bcallSem = t

\* The sectors a transfer has passed
Passed ==
    \A t \in Tasks : call[t].op = "disk" =>
        call[t].cnt < call[t].size /\ done[t] \cup missed[t] = 0 .. call[t].cnt - 1

IInv == TypesOK /\ Kept /\ DisksKept /\ MouseKept /\ CreatesNew /\ DiskCalls /\ Passed

\* A step that keeps all that, and no transfer ends in it but a whole one
WholeCalls ==
    \A t \in Tasks : (call[t].op = "disk" /\ call'[t].op = "out" /\ call'[t].got >= 0)
        => /\ call'[t].got = call[t].size
           /\ done'[t] \cup missed'[t] = 0 .. call[t].size - 1

Onward == IInv' /\ WholeCalls

-----------------------------------------------------------------------------
(* How calls go on.                                                        *)

\* A task that is in another call goes on to another one
LEMMA Moves ==
    ASSUME CallsOK, NEW t \in Tasks, call[t].op \notin KeptOps,
           NEW f, "op" \in DOMAIN f, f.op \notin KeptOps, call' = [call EXCEPT ![t] = f]
    PROVE  CallsAside
  BY DEF CallsOK, CallsAside

\* ...or returns
LEMMA Leaves ==
    ASSUME CallsOK, NEW t \in Tasks, call[t].op \notin KeptOps, NEW value, Leave(t, value)
    PROVE  CallsAside
  <1> DEFINE f == [op |-> "out", got |-> value]
  <1>1. "op" \in DOMAIN f /\ f.op \notin KeptOps
    BY DEF KeptOps, DiskOps
  <1>2. call' = [call EXCEPT ![t] = f]
    BY DEF Leave
  <1> QED
    BY <1>1, <1>2, Moves

\* ...or gets further in the one it is in
LEMMA GoesTo ==
    ASSUME CallsOK, NEW t \in Tasks, call[t].op \notin KeptOps, NEW at, Goto(t, at)
    PROVE  CallsAside
  <1> DEFINE f == [call[t] EXCEPT !.at = at]
  <1>1. "op" \in DOMAIN f /\ f.op = call[t].op
    BY DEF CallsOK
  <1>2. call' = [call EXCEPT ![t] = f]
    BY DEF Goto
  <1> QED
    BY <1>1, <1>2, Moves

\* An idle task is in none of the calls
LEMMA IdleAside == ASSUME NEW t \in Tasks, Idle(t) PROVE call[t].op \notin KeptOps
  BY DEF Idle, KeptOps, DiskOps

\* A step that moves no call at all
LEMMA Rests == ASSUME CallsOK, UNCHANGED call PROVE CallsAside
  BY DEF CallsOK, CallsAside

\* A driver wakes tasks: only select() learns of it
LEMMA Notifies ==
    ASSUME CallsOK, NEW ts, NEW d, Notify(ts, d, call)
    PROVE  CallsAside
  <1>1. CallsOK'
    BY DEF Notify, CallsOK
  <1>2. ASSUME NEW t \in Tasks PROVE call'[t] = call[t] \/ (call[t].op = "select" /\ call'[t].op = "select")
    BY DEF Notify, CallsOK
  <1> QED
    BY <1>1, <1>2 DEF CallsAside, KeptOps, DiskOps

-----------------------------------------------------------------------------
(* Steps that are no disk's.                                               *)

tableVars == <<devices, serialTab, consoleTab, diskTab, mouseTab, readTask>>

\* A step that moves no call of a disk, and may change the tables of other drivers
LEMMA TableStep ==
    ASSUME IInv, DisksAside, UNCHANGED <<linked, diskVars>>,
           TablesOK', Kept', MouseKept',
           \A d \in Ids : (IsDisk(devices[d]) \/ IsDisk(devices'[d])) => devices'[d] = devices[d]
    PROVE  Onward
  <1> USE DEF IInv
  <1>1. TypesOK'
    BY DEF TypesOK, DisksAside, diskVars
  <1>2. DisksKept'
    BY DEF DisksKept, diskVars
  <1>3. CreatesNew'
    BY DEF CreatesNew, Creating, DisksAside, diskVars, DiskOps
  <1>4. DiskCalls'
    <2>1. ASSUME NEW t \in Tasks PROVE (call'[t].op \in DiskOps <=> call[t].op \in DiskOps)
                                       /\ (call[t].op \in DiskOps => call'[t] = call[t])
      BY DEF DisksAside
    <2> QED
      BY <2>1 DEF DiskCalls, diskVars, TypesOK
  <1>5. Passed'
    BY DEF Passed, DisksAside, diskVars, DiskOps
  <1>6. WholeCalls
    BY DEF WholeCalls, DisksAside, DiskOps
  <1> QED
    BY <1>1, <1>2, <1>3, <1>4, <1>5, <1>6 DEF Onward

\* A step that leaves the tables alone too
LEMMA QuietStep ==
    ASSUME IInv, CallsAside, UNCHANGED <<linked, diskVars, tableVars>>
    PROVE  Onward
  <1>1. TablesOK' /\ Kept'
    BY DEF IInv, TypesOK, TablesOK, Kept, tableVars, diskVars
  <1>2. MouseKept'
    BY DEF IInv, MouseKept, CallsAside, KeptOps, tableVars
  <1> QED
    BY <1>1, <1>2, TableStep, Aside DEF tableVars

-----------------------------------------------------------------------------
(* The device table.                                                       *)

\* The mouse's task is none of a program's
LEMMA ProgramTasks == ASSUME TypesOK PROVE linked.tasks \subseteq Tasks \ {MouseTask}
  BY ProgramsAssumption DEF TypesOK

\* newIOSysDevice(-1, ) takes a free entry, or none
LEMMA SlotFree ==
    ASSUME TablesOK
    PROVE  slot(-1) \in Int /\ (slot(-1) >= 0 => slot(-1) \in Free)
  <1>1. CASE Free = {}
    BY <1>1, DevsAssumption DEF slot, ENODEVSPACE
  <1>2. CASE Free # {}
    <2>1. Free \subseteq Nat
      BY DevsAssumption DEF Free, Ids
    <2>2. \E d \in Free : \A e \in Free : ~(e < d)
      <3> DEFINE Less == OpToRel(<, Nat)
      <3>1. PICK d \in Free : \A e \in Free : <<e, d>> \notin Less
        BY <1>2, <2>1, NatLessThanWellFounded, WFMin, Zenon
      <3> QED
        BY <2>1, <3>1 DEF OpToRel
    <2>3. PICK d \in Free : \A e \in Free : ~(e < d)
      BY <2>2
    <2>4. \A e \in Free : d <= e
      BY <2>1, <2>3
    <2>5. slot(-1) = CHOOSE e \in Free : \A f \in Free : e <= f
      BY <1>2, DevsAssumption DEF slot
    <2>6. slot(-1) \in Free
      BY <2>4, <2>5
    <2>7. \A e \in Free : e \in Int
      BY <2>1
    <2> QED
      BY <2>6, <2>7
  <1> QED
    BY <1>1, <1>2

\* A new device, and what its entry was
LEMMA NewDevice ==
    ASSUME TablesOK, NEW drv \in Drvs, NEW unit \in Units, newIOSysDevice(-1, Device(drv, unit))
    PROVE  /\ devices' \in [Ids -> Entries]
           /\ \A d \in Ids : devices'[d] # devices[d] =>
                    d = slot(-1) /\ devices[d] = NULL /\ devices'[d] = Device(drv, unit)
           /\ slot(-1) >= 0 => slot(-1) \in Ids /\ devices[slot(-1)] = NULL /\ devices'[slot(-1)] = Device(drv, unit)
  <1>1. slot(-1) >= 0 => slot(-1) \in Ids /\ devices[slot(-1)] = NULL
    BY SlotFree DEF Free
  <1>2. Device(drv, unit) \in Entries
    BY DEF Device, Entries
  <1> QED
    BY <1>1, <1>2 DEF newIOSysDevice, TablesOK

\* A device that goes leaves NULL
LEMMA OldDevice ==
    ASSUME TablesOK, NEW d, deleteIOSysDevice(d)
    PROVE  /\ devices' \in [Ids -> Entries]
           /\ \A e \in Ids : devices'[e] = IF e = d THEN NULL ELSE devices[e]
  BY DEF deleteIOSysDevice, TablesOK, Entries

\* No device looks like a free entry
LEMMA NotNull == \A unit \in Units, drv \in Drvs : NULL # Device(drv, unit)
  BY NoDevice DEF Units, Drvs

\* A step that changes no entry of the tables but free ones, and the id the
\* serial driver keeps for a new port
LEMMA createSerialStep ==
    ASSUME IInv, NEW t \in Tasks, NEW p \in Ports, NEW m, createSerial(t, p, m),
           UNCHANGED <<linked, mouseVars, consoleVars, diskVars>>
    PROVE  Onward
  <1>1. CallsAside
    BY Rests DEF createSerial, IInv, TypesOK
  <1>2. TablesOK
    BY DEF IInv, TypesOK
  <1>3. newIOSysDevice(-1, Device("serial", p)) /\ serialTab' = [serialTab EXCEPT ![p] = slot(-1)]
    BY DEF createSerial
  <1>4. /\ devices' \in [Ids -> Entries]
        /\ \A d \in Ids : devices'[d] # devices[d] =>
                d = slot(-1) /\ devices[d] = NULL /\ devices'[d] = Device("serial", p)
        /\ slot(-1) >= 0 => slot(-1) \in Ids /\ devices[slot(-1)] = NULL /\ devices'[slot(-1)] = Device("serial", p)
    BY <1>2, <1>3, NewDevice DEF Drvs, Units
  <1>5. TablesOK'
    BY <1>2, <1>3, <1>4, SlotFree DEF TablesOK, mouseVars, consoleVars, diskVars
  <1>6. Kept'
    <2>1. \A d \in Ids : devices[d] # NULL => devices'[d] = devices[d]
      BY <1>4
    <2>2. \A q \in Ports : serialTab'[q] >= 0 => serialTab'[q] \in Ids /\ devices'[serialTab'[q]] = Device("serial", q)
      BY <1>2, <1>3, <1>4, <2>1, NotNull DEF IInv, Kept, TablesOK, Drvs, Units
    <2>3. \A q \in Pages : consoleTab'[q] >= 0 => consoleTab'[q] \in Ids /\ devices'[consoleTab'[q]] = Device("console", q)
      BY <1>2, <2>1, NotNull DEF IInv, Kept, TablesOK, Drvs, Units, consoleVars
    <2>4. \A v \in Drives : diskTab'[v] >= 0 => diskTab'[v] \in Ids /\ devices'[diskTab'[v]] = Device("disk", v)
      BY <1>2, <2>1, NotNull DEF IInv, Kept, TablesOK, Drvs, Units, diskVars
    <2> QED
      BY <2>2, <2>3, <2>4 DEF Kept
  <1>7. MouseKept'
    BY <1>1, <1>4, NotNull, BytesAssumption DEF IInv, MouseKept, CallsAside, KeptOps, mouseVars, Drvs, Units
  <1>8. \A d \in Ids : (IsDisk(devices[d]) \/ IsDisk(devices'[d])) => devices'[d] = devices[d]
    BY <1>4 DEF IsDisk, Device
  <1> QED
    BY <1>1, <1>5, <1>6, <1>7, <1>8, TableStep, Aside

\* What a device was made of
LEMMA DeviceParts == \A drv, unit : Device(drv, unit).drv = drv /\ Device(drv, unit).unit = unit
  BY DEF Device

\* No two units are kept under one id
LEMMA IdsDiffer ==
    ASSUME IInv
    PROVE  /\ \A p, q \in Ports : (serialTab[p] >= 0 /\ serialTab[q] = serialTab[p]) => q = p
           /\ \A p, q \in Pages : (consoleTab[p] >= 0 /\ consoleTab[q] = consoleTab[p]) => q = p
           /\ \A v, w \in Drives : (diskTab[v] >= 0 /\ diskTab[w] = diskTab[v]) => w = v
           /\ \A p \in Ports, q \in Pages : serialTab[p] >= 0 => consoleTab[q] # serialTab[p]
           /\ \A p \in Ports, v \in Drives : serialTab[p] >= 0 => diskTab[v] # serialTab[p]
           /\ \A p \in Pages, v \in Drives : consoleTab[p] >= 0 => diskTab[v] # consoleTab[p]
  <1>1. /\ \A p \in Ports : serialTab[p] >= 0 => devices[serialTab[p]].drv = "serial" /\ devices[serialTab[p]].unit = p
        /\ \A p \in Pages : consoleTab[p] >= 0 => devices[consoleTab[p]].drv = "console" /\ devices[consoleTab[p]].unit = p
        /\ \A v \in Drives : diskTab[v] >= 0 => devices[diskTab[v]].drv = "disk" /\ devices[diskTab[v]].unit = v
    BY DeviceParts DEF IInv, Kept
  <1> QED
    BY <1>1

\* ...nor is the mouse, while it is being deleted, under one of theirs
LEMMA MouseDiffers ==
    ASSUME IInv, NEW t \in Tasks, call[t].op = "deleteMouse"
    PROVE  /\ \A p \in Ports : serialTab[p] # mouseTab
           /\ \A p \in Pages : consoleTab[p] # mouseTab
           /\ \A v \in Drives : diskTab[v] # mouseTab
  <1>1. mouseTab \in Nat /\ devices[mouseTab].drv = "mouse"
    BY DevsAssumption, DeviceParts DEF IInv, MouseKept, Ids
  <1>2. /\ \A p \in Ports : serialTab[p] >= 0 => devices[serialTab[p]].drv = "serial"
        /\ \A p \in Pages : consoleTab[p] >= 0 => devices[consoleTab[p]].drv = "console"
        /\ \A v \in Drives : diskTab[v] >= 0 => devices[diskTab[v]].drv = "disk"
    BY DeviceParts DEF IInv, Kept
  <1> QED
    BY <1>1, <1>2

\* A port that is deleted leaves its entry free, and nobody else has its id
LEMMA deleteSerialStep ==
    ASSUME IInv, NEW t \in Tasks, NEW p \in Ports, deleteSerial(t, p),
           UNCHANGED <<linked, mouseVars, consoleVars, diskVars>>
    PROVE  Onward
  <1>1. CallsAside
    BY Rests DEF deleteSerial, IInv, TypesOK
  <1>2. TablesOK /\ Kept
    BY DEF IInv, TypesOK
  <1>3. serialTab[p] >= 0 /\ serialTab' = [serialTab EXCEPT ![p] = -1]
    BY DEF deleteSerial, Created
  <1>4. devices' \in [Ids -> Entries] /\ \A e \in Ids : devices'[e] = IF e = serialTab[p] THEN NULL ELSE devices[e]
    BY <1>2, OldDevice DEF deleteSerial
  <1>5. TablesOK'
    BY <1>2, <1>3, <1>4 DEF TablesOK, mouseVars, consoleVars, diskVars
  <1>6. Kept'
    BY <1>2, <1>3, <1>4, IdsDiffer DEF Kept, TablesOK, consoleVars, diskVars
  <1>7. MouseKept'
    BY <1>1, <1>4, MouseDiffers DEF IInv, MouseKept, CallsAside, KeptOps, mouseVars
  <1>8. \A d \in Ids : (IsDisk(devices[d]) \/ IsDisk(devices'[d])) => devices'[d] = devices[d]
    BY <1>2, <1>3, <1>4, DeviceParts DEF IsDisk, Kept
  <1> QED
    BY <1>1, <1>5, <1>6, <1>7, <1>8, TableStep, Aside

\* ...nor the ids of all of them
LEMMA removeSerialStep ==
    ASSUME IInv, NEW t \in Tasks, removeSerial(t), UNCHANGED <<linked, mouseVars, consoleVars, diskVars>>
    PROVE  Onward
  <1>1. CallsAside
    BY Rests DEF removeSerial, IInv, TypesOK
  <1>2. TablesOK /\ Kept
    BY DEF IInv, TypesOK
  <1>3. serialTab' = [p \in Ports |-> IF serialTab[p] >= 0 THEN -1 ELSE serialTab[p]]
    BY DEF removeSerial, Created
  <1>4. devices' = [d \in Ids |-> IF \E p \in Ports : serialTab[p] = d THEN NULL ELSE devices[d]]
    BY DEF removeSerial
  <1>5. \A p \in Ports, d \in Ids : serialTab[p] = d => serialTab[p] >= 0 /\ devices[d] = Device("serial", p)
    BY <1>2, DevsAssumption DEF Kept, Ids
  <1>6. TablesOK'
    BY <1>2, <1>3, <1>4 DEF TablesOK, Entries, mouseVars, consoleVars, diskVars
  <1>7. Kept'
    <2>1. \A q \in Ports : serialTab'[q] < 0
      BY <1>2, <1>3 DEF TablesOK
    <2>2. \A q \in Pages : consoleTab'[q] >= 0 => consoleTab'[q] \in Ids /\ devices'[consoleTab'[q]] = Device("console", q)
      BY <1>2, <1>4, <1>5, IdsDiffer DEF Kept, consoleVars
    <2>3. \A v \in Drives : diskTab'[v] >= 0 => diskTab'[v] \in Ids /\ devices'[diskTab'[v]] = Device("disk", v)
      BY <1>2, <1>4, <1>5, IdsDiffer DEF Kept, diskVars
    <2> QED
      BY <1>6, <2>1, <2>2, <2>3 DEF Kept, TablesOK
  <1>8. MouseKept'
    BY <1>1, <1>4, MouseDiffers DEF IInv, MouseKept, CallsAside, KeptOps, mouseVars
  <1>9. \A d \in Ids : (IsDisk(devices[d]) \/ IsDisk(devices'[d])) => devices'[d] = devices[d]
    BY <1>4, <1>5, DeviceParts DEF IsDisk
  <1> QED
    BY <1>1, <1>6, <1>7, <1>8, <1>9, TableStep, Aside

\* The read() and write() of a port, and the 8250 with its interrupt, leave
\* the tables alone
LEMMA SerialQuiet ==
    ASSUME IInv, UNCHANGED <<linked, mouseVars, consoleVars, diskVars>>,
           \/ \E t \in Tasks : readTest(t) \/ readTake(t) \/ writeTest(t) \/ writeWoken(t) \/ writePut(t)
           \/ \E p \in Ports : Arrives(p) \/ Transmitted(p) \/ ModemChanges(p) \/ _serialTrap(p)
    PROVE  Onward
  <1>1. CallsOK
    BY DEF IInv, TypesOK
  <1>2. ASSUME NEW t \in Tasks, readTest(t) \/ readTake(t) \/ writeTest(t) \/ writeWoken(t) \/ writePut(t)
        PROVE  CallsAside
    <2>1. call[t].op \in {"serialRead", "serialWrite"}
      BY <1>2, Zenon DEF readTest, readTake, writeTest, writeWoken, writePut, Runs
    <2>2. call[t].op \notin KeptOps
      BY <2>1 DEF KeptOps, DiskOps
    <2>3. CASE \E at : Goto(t, at)
      BY <1>1, <2>2, <2>3, GoesTo
    <2>4. CASE \E value : Leave(t, value)
      BY <1>1, <2>2, <2>4, Leaves
    <2>5. CASE Enter(t, [call[t] EXCEPT !.left = @ - 1, !.at = "test"])
      <3> DEFINE f == [call[t] EXCEPT !.left = @ - 1, !.at = "test"]
      <3>1. "op" \in DOMAIN f /\ f.op = call[t].op
        BY <1>1 DEF CallsOK
      <3> QED
        BY <1>1, <2>2, <2>5, <3>1, Moves DEF Enter
    <2> QED
      BY <1>2, <2>3, <2>4, <2>5, Zenon DEF readTest, readTake, writeTest, writeWoken, writePut
  <1>3. ASSUME NEW p \in Ports, Arrives(p) \/ Transmitted(p) \/ ModemChanges(p) \/ _serialTrap(p)
        PROVE  CallsAside
    <2>1. CASE _serialTrap(p)
      BY <1>1, <2>1, Notifies DEF _serialTrap
    <2>2. CASE Arrives(p) \/ Transmitted(p) \/ ModemChanges(p)
      BY <1>1, <2>2, Rests DEF Arrives, Transmitted, ModemChanges
    <2> QED
      BY <1>3, <2>1, <2>2
  <1>4. UNCHANGED <<devices, serialTab>>
    BY Zenon DEF readTest, readTake, writeTest, writeWoken, writePut, Arrives, Transmitted, ModemChanges, _serialTrap
  <1> QED
    BY <1>2, <1>3, <1>4, QuietStep DEF tableVars, mouseVars, consoleVars, diskVars

\* Every step of the serial driver
LEMMA SerialSteps == ASSUME IInv, SerialStep, UNCHANGED linked PROVE Onward
  <1>1. Applications \subseteq Tasks
    BY ProgramTasks DEF IInv, Applications
  <1> QED
    BY <1>1, createSerialStep, deleteSerialStep, removeSerialStep, SerialQuiet DEF SerialStep

-----------------------------------------------------------------------------
(* The mouse.                                                              *)

\* A mouse is made and, by its one deleter, deleted; the tables of the others
\* stay
LEMMA createMouseStep ==
    ASSUME IInv, NEW t \in Tasks, createMouse(t), UNCHANGED <<linked, consoleVars, diskVars>>
    PROVE  Onward
  <1>1. CallsAside
    BY Rests DEF createMouse, IInv, TypesOK
  <1>2. TablesOK /\ Kept
    BY DEF IInv, TypesOK
  <1>3. newIOSysDevice(-1, Device("mouse", MousePort)) /\ mouseTab' = slot(-1) /\ mouseTab < 0 /\ UNCHANGED serialTab
    BY DEF createMouse, serialVars
  <1>4. /\ devices' \in [Ids -> Entries]
        /\ \A d \in Ids : devices'[d] # devices[d] =>
                d = slot(-1) /\ devices[d] = NULL /\ devices'[d] = Device("mouse", MousePort)
    BY <1>2, <1>3, NewDevice, BytesAssumption DEF Drvs, Units
  <1>5. TablesOK'
    BY <1>2, <1>3, <1>4, SlotFree DEF TablesOK, consoleVars, diskVars
  <1>6. Kept'
    <2>1. \A d \in Ids : devices[d] # NULL => devices'[d] = devices[d]
      BY <1>4
    <2> QED
      BY <1>2, <1>3, <2>1, NotNull DEF Kept, Drvs, Units, consoleVars, diskVars
  <1>7. MouseKept'
    <2>1. \A u \in Tasks : call[u].op # "deleteMouse"
      BY <1>2, <1>3, DevsAssumption DEF IInv, MouseKept, Ids
    <2> QED
      BY <1>1, <2>1 DEF MouseKept, CallsAside, KeptOps
  <1>8. \A d \in Ids : (IsDisk(devices[d]) \/ IsDisk(devices'[d])) => devices'[d] = devices[d]
    BY <1>4, DeviceParts DEF IsDisk
  <1> QED
    BY <1>1, <1>5, <1>6, <1>7, <1>8, TableStep, Aside

\* installMouse() forgets an id under which there is no mouse
LEMMA installMouseStep ==
    ASSUME IInv, NEW t \in Tasks, installMouse(t), UNCHANGED <<linked, consoleVars, diskVars>>
    PROVE  Onward
  <1>1. CallsAside
    BY Rests DEF installMouse, IInv, TypesOK
  <1>2. mouseTab' = -1 /\ UNCHANGED <<devices, serialTab>> /\ ~Serves(mouseTab, "mouse")
    BY DEF installMouse, serialVars
  <1>3. TablesOK' /\ Kept'
    BY <1>2 DEF IInv, TypesOK, TablesOK, Kept, consoleVars, diskVars
  <1>4. MouseKept'
    <2>1. \A u \in Tasks : call[u].op # "deleteMouse"
      BY <1>2 DEF IInv, MouseKept, Serves, deviceError
    <2> QED
      BY <1>1, <2>1 DEF MouseKept, CallsAside, KeptOps
  <1> QED
    BY <1>1, <1>2, <1>3, <1>4, TableStep, Aside

\* The task that stops the reader task is the one that deletes the mouse
LEMMA deleteMouseStep ==
    ASSUME IInv, NEW t \in linked.tasks, deleteMouse(t), UNCHANGED <<linked, consoleVars, diskVars>>
    PROVE  Onward
  <1>1. t \in Tasks /\ CallsOK
    BY ProgramTasks DEF IInv, TypesOK
  <1> DEFINE f == [op |-> "deleteMouse", at |-> "wait", got |-> 0]
  <1>2. call' = [call EXCEPT ![t] = f] /\ call[t].op = "out"
    BY DEF deleteMouse, Enter, Idle
  <1>3. DisksAside
    BY <1>1, <1>2 DEF DisksAside, CallsOK, DiskOps
  <1>4. ~readTask' /\ readTask /\ Serves(mouseTab, "mouse") /\ UNCHANGED <<devices, serialTab, mouseTab>>
    BY DEF deleteMouse, serialVars
  <1>5. TablesOK' /\ Kept'
    BY <1>4 DEF IInv, TypesOK, TablesOK, Kept, consoleVars, diskVars
  <1>6. MouseKept'
    <2>1. \A u \in Tasks : call[u].op # "deleteMouse"
      BY <1>4 DEF IInv, MouseKept
    <2>2. mouseTab \in Ids /\ devices[mouseTab] # NULL /\ devices[mouseTab].drv = "mouse"
      BY <1>4 DEF Serves, deviceError, EDEVICEID, EBADDEV
    <2>3. \A u \in Tasks : call'[u].op = "deleteMouse" => u = t
      BY <1>1, <1>2, <2>1 DEF CallsOK
    <2> QED
      BY <1>1, <1>4, <2>2, <2>3 DEF MouseKept
  <1> QED
    BY <1>3, <1>4, <1>5, <1>6, TableStep

\* ...and deletes no other device, though it has waited in between
LEMMA mouseDeletedStep ==
    ASSUME IInv, NEW t \in Tasks, mouseDeleted(t), UNCHANGED <<linked, consoleVars, diskVars>>
    PROVE  Onward
  <1>1. CallsOK /\ TablesOK
    BY DEF IInv, TypesOK
  <1>2. call[t].op = "deleteMouse" /\ call' = [call EXCEPT ![t] = [op |-> "out", got |-> 0]] /\ UNCHANGED <<serialTab, mouseTab>>
    BY DEF mouseDeleted, Runs, Leave, serialVars, mouseVars
  <1>3. DisksAside
    BY <1>1, <1>2 DEF DisksAside, CallsOK, DiskOps
  <1>4. devices' \in [Ids -> Entries] /\ \A d \in Ids : devices'[d] = IF d = mouseTab THEN NULL ELSE devices[d]
    BY <1>1, OldDevice DEF mouseDeleted
  <1>5. TablesOK'
    BY <1>1, <1>2, <1>4 DEF TablesOK, consoleVars, diskVars
  <1>6. Kept'
    BY <1>2, <1>4, MouseDiffers DEF IInv, Kept, consoleVars, diskVars
  <1>7. MouseKept'
    BY <1>1, <1>2 DEF IInv, MouseKept, CallsOK
  <1>8. \A d \in Ids : (IsDisk(devices[d]) \/ IsDisk(devices'[d])) => devices'[d] = devices[d]
    <2>1. ~IsDisk(devices[mouseTab])
      BY <1>2 DEF IInv, MouseKept, IsDisk
    <2> QED
      BY <1>4, <2>1 DEF IsDisk
  <1> QED
    BY <1>3, <1>5, <1>6, <1>7, <1>8, TableStep

\* The reader task goes no way but into read() and out of it
LEMMA mouseReaderStep ==
    ASSUME IInv, mouseReaderOpen \/ mouseReaderCheck \/ mouseReaderByte,
           UNCHANGED <<linked, consoleVars, diskVars>>
    PROVE  Onward
  <1>1. CallsOK /\ MouseTask \in Tasks /\ MouseTask \notin linked.tasks
    BY ProgramTasks, BytesAssumption DEF IInv, TypesOK
  <1>2. call[MouseTask].op \notin KeptOps
    BY <1>1 DEF IInv, MouseKept, DiskCalls, KeptOps
  <1>3. CASE mouseReaderOpen
    BY <1>1, <1>3, Rests, QuietStep DEF mouseReaderOpen, tableVars, consoleVars, diskVars
  <1>4. CASE mouseReaderCheck
    <2> DEFINE f == [op |-> "serialRead", port |-> MousePort, left |-> 1, at |-> "test", got |-> 0]
    <2>1. f.op \notin KeptOps
      BY DEF KeptOps, DiskOps
    <2>2. UNCHANGED call \/ call' = [call EXCEPT ![MouseTask] = f]
      BY <1>4 DEF mouseReaderCheck, Enter
    <2>3. CallsAside
      BY <1>1, <1>2, <2>1, <2>2, Moves, Rests
    <2> QED
      BY <1>4, <2>3, QuietStep DEF mouseReaderCheck, tableVars, serialVars, consoleVars, diskVars
  <1>5. CASE mouseReaderByte
    <2>1. UNCHANGED call \/ Notify(Selectors(mouseTab), mouseTab, call)
      BY <1>5 DEF mouseReaderByte, mouseDecode
    <2>2. CallsAside
      BY <1>1, <2>1, Notifies, Rests
    <2> QED
      BY <1>5, <2>2, QuietStep DEF mouseReaderByte, tableVars, serialVars, consoleVars, diskVars
  <1> QED
    BY <1>3, <1>4, <1>5

\* Every step of the mouse
LEMMA MouseSteps == ASSUME IInv, MouseStep, UNCHANGED linked PROVE Onward
  <1>1. Applications \subseteq Tasks /\ Applications = linked.tasks
    BY ProgramTasks DEF IInv, Applications
  <1> QED
    BY <1>1, installMouseStep, createMouseStep, deleteMouseStep, mouseDeletedStep, mouseReaderStep DEF MouseStep

-----------------------------------------------------------------------------
(* The console.                                                            *)

\* A console is created like a port
LEMMA createConsoleStep ==
    ASSUME IInv, NEW t \in Tasks, NEW p \in Pages, createConsole(t, p),
           UNCHANGED <<linked, serialVars, mouseVars, diskVars>>
    PROVE  Onward
  <1>1. CallsAside
    BY Rests DEF createConsole, IInv, TypesOK
  <1>2. TablesOK
    BY DEF IInv, TypesOK
  <1>3. newIOSysDevice(-1, Device("console", p)) /\ consoleTab' = [consoleTab EXCEPT ![p] = slot(-1)]
    BY DEF createConsole
  <1>4. /\ devices' \in [Ids -> Entries]
        /\ \A d \in Ids : devices'[d] # devices[d] =>
                d = slot(-1) /\ devices[d] = NULL /\ devices'[d] = Device("console", p)
        /\ slot(-1) >= 0 => slot(-1) \in Ids /\ devices[slot(-1)] = NULL /\ devices'[slot(-1)] = Device("console", p)
    BY <1>2, <1>3, NewDevice DEF Drvs, Units
  <1>5. TablesOK'
    BY <1>2, <1>3, <1>4, SlotFree DEF TablesOK, serialVars, mouseVars, diskVars
  <1>6. Kept'
    <2>1. \A d \in Ids : devices[d] # NULL => devices'[d] = devices[d]
      BY <1>4
    <2>2. \A q \in Ports : serialTab'[q] >= 0 => serialTab'[q] \in Ids /\ devices'[serialTab'[q]] = Device("serial", q)
      BY <1>2, <2>1, NotNull DEF IInv, Kept, TablesOK, Drvs, Units, serialVars
    <2>3. \A q \in Pages : consoleTab'[q] >= 0 => consoleTab'[q] \in Ids /\ devices'[consoleTab'[q]] = Device("console", q)
      BY <1>2, <1>3, <1>4, <2>1, NotNull DEF IInv, Kept, TablesOK, Drvs, Units
    <2>4. \A v \in Drives : diskTab'[v] >= 0 => diskTab'[v] \in Ids /\ devices'[diskTab'[v]] = Device("disk", v)
      BY <1>2, <2>1, NotNull DEF IInv, Kept, TablesOK, Drvs, Units, diskVars
    <2> QED
      BY <2>2, <2>3, <2>4 DEF Kept
  <1>7. MouseKept'
    BY <1>1, <1>4 DEF IInv, MouseKept, CallsAside, KeptOps, mouseVars
  <1>8. \A d \in Ids : (IsDisk(devices[d]) \/ IsDisk(devices'[d])) => devices'[d] = devices[d]
    BY <1>4, DeviceParts DEF IsDisk
  <1> QED
    BY <1>1, <1>5, <1>6, <1>7, <1>8, TableStep, Aside

\* ...deleted like one
LEMMA deleteConsoleStep ==
    ASSUME IInv, NEW t \in Tasks, NEW p \in Pages, deleteConsole(t, p),
           UNCHANGED <<linked, serialVars, mouseVars, diskVars>>
    PROVE  Onward
  <1>1. CallsAside
    BY Rests DEF deleteConsole, IInv, TypesOK
  <1>2. TablesOK /\ Kept
    BY DEF IInv, TypesOK
  <1>3. consoleTab[p] >= 0 /\ consoleTab' = [consoleTab EXCEPT ![p] = -1]
    BY DEF deleteConsole
  <1>4. devices' \in [Ids -> Entries] /\ \A e \in Ids : devices'[e] = IF e = consoleTab[p] THEN NULL ELSE devices[e]
    BY <1>2, OldDevice DEF deleteConsole
  <1>5. TablesOK'
    BY <1>2, <1>3, <1>4 DEF TablesOK, serialVars, mouseVars, diskVars
  <1>6. Kept'
    BY <1>2, <1>3, <1>4, IdsDiffer DEF Kept, TablesOK, serialVars, diskVars
  <1>7. MouseKept'
    BY <1>1, <1>4, MouseDiffers DEF IInv, MouseKept, CallsAside, KeptOps, mouseVars
  <1>8. \A d \in Ids : (IsDisk(devices[d]) \/ IsDisk(devices'[d])) => devices'[d] = devices[d]
    BY <1>2, <1>3, <1>4, DeviceParts DEF IsDisk, Kept
  <1> QED
    BY <1>1, <1>5, <1>6, <1>7, <1>8, TableStep, Aside

\* ...none is there when the driver is installed
LEMMA installConsoleStep ==
    ASSUME IInv, NEW t \in Tasks, installConsole(t), UNCHANGED <<linked, serialVars, mouseVars, diskVars>>
    PROVE  Onward
  <1>1. CallsAside
    BY Rests DEF installConsole, IInv, TypesOK
  <1>2. consoleTab' = [p \in Pages |-> -1] /\ UNCHANGED devices
    BY DEF installConsole
  <1>3. TablesOK' /\ Kept'
    BY <1>2 DEF IInv, TypesOK, TablesOK, Kept, serialVars, mouseVars, diskVars
  <1>4. MouseKept'
    BY <1>1, <1>2 DEF IInv, MouseKept, CallsAside, KeptOps, mouseVars
  <1> QED
    BY <1>1, <1>2, <1>3, <1>4, TableStep, Aside

\* ...and all go when it is removed
LEMMA removeConsoleStep ==
    ASSUME IInv, NEW t \in Tasks, removeConsole(t), UNCHANGED <<linked, serialVars, mouseVars, diskVars>>
    PROVE  Onward
  <1> DEFINE f == [op |-> "removeConsole", at |-> "wait", got |-> 0]
  <1>1. CallsAside
    <2>1. call' = [call EXCEPT ![t] = f] /\ call[t].op \notin KeptOps /\ f.op \notin KeptOps
      BY IdleAside DEF removeConsole, Enter, KeptOps, DiskOps
    <2> QED
      BY <2>1, Moves DEF IInv, TypesOK
  <1>2. TablesOK /\ Kept
    BY DEF IInv, TypesOK
  <1>3. consoleTab' = [p \in Pages |-> IF consoleTab[p] >= 0 THEN -1 ELSE consoleTab[p]]
    BY DEF removeConsole
  <1>4. devices' = [d \in Ids |-> IF \E p \in Pages : consoleTab[p] = d THEN NULL ELSE devices[d]]
    BY DEF removeConsole
  <1>5. \A p \in Pages, d \in Ids : consoleTab[p] = d => consoleTab[p] >= 0 /\ devices[d] = Device("console", p)
    BY <1>2, DevsAssumption DEF Kept, Ids
  <1>6. TablesOK'
    BY <1>2, <1>3, <1>4 DEF TablesOK, Entries, serialVars, mouseVars, diskVars
  <1>7. Kept'
    <2>1. \A q \in Pages : consoleTab'[q] < 0
      BY <1>2, <1>3 DEF TablesOK
    <2>2. \A q \in Ports : serialTab'[q] >= 0 => serialTab'[q] \in Ids /\ devices'[serialTab'[q]] = Device("serial", q)
      BY <1>2, <1>4, <1>5, IdsDiffer DEF Kept, serialVars
    <2>3. \A v \in Drives : diskTab'[v] >= 0 => diskTab'[v] \in Ids /\ devices'[diskTab'[v]] = Device("disk", v)
      BY <1>2, <1>4, <1>5, IdsDiffer DEF Kept, diskVars
    <2> QED
      BY <1>6, <2>1, <2>2, <2>3 DEF Kept, TablesOK
  <1>8. MouseKept'
    BY <1>1, <1>4, MouseDiffers DEF IInv, MouseKept, CallsAside, KeptOps, mouseVars
  <1>9. \A d \in Ids : (IsDisk(devices[d]) \/ IsDisk(devices'[d])) => devices'[d] = devices[d]
    BY <1>4, <1>5, DeviceParts DEF IsDisk
  <1> QED
    BY <1>1, <1>6, <1>7, <1>8, <1>9, TableStep, Aside

\* A call of the console that goes on, and the keyboard task
LEMMA ConsoleQuiet ==
    ASSUME IInv, UNCHANGED <<linked, serialVars, mouseVars, diskVars>>,
           \/ \E t \in Tasks : removed(t) \/ keyTest(t) \/ keyTake(t)
           \/ readTaskCheck \/ readTaskStore
           \/ \E k \in Keys : readTaskKey(k)
           \/ \E p \in Pages : readTaskFocus(p)
    PROVE  Onward
  <1>1. CallsOK
    BY DEF IInv, TypesOK
  <1>2. ASSUME NEW t \in Tasks, removed(t) \/ keyTest(t) \/ keyTake(t)
        PROVE  CallsAside
    <2>1. call[t].op \in {"removeConsole", "consoleRead"}
      BY <1>2, Zenon DEF removed, keyTest, keyTake, Runs
    <2>2. call[t].op \notin KeptOps
      BY <2>1 DEF KeptOps, DiskOps
    <2>3. CASE \E at : Goto(t, at)
      BY <1>1, <2>2, <2>3, GoesTo
    <2>4. CASE \E value : Leave(t, value)
      BY <1>1, <2>2, <2>4, Leaves
    <2>5. ASSUME NEW cnt, Enter(t, [call[t] EXCEPT !.cnt = cnt, !.at = "test"]) PROVE CallsAside
      <3> DEFINE f == [call[t] EXCEPT !.cnt = cnt, !.at = "test"]
      <3>1. "op" \in DOMAIN f /\ f.op = call[t].op
        BY <1>1 DEF CallsOK
      <3> QED
        BY <1>1, <2>2, <2>5, <3>1, Moves DEF Enter
    <2> QED
      BY <1>2, <2>3, <2>4, <2>5, Zenon DEF removed, keyTest, keyTake
  <1>3. ASSUME readTaskCheck \/ readTaskStore \/ (\E k \in Keys : readTaskKey(k)) \/ (\E p \in Pages : readTaskFocus(p))
        PROVE  CallsAside
    <2>1. UNCHANGED call \/ \E ts, d : Notify(ts, d, call)
      BY <1>3 DEF readTaskCheck, readTaskStore, readTaskKey, readTaskFocus
    <2> QED
      BY <1>1, <2>1, Notifies, Rests
  <1>4. UNCHANGED <<devices, consoleTab>>
    BY Zenon DEF removed, keyTest, keyTake, readTaskCheck, readTaskStore, readTaskKey, readTaskFocus
  <1> QED
    BY <1>2, <1>3, <1>4, QuietStep DEF tableVars, serialVars, mouseVars, diskVars

\* Every step of the console
LEMMA ConsoleSteps == ASSUME IInv, ConsoleStep, UNCHANGED linked PROVE Onward
  <1>1. Applications \subseteq Tasks
    BY ProgramTasks DEF IInv, Applications
  <1> QED
    BY <1>1, installConsoleStep, createConsoleStep, deleteConsoleStep, removeConsoleStep, ConsoleQuiet
    DEF ConsoleStep

-----------------------------------------------------------------------------
(* The client calls, but those of disks.                                   *)

\* select() changes no table
LEMMA SelectSteps ==
    ASSUME IInv, NEW t \in Tasks, UNCHANGED linked,
           selected(t) \/ \E ds \in SUBSET Ids, type \in {"read", "write"} : select(t, type, ds)
    PROVE  Onward
  <1>1. CallsOK
    BY DEF IInv, TypesOK
  <1>2. UNCHANGED <<devices, serialVars, mouseVars, consoleVars, diskVars>>
    BY DEF selected, select
  <1>3. CASE selected(t)
    <2>1. call[t].op \notin KeptOps
      BY <1>3 DEF selected, Runs, KeptOps, DiskOps
    <2>2. CallsAside
      BY <1>1, <1>3, <2>1, Leaves DEF selected
    <2> QED
      BY <1>2, <2>2, QuietStep DEF tableVars, serialVars, mouseVars, consoleVars, diskVars
  <1>4. ASSUME NEW ds \in SUBSET Ids, NEW type \in {"read", "write"}, select(t, type, ds) PROVE CallsAside
    <2> DEFINE f(on) == [op |-> "select", type |-> type, on |-> on, at |-> "woken", got |-> 0]
    <2>1. call[t].op \notin KeptOps
      BY <1>4, IdleAside DEF select
    <2>2. ASSUME NEW on, Enter(t, f(on)) PROVE CallsAside
      <3>1. "op" \in DOMAIN f(on) /\ f(on).op \notin KeptOps
        BY DEF KeptOps, DiskOps
      <3> QED
        BY <1>1, <2>1, <2>2, <3>1, Moves DEF Enter
    <2> QED
      BY <1>1, <1>4, <2>1, <2>2, Leaves DEF select
  <1> QED
    BY <1>2, <1>3, <1>4, QuietStep DEF tableVars, serialVars, mouseVars, consoleVars, diskVars

\* A task calls a port, a console or the mouse
LEMMA CharacterSteps ==
    ASSUME IInv, NEW t \in Tasks, UNCHANGED <<linked, diskVars>>,
           \/ /\ UNCHANGED <<consoleVars, mouseVars>>
              /\ \E p, n : serialRead(t, p, n) \/ serialWrite(t, p, n) \/ serialIoctl(t, p, n)
           \/ /\ UNCHANGED <<serialVars, mouseVars>>
              /\ \E p, n : consoleRead(t, p, n) \/ consoleWrite(t, p, n) \/ consoleIoctl(t, p, n)
           \/ UNCHANGED consoleVars /\ (mouseRead(t) \/ \E m : mouseIoctl(t, m))
    PROVE  Onward
  <1>1. CallsOK
    BY DEF IInv, TypesOK
  <1>2. UNCHANGED tableVars
    BY DEF serialRead, serialWrite, serialIoctl, consoleRead, consoleWrite, consoleIoctl, mouseRead, mouseIoctl,
           tableVars, serialVars, mouseVars, consoleVars, diskVars
  <1>3. CallsAside
    <2>1. call[t].op \notin KeptOps
      BY IdleAside DEF serialRead, serialWrite, serialIoctl, consoleRead, consoleWrite, consoleIoctl,
                       mouseRead, mouseIoctl
    <2>2. CASE UNCHANGED call \/ Leave(t, 0)
      BY <1>1, <2>1, <2>2, Leaves, Rests
    <2>3. ASSUME NEW p, NEW n, serialRead(t, p, n) \/ serialWrite(t, p, n) \/ consoleRead(t, p, n) PROVE CallsAside
      <3>1. PICK f \in {[op |-> "serialRead", port |-> p, left |-> n, at |-> "test", got |-> 0],
                        [op |-> "serialWrite", port |-> p, left |-> n, at |-> "test", got |-> 0],
                        [op |-> "consoleRead", page |-> p, size |-> n, cnt |-> 0, at |-> "test", got |-> 0]} :
                call' = [call EXCEPT ![t] = f]
        BY <2>3 DEF serialRead, serialWrite, consoleRead, Enter
      <3>2. "op" \in DOMAIN f /\ f.op \notin KeptOps
        BY <3>1 DEF KeptOps, DiskOps
      <3> QED
        BY <1>1, <2>1, <3>1, <3>2, Moves
    <2> QED
      BY <2>2, <2>3 DEF serialIoctl, consoleWrite, consoleIoctl, mouseRead, mouseIoctl
  <1> QED
    BY <1>2, <1>3, QuietStep

-----------------------------------------------------------------------------
(* The disks.                                                              *)

InBios(f) == f.op \in DiskOps /\ f.at = "bios"

\* A task goes on from one call of the disks to the next, and no table changes:
\* what there is to show of its new call
LEMMA DiskMoves ==
    ASSUME IInv, NEW t \in linked.tasks, NEW f, "op" \in DOMAIN f, f.op \in DiskOps \cup {"out"},
           call[t].op \in DiskOps \cup {"out"}, call' = [call EXCEPT ![t] = f],
           UNCHANGED <<linked, tableVars, disks>>,
           f.op \in DiskOps => disks /\ f \in DiskFrames,
           f.op = "diskCreate" => Creating(t, f.drive)
                                  \/ (diskTab[f.drive] < 0 /\ \A u \in Tasks : ~Creating(u, f.drive)),
           inBios' = IF InBios(f) THEN inBios \cup {t} ELSE inBios \ {t},
           InBios(f) => inBios = {} /\ bcallSem' = t,
           t \in inBios \/ InBios(f) \/ UNCHANGED bcallSem,
           DOMAIN done' = Tasks, DOMAIN missed' = Tasks,
           \A u \in Tasks \ {t} : done'[u] = done[u] /\ missed'[u] = missed[u],
           f.op = "disk" => f.cnt < f.size /\ done'[t] \cup missed'[t] = 0 .. f.cnt - 1,
           (call[t].op = "disk" /\ f.op = "out" /\ f.got >= 0)
                => f.got = call[t].size /\ done'[t] \cup missed'[t] = 0 .. call[t].size - 1
    PROVE  Onward
  <1> USE DEF IInv
  <1>1. t \in Tasks /\ CallsOK
    BY ProgramTasks DEF TypesOK
  <1>2. call'[t] = f /\ DOMAIN call' = Tasks /\ \A u \in Tasks \ {t} : call'[u] = call[u]
    BY <1>1 DEF CallsOK
  <1>3. TypesOK'
    <2>1. CallsOK'
      BY <1>1, <1>2 DEF CallsOK
    <2> QED
      BY <1>1, <2>1 DEF TypesOK, TablesOK, tableVars
  <1>4. Kept' /\ DisksKept'
    BY DEF Kept, DisksKept, tableVars
  <1>5. MouseKept'
    <2>1. f.op # "deleteMouse"
      BY DEF DiskOps
    <2>2. ASSUME NEW u \in Tasks, call'[u].op = "deleteMouse" PROVE call[u].op = "deleteMouse"
      BY <1>2, <2>1, <2>2
    <2> QED
      BY <2>2 DEF MouseKept, tableVars
  <1>6. CreatesNew'
    <2>1. ASSUME NEW u \in Tasks \ {t}, NEW v PROVE Creating(u, v)' <=> Creating(u, v)
      BY <1>2 DEF Creating
    <2>2. ASSUME NEW v PROVE Creating(t, v)' <=> (f.op = "diskCreate" /\ f.drive = v)
      BY <1>2 DEF Creating
    <2>3. ASSUME NEW v \in Drives, f.op = "diskCreate", f.drive = v
          PROVE  diskTab[v] < 0 /\ \A u \in Tasks \ {t} : ~Creating(u, v)
      BY <1>1, <2>3 DEF CreatesNew
    <2> QED
      BY <1>1, <2>1, <2>2, <2>3 DEF CreatesNew, tableVars
  <1>7. DiskCalls'
    <2>1. \A u \in inBios : u = bcallSem /\ u \in Tasks
      BY DEF DiskCalls, TypesOK
    <2>2. ASSUME NEW u \in Tasks PROVE call'[u].op \in DiskOps => disks' /\ u \in linked'.tasks /\ call'[u] \in DiskFrames
      BY <1>1, <1>2 DEF DiskCalls, tableVars, DiskOps
    <2>3. ASSUME NEW u \in Tasks PROVE u \in inBios' <=> (call'[u].op \in DiskOps /\ call'[u].at = "bios")
      BY <1>1, <1>2 DEF DiskCalls, InBios
    <2>4. \A u \in inBios' : bcallSem' = u
      BY <1>1, <2>1 DEF DiskCalls
    <2> QED
      BY <2>2, <2>3, <2>4 DEF DiskCalls
  <1>8. Passed'
    BY <1>1, <1>2 DEF Passed
  <1>9. WholeCalls
    BY <1>2 DEF WholeCalls
  <1> QED
    BY <1>3, <1>4, <1>5, <1>6, <1>7, <1>8, <1>9 DEF Onward

\* What a task in a disk call looks like, and who is in the BIOS
LEMMA DiskCaller ==
    ASSUME IInv, NEW t \in Tasks, call[t].op \in DiskOps
    PROVE  /\ t \in linked.tasks /\ disks /\ call[t] \in DiskFrames /\ "op" \in DOMAIN call[t]
           /\ call[t].at = "bios" <=> t \in inBios
           /\ DOMAIN done = Tasks /\ DOMAIN missed = Tasks
           /\ t \in inBios => inBios = {t} /\ bcallSem = t
  BY DEF IInv, TypesOK, DiskCalls, CallsOK

\* Who is in no disk call is not in the BIOS
LEMMA NotInBios ==
    ASSUME IInv, NEW t \in Tasks, call[t].op \notin DiskOps
    PROVE  t \notin inBios
  BY DEF IInv, DiskCalls

\* The semaphore is free: nobody is in the BIOS
LEMMA getBiosStep ==
    ASSUME IInv, NEW t \in Tasks, getBios(t), UNCHANGED <<linked, selectVars, serialVars, mouseVars, consoleVars>>
    PROVE  Onward
  <1> DEFINE f == [call[t] EXCEPT !.at = "bios"]
  <1>1. call[t].op \in DiskOps /\ call' = [call EXCEPT ![t] = f] /\ bcallSem = NULL /\ bcallSem' = t
        /\ inBios' = inBios \cup {t} /\ UNCHANGED <<devices, disks, diskTab, done, missed>>
    BY DEF getBios, Goto
  <1>2. call[t] \in DiskFrames /\ t \in linked.tasks /\ disks /\ DOMAIN done = Tasks /\ DOMAIN missed = Tasks
    BY <1>1, DiskCaller
  <1>3. f \in DiskFrames /\ f.op = call[t].op /\ f.at = "bios" /\ "op" \in DOMAIN f
    BY <1>2 DEF DiskFrames
  <1>4. call[t].op = "diskCreate" => f.drive = call[t].drive
    BY <1>2 DEF DiskFrames
  <1>5. call[t].op = "disk" => f.cnt = call[t].cnt /\ f.size = call[t].size
    BY <1>2 DEF DiskFrames
  <1>6. inBios = {}
    BY <1>1, NoTask DEF IInv, DiskCalls, TypesOK
  <1>7. call[t].op = "disk" => call[t].cnt < call[t].size /\ done[t] \cup missed[t] = 0 .. call[t].cnt - 1
    BY DEF IInv, Passed
  <1>8. UNCHANGED tableVars
    BY <1>1 DEF tableVars, serialVars, mouseVars, consoleVars
  <1>9. InBios(f)
    BY <1>1, <1>3 DEF InBios
  <1>10. f.op = "diskCreate" => Creating(t, f.drive)
    BY <1>3, <1>4 DEF Creating
  <1> HIDE DEF f
  <1> QED
    BY <1>1, <1>2, <1>3, <1>5, <1>6, <1>7, <1>8, <1>9, <1>10, DiskMoves

\* A call of a disk ends with nothing but its result
LEMMA DiskEnds ==
    ASSUME IInv, NEW t \in Tasks, call[t].op \in DiskOps, NEW value, Leave(t, value),
           UNCHANGED <<linked, tableVars, disks>>, inBios' = inBios \ {t}, t \in inBios \/ UNCHANGED bcallSem,
           DOMAIN done' = Tasks, DOMAIN missed' = Tasks,
           \A u \in Tasks \ {t} : done'[u] = done[u] /\ missed'[u] = missed[u],
           (call[t].op = "disk" /\ value >= 0)
                => value = call[t].size /\ done'[t] \cup missed'[t] = 0 .. call[t].size - 1
    PROVE  Onward
  <1> DEFINE f == [op |-> "out", got |-> value]
  <1>1. t \in linked.tasks
    BY DiskCaller
  <1>2. "op" \in DOMAIN f /\ f.op = "out" /\ f.got = value /\ "out" \notin DiskOps /\ call' = [call EXCEPT ![t] = f]
    BY DEF Leave, DiskOps
  <1>3. ~InBios(f)
    BY <1>2 DEF InBios
  <1> HIDE DEF f
  <1> QED
    BY <1>1, <1>2, <1>3, DiskMoves

\* ...at the end of the BIOS's, or when the wait for the semaphore ends
LEMMA DiskEndSteps ==
    ASSUME IInv, NEW t \in Tasks, UNCHANGED <<linked, selectVars, serialVars, mouseVars, consoleVars>>,
           diskInstalled(t) \/ diskOpened(t) \/ diskOpenTimeout(t)
    PROVE  Onward
  <1>1. call[t].op \in DiskOps
    BY DEF diskInstalled, diskOpened, diskOpenTimeout, putBios, Runs, DiskOps
  <1>7. call[t].op # "disk"
    BY DEF diskInstalled, diskOpened, diskOpenTimeout, putBios, Runs
  <1>2. PICK value : Leave(t, value)
    BY DEF diskInstalled, diskOpened, diskOpenTimeout
  <1>3. UNCHANGED <<devices, disks, diskTab, done, missed>>
    BY DEF diskInstalled, diskOpened, diskOpenTimeout, diskVars
  <1>4. UNCHANGED tableVars
    BY <1>3 DEF tableVars, serialVars, mouseVars, consoleVars
  <1>5. DOMAIN done = Tasks /\ DOMAIN missed = Tasks /\ (t \in inBios <=> call[t].at = "bios")
    BY <1>1, DiskCaller
  <1>6. inBios' = inBios \ {t} /\ (t \in inBios \/ UNCHANGED bcallSem)
    BY <1>5 DEF diskInstalled, diskOpened, diskOpenTimeout, putBios, Runs, diskVars
  <1> QED
    BY <1>1, <1>2, <1>3, <1>4, <1>5, <1>6, <1>7, DiskEnds

\* The BIOS has told of the drive, which is still being created
LEMMA diskAskedStep ==
    ASSUME IInv, NEW t \in Tasks, diskAsked(t), UNCHANGED <<linked, selectVars, serialVars, mouseVars, consoleVars>>
    PROVE  Onward
  <1>1. call[t].op = "diskCreate" /\ call[t].op \in DiskOps /\ call[t].at = "bios" /\ inBios' = inBios \ {t}
        /\ UNCHANGED <<devices, disks, diskTab, done, missed>>
    BY DEF diskAsked, putBios, Runs, DiskOps
  <1>2. UNCHANGED tableVars
    BY <1>1 DEF tableVars, serialVars, mouseVars, consoleVars
  <1>3. call[t] \in DiskFrames /\ t \in linked.tasks /\ disks /\ t \in inBios /\ DOMAIN done = Tasks /\ DOMAIN missed = Tasks
    BY <1>1, DiskCaller
  <1>4. CASE \E e : Leave(t, e)
    BY <1>1, <1>2, <1>3, <1>4, DiskEnds
  <1>5. CASE Goto(t, "add")
    <2> DEFINE f == [call[t] EXCEPT !.at = "add"]
    <2>1. f \in DiskFrames /\ f.op = "diskCreate" /\ f.at = "add" /\ "op" \in DOMAIN f /\ f.drive = call[t].drive
      BY <1>1, <1>3 DEF DiskFrames
    <2>2. call' = [call EXCEPT ![t] = f] /\ ~InBios(f) /\ Creating(t, f.drive)
      BY <1>1, <1>5, <2>1 DEF Goto, InBios, Creating
    <2> HIDE DEF f
    <2> QED
      BY <1>1, <1>2, <1>3, <2>1, <2>2, DiskMoves DEF DiskOps
  <1> QED
    BY <1>4, <1>5 DEF diskAsked

\* The drive to create is not there and created by nobody else
LEMMA createBIOSDiskStep ==
    ASSUME ~Recreates, IInv, NEW t \in linked.tasks, NEW v \in Drives, createBIOSDisk(t, v),
           UNCHANGED <<linked, selectVars, serialVars, mouseVars, consoleVars>>
    PROVE  Onward
  <1> DEFINE f == [op |-> "diskCreate", drive |-> v, at |-> "get", got |-> 0]
  <1>1. f \in DiskFrames /\ f.op = "diskCreate" /\ f.at = "get" /\ f.drive = v /\ "op" \in DOMAIN f
    BY DEF DiskFrames
  <1>2. call[t].op = "out" /\ disks /\ call' = [call EXCEPT ![t] = f] /\ UNCHANGED <<devices, diskVars>>
        /\ diskTab[v] < 0 /\ \A u \in Tasks : ~Creating(u, v)
    BY DEF createBIOSDisk, Idle, Enter, Creating
  <1>3. t \in Tasks /\ t \notin inBios /\ DOMAIN done = Tasks /\ DOMAIN missed = Tasks
    BY <1>2, ProgramTasks, NotInBios DEF IInv, TypesOK, DiskOps
  <1>4. UNCHANGED tableVars /\ ~InBios(f)
    BY <1>1, <1>2 DEF tableVars, serialVars, mouseVars, consoleVars, diskVars, InBios
  <1> HIDE DEF f
  <1> QED
    BY <1>1, <1>2, <1>3, <1>4, DiskMoves DEF diskVars, DiskOps

\* open() and a transfer of an installed driver's disk
LEMMA DiskClient ==
    ASSUME IInv, NEW t \in linked.tasks, NEW d, Serves(d, "disk"),
           UNCHANGED <<linked, selectVars, serialVars, mouseVars, consoleVars>>,
           diskOpen(t, devices[d].unit) \/ \E n \in Sectors : diskTransfer(t, devices[d].unit, n)
    PROVE  Onward
  <1>1. d \in Ids /\ IsDisk(devices[d])
    BY DEF Serves, deviceError, IsDisk, EDEVICEID, EBADDEV
  <1>2. disks /\ devices[d].unit \in Drives
    BY <1>1 DEF IInv, DisksKept
  <1>3. call[t].op = "out"
    BY DEF diskOpen, diskTransfer, Idle
  <1>4. t \in Tasks /\ t \notin inBios /\ DOMAIN done = Tasks /\ DOMAIN missed = Tasks
    BY <1>3, ProgramTasks, NotInBios DEF IInv, TypesOK, DiskOps
  <1>5. UNCHANGED <<tableVars, disks, inBios, bcallSem>>
    BY DEF diskOpen, diskTransfer, diskVars, tableVars, serialVars, mouseVars, consoleVars
  <1>6. CASE diskOpen(t, devices[d].unit)
    <2> DEFINE f == [op |-> "diskOpen", drive |-> devices[d].unit, at |-> "get", got |-> 0]
    <2>1. f \in DiskFrames /\ f.op = "diskOpen" /\ f.at = "get" /\ "op" \in DOMAIN f
      BY <1>2 DEF DiskFrames
    <2>2. call' = [call EXCEPT ![t] = f] /\ UNCHANGED <<done, missed>> /\ ~InBios(f)
      BY <1>6, <2>1 DEF diskOpen, Enter, diskVars, InBios
    <2> HIDE DEF f
    <2> QED
      BY <1>2, <1>3, <1>4, <1>5, <2>1, <2>2, DiskMoves DEF DiskOps
  <1>7. ASSUME NEW n \in Sectors, diskTransfer(t, devices[d].unit, n) PROVE Onward
    <2> DEFINE f == [op |-> "disk", drive |-> devices[d].unit, size |-> n, cnt |-> 0, at |-> "get", got |-> 0]
    <2>1. n \in Nat \ {0}
      BY DiskAssumption
    <2>2. f \in DiskFrames /\ f.op = "disk" /\ f.at = "get" /\ "op" \in DOMAIN f /\ f.cnt = 0 /\ f.size = n
      BY <1>2, <2>1 DEF DiskFrames
    <2>3. call' = [call EXCEPT ![t] = f] /\ ~InBios(f)
          /\ done' = [done EXCEPT ![t] = {}] /\ missed' = [missed EXCEPT ![t] = {}]
      BY <1>7, <2>2 DEF diskTransfer, Enter, InBios
    <2>4. done'[t] \cup missed'[t] = {} /\ DOMAIN done' = Tasks /\ DOMAIN missed' = Tasks
          /\ \A u \in Tasks \ {t} : done'[u] = done[u] /\ missed'[u] = missed[u]
      BY <1>4, <2>3
    <2>5. f.cnt < f.size /\ done'[t] \cup missed'[t] = 0 .. f.cnt - 1
      BY <2>1, <2>2, <2>4
    <2>6. inBios' = IF InBios(f) THEN inBios \cup {t} ELSE inBios \ {t}
      BY <1>4, <1>5, <2>3
    <2>7. f.op \in DiskOps \cup {"out"} /\ call[t].op \in DiskOps \cup {"out"} /\ f.op # "diskCreate"
          /\ f.op # "out"
      BY <1>3, <2>2 DEF DiskOps
    <2>8. disks /\ f \in DiskFrames /\ "op" \in DOMAIN f /\ call' = [call EXCEPT ![t] = f] /\ ~InBios(f)
      BY <1>2, <2>2, <2>3
    <2> HIDE DEF f
    <2> QED
      BY <1>5, <2>4, <2>5, <2>6, <2>7, <2>8, DiskMoves
  <1> QED
    BY <1>6, <1>7

\* The sectors before the next are those before this one, and this one
LEMMA OneMore == \A k \in Nat : 0 .. k = (0 .. k - 1) \cup {k}
  OBVIOUS

\* An error is no count
LEMMA ErrorsNegative == ETIMEOUT \in Int /\ ETIMEOUT < 0 /\ EINTERNAL \in Int /\ EINTERNAL < 0
  BY DEF ETIMEOUT, EINTERNAL

\* ...nor success
LEMMA NegativeNotZero == \A e \in Int : e < 0 => e # 0
  OBVIOUS

\* The sector a task in the BIOS has asked for is passed, unless the call fails
LEMMA SectorPassed ==
    ASSUME IInv, NEW t \in Tasks, diskSector(t)
    PROVE  /\ call[t].op = "disk" /\ call[t].cnt \in Nat /\ call[t].size \in Nat /\ call[t].cnt < call[t].size
           /\ DOMAIN done' = Tasks /\ DOMAIN missed' = Tasks
           /\ \A u \in Tasks \ {t} : done'[u] = done[u] /\ missed'[u] = missed[u]
           /\ \/ \E value \in {ETIMEOUT, EINTERNAL} : Leave(t, value)
              \/ /\ done'[t] \cup missed'[t] = 0 .. call[t].cnt
                 /\ \/ call[t].cnt + 1 = call[t].size /\ Leave(t, call[t].cnt + 1)
                    \/ /\ call[t].cnt + 1 # call[t].size
                       /\ Enter(t, [call[t] EXCEPT !.cnt = call[t].cnt + 1, !.at = "get"])
  <1> DEFINE cnt == call[t].cnt
  <1>1. call[t].op = "disk"
    BY Zenon DEF diskSector, putBios, Runs
  <1>2. call[t] \in DiskFrames /\ DOMAIN done = Tasks /\ DOMAIN missed = Tasks
    BY <1>1, DiskCaller DEF DiskOps
  <1>3. cnt \in Nat /\ call[t].size \in Nat
    BY <1>1, <1>2 DEF DiskFrames
  <1>4. cnt < call[t].size /\ done[t] \cup missed[t] = 0 .. cnt - 1
    BY <1>1 DEF IInv, Passed
  <1>5. PICK code \in {"ok", "corrected", "changed", "timeout", "not ready", "failed"} :
            /\ done' = IF code \in {"ok", "corrected"} THEN [done EXCEPT ![t] = @ \cup {cnt}] ELSE done
            /\ missed' = IF code = "changed" THEN [missed EXCEPT ![t] = @ \cup {cnt}] ELSE missed
            /\ IF handleBIOSError(code) # 0 THEN Leave(t, handleBIOSError(code))
               ELSE IF cnt + 1 = call[t].size THEN Leave(t, cnt + 1)
               ELSE Enter(t, [call[t] EXCEPT !.cnt = cnt + 1, !.at = "get"])
    BY Zenon DEF diskSector
  <1>6. DOMAIN done' = Tasks /\ DOMAIN missed' = Tasks
        /\ \A u \in Tasks \ {t} : done'[u] = done[u] /\ missed'[u] = missed[u]
    BY <1>2, <1>5, Zenon
  <1>7. CASE code \in {"ok", "corrected", "changed"}
    <2>1. handleBIOSError(code) = 0
      BY <1>7, Zenon DEF handleBIOSError
    <2>2. done'[t] \cup missed'[t] = (done[t] \cup missed[t]) \cup {cnt}
      BY <1>2, <1>5, <1>7, Zenon
    <2>3. 0 .. cnt = (0 .. cnt - 1) \cup {cnt}
      BY <1>3, OneMore, Zenon
    <2>4. done'[t] \cup missed'[t] = 0 .. cnt
      BY <1>4, <2>2, <2>3, Zenon
    <2> QED
      BY <1>1, <1>3, <1>4, <1>5, <1>6, <2>1, <2>4, Zenon
  <1>8. CASE code \in {"timeout", "not ready", "failed"}
    <2>1. handleBIOSError(code) = ETIMEOUT \/ handleBIOSError(code) = EINTERNAL
      BY <1>8, Zenon DEF handleBIOSError
    <2>2. handleBIOSError(code) # 0
      <3>1. ETIMEOUT # 0 /\ EINTERNAL # 0
        BY ErrorsNegative, NegativeNotZero, Zenon
      <3> QED
        BY <2>1, <3>1, Zenon
    <2> QED
      BY <1>1, <1>3, <1>4, <1>5, <1>6, <2>1, <2>2, Zenon
  <1> QED
    BY <1>7, <1>8, Zenon

\* One sector more, or the end of the call
LEMMA diskSectorStep ==
    ASSUME IInv, NEW t \in Tasks, diskSector(t), UNCHANGED <<linked, selectVars, serialVars, mouseVars, consoleVars>>
    PROVE  Onward
  <1>1. call[t].op = "disk" /\ call[t].op \in DiskOps /\ call[t].at = "bios" /\ inBios' = inBios \ {t}
        /\ UNCHANGED <<devices, disks, diskTab>>
    BY Zenon DEF diskSector, putBios, Runs, DiskOps
  <1>2. UNCHANGED tableVars
    BY <1>1 DEF tableVars, serialVars, mouseVars, consoleVars
  <1>3. call[t] \in DiskFrames /\ t \in linked.tasks /\ disks /\ t \in inBios
    BY <1>1, DiskCaller
  <1>4. ASSUME NEW value \in Int, Leave(t, value),
               value < 0 \/ (value = call[t].size /\ done'[t] \cup missed'[t] = 0 .. call[t].size - 1)
        PROVE  Onward
    <2>1. value >= 0 => value = call[t].size /\ done'[t] \cup missed'[t] = 0 .. call[t].size - 1
      BY <1>4
    <2> QED
      BY <1>1, <1>2, <1>3, <1>4, <2>1, SectorPassed, DiskEnds, Zenon
  <1>5. ASSUME Enter(t, [call[t] EXCEPT !.cnt = call[t].cnt + 1, !.at = "get"]), call[t].cnt + 1 # call[t].size,
               done'[t] \cup missed'[t] = 0 .. call[t].cnt
        PROVE  Onward
    <2> DEFINE f == [call[t] EXCEPT !.cnt = call[t].cnt + 1, !.at = "get"]
    <2>1. call[t].cnt \in Nat /\ call[t].size \in Nat /\ call[t].cnt < call[t].size
      BY SectorPassed, Zenon
    <2>2. f \in DiskFrames /\ f.op = "disk" /\ f.at = "get" /\ "op" \in DOMAIN f
          /\ f.cnt = call[t].cnt + 1 /\ f.size = call[t].size
      <3>1. call[t] \in [op : {"disk"}, drive : Drives, size : Nat, cnt : Nat, at : {"get", "bios"}, got : Int]
        BY <1>1, <1>3 DEF DiskFrames
      <3>2. f \in [op : {"disk"}, drive : Drives, size : Nat, cnt : Nat, at : {"get", "bios"}, got : Int]
        <4>1. call[t].cnt + 1 \in Nat
          BY <2>1
        <4> QED
          BY <3>1, <4>1
      <3> QED
        BY <3>1, <3>2 DEF DiskFrames
    <2>3. f.cnt < f.size /\ done'[t] \cup missed'[t] = 0 .. f.cnt - 1
      BY <1>5, <2>1, <2>2
    <2>4. call' = [call EXCEPT ![t] = f] /\ ~InBios(f)
      BY <1>5, <2>2 DEF Enter, InBios
    <2>5. DOMAIN done' = Tasks /\ DOMAIN missed' = Tasks
          /\ \A u \in Tasks \ {t} : done'[u] = done[u] /\ missed'[u] = missed[u]
      BY SectorPassed, Zenon
    <2>6. f.op \in DiskOps \cup {"out"} /\ call[t].op \in DiskOps \cup {"out"} /\ f.op # "diskCreate"
      BY <1>1, <2>2 DEF DiskOps
    <2> HIDE DEF f
    <2> QED
      BY <1>1, <1>2, <1>3, <2>2, <2>3, <2>4, <2>5, <2>6, DiskMoves
  <1>6. CASE \E value \in {ETIMEOUT, EINTERNAL} : Leave(t, value)
    BY <1>4, <1>6, ErrorsNegative
  <1>7. CASE /\ done'[t] \cup missed'[t] = 0 .. call[t].cnt
             /\ call[t].cnt + 1 = call[t].size /\ Leave(t, call[t].cnt + 1)
    <2>1. call[t].cnt \in Nat
      BY SectorPassed, Zenon
    <2>2. \A k \in Nat : k + 1 \in Int /\ (k + 1) - 1 = k
      OBVIOUS
    <2>3. call[t].cnt + 1 \in Int /\ call[t].size - 1 = call[t].cnt
      BY <1>7, <2>1, <2>2
    <2> QED
      BY <1>4, <1>7, <2>3
  <1> QED
    BY <1>5, <1>6, <1>7, SectorPassed, Zenon

\* A change of the disk is seen by the next transfer alone
LEMMA MediaStep ==
    ASSUME IInv, NEW v \in Drives, MediaChanges(v), UNCHANGED <<linked, selectVars, serialVars, mouseVars, consoleVars>>
    PROVE  Onward
  BY DEF MediaChanges, IInv, TypesOK, CallsOK, TablesOK, Kept, DisksKept, MouseKept, CreatesNew, Creating, DiskCalls,
         Passed, Onward, WholeCalls, serialVars, mouseVars, consoleVars

\* Steps of the disks that change the table.  No disk is there before the
\* driver is installed
LEMMA installBIOSDiskStep ==
    ASSUME IInv, NEW t \in linked.tasks, installBIOSDisk(t),
           UNCHANGED <<linked, selectVars, serialVars, mouseVars, consoleVars>>
    PROVE  Onward
  <1> USE DEF IInv
  <1> DEFINE f == [op |-> "diskInstall", at |-> "get", got |-> 0]
  <1>1. f \in DiskFrames /\ f.op = "diskInstall" /\ f.at = "get" /\ "op" \in DOMAIN f
    BY DEF DiskFrames
  <1>2. call[t].op = "out" /\ ~disks /\ disks' /\ diskTab' = [v \in Drives |-> -1] /\ call' = [call EXCEPT ![t] = f]
        /\ UNCHANGED <<devices, inBios, done, missed>>
    BY DEF installBIOSDisk, Idle, Enter
  <1>3. UNCHANGED <<serialTab, consoleTab, mouseTab, readTask>>
    BY DEF serialVars, mouseVars, consoleVars
  <1>4. t \in Tasks /\ CallsOK
    BY ProgramTasks DEF TypesOK
  <1> HIDE DEF f
  <1>5. call'[t] = f /\ DOMAIN call' = Tasks /\ \A u \in Tasks \ {t} : call'[u] = call[u]
    BY <1>2, <1>4 DEF CallsOK
  <1>6. (\A u \in Tasks : call[u].op \notin DiskOps) /\ inBios = {} /\ \A d \in Ids : ~IsDisk(devices[d])
    BY <1>2 DEF DiskCalls, DisksKept, TypesOK
  <1>7. TypesOK'
    BY <1>1, <1>2, <1>3, <1>4, <1>5 DEF TypesOK, CallsOK, TablesOK
  <1>8. Kept' /\ DisksKept'
    BY <1>2, <1>3, <1>6 DEF Kept, DisksKept
  <1>9. MouseKept'
    BY <1>1, <1>2, <1>3, <1>5 DEF MouseKept
  <1>10. CreatesNew' /\ Passed'
    BY <1>1, <1>5, <1>6 DEF CreatesNew, Creating, Passed, DiskOps
  <1>11. DiskCalls'
    BY <1>1, <1>2, <1>4, <1>5, <1>6 DEF DiskCalls, DiskOps
  <1>12. WholeCalls
    BY <1>6 DEF WholeCalls, DiskOps
  <1> QED
    BY <1>7, <1>8, <1>9, <1>10, <1>11, <1>12 DEF Onward

\* ...and none after it has been removed
LEMMA removeBIOSDiskStep ==
    ASSUME IInv, NEW t \in Tasks, removeBIOSDisk(t),
           UNCHANGED <<linked, selectVars, serialVars, mouseVars, consoleVars>>
    PROVE  Onward
  <1> USE DEF IInv
  <1>1. /\ \A u \in Tasks : call[u].op \notin DiskOps
        /\ devices' = [d \in Ids |-> IF \E v \in Drives : diskTab[v] = d THEN NULL ELSE devices[d]]
        /\ diskTab' = [v \in Drives |-> IF diskTab[v] >= 0 THEN -1 ELSE diskTab[v]]
        /\ UNCHANGED <<call, bcallSem, inBios, done, missed>>
    BY DEF removeBIOSDisk
  <1>2. UNCHANGED <<serialTab, consoleTab, mouseTab, readTask>>
    BY DEF serialVars, mouseVars, consoleVars
  <1>3. TypesOK'
    BY <1>1, <1>2 DEF TypesOK, CallsOK, TablesOK, Entries
  <1>4. \A v \in Drives, d \in Ids : diskTab[v] = d => diskTab[v] >= 0
    BY DevsAssumption DEF Ids
  <1>5. \A v \in Drives : diskTab'[v] < 0
    BY <1>1 DEF TypesOK, TablesOK
  <1>6. Kept'
    <2>1. \A q \in Ports : serialTab'[q] >= 0 => serialTab'[q] \in Ids /\ devices'[serialTab'[q]] = Device("serial", q)
      BY <1>1, <1>2, IdsDiffer DEF Kept
    <2>2. \A q \in Pages : consoleTab'[q] >= 0 => consoleTab'[q] \in Ids /\ devices'[consoleTab'[q]] = Device("console", q)
      BY <1>1, <1>2, IdsDiffer DEF Kept
    <2> QED
      BY <1>3, <1>5, <2>1, <2>2 DEF Kept, TypesOK, TablesOK
  <1>7. \A d \in Ids : ~IsDisk(devices'[d])
    BY <1>1 DEF DisksKept, IsDisk
  <1>8. MouseKept'
    BY <1>1, <1>2, MouseDiffers DEF MouseKept
  <1>9. CreatesNew' /\ DiskCalls' /\ Passed'
    BY <1>1 DEF CreatesNew, Creating, DiskCalls, Passed, DiskOps
  <1>10. WholeCalls
    BY <1>1 DEF WholeCalls, DiskOps
  <1> QED
    BY <1>3, <1>6, <1>7, <1>8, <1>9, <1>10 DEF DisksKept, Onward

\* One drive has no disk any more
LEMMA deleteBIOSDiskStep ==
    ASSUME IInv, NEW t \in Tasks, NEW v \in Drives, deleteBIOSDisk(t, v),
           UNCHANGED <<linked, selectVars, serialVars, mouseVars, consoleVars>>
    PROVE  Onward
  <1> USE DEF IInv
  <1>1. diskTab[v] >= 0 /\ diskTab' = [diskTab EXCEPT ![v] = -1]
        /\ UNCHANGED <<call, disks, bcallSem, inBios, done, missed>>
    BY DEF deleteBIOSDisk
  <1>2. UNCHANGED <<serialTab, consoleTab, mouseTab, readTask>>
    BY DEF serialVars, mouseVars, consoleVars
  <1>3. devices' \in [Ids -> Entries] /\ \A e \in Ids : devices'[e] = IF e = diskTab[v] THEN NULL ELSE devices[e]
    BY OldDevice DEF TypesOK, deleteBIOSDisk
  <1>4. TypesOK'
    BY <1>1, <1>2, <1>3 DEF TypesOK, CallsOK, TablesOK
  <1>5. Kept'
    BY <1>1, <1>2, <1>3, IdsDiffer DEF Kept, TypesOK, TablesOK
  <1>6. DisksKept'
    <2>1. ASSUME NEW d \in Ids, IsDisk(devices'[d]) PROVE disks' /\ devices'[d].unit \in Drives /\ diskTab'[devices'[d].unit] = d
      <3>1. d # diskTab[v] /\ devices'[d] = devices[d]
        BY <1>3, <2>1 DEF IsDisk
      <3>2. disks /\ devices[d].unit \in Drives /\ diskTab[devices[d].unit] = d
        BY <2>1, <3>1 DEF DisksKept
      <3> QED
        BY <1>1, <3>1, <3>2 DEF TypesOK, TablesOK
    <2> QED
      BY <2>1 DEF DisksKept
  <1>7. MouseKept'
    BY <1>1, <1>2, <1>3, MouseDiffers DEF MouseKept
  <1>8. CreatesNew'
    BY <1>1 DEF CreatesNew, Creating, TypesOK, TablesOK
  <1>9. DiskCalls' /\ Passed' /\ WholeCalls
    BY <1>1 DEF DiskCalls, Passed, WholeCalls
  <1> QED
    BY <1>4, <1>5, <1>6, <1>7, <1>8, <1>9 DEF Onward

\* A disk is added by the one task that creates it, for a drive that has none
LEMMA diskAddStep ==
    ASSUME IInv, NEW t \in Tasks, diskAdd(t),
           UNCHANGED <<linked, selectVars, serialVars, mouseVars, consoleVars>>
    PROVE  Onward
  <1> USE DEF IInv
  <1> DEFINE v == call[t].drive
             d == slot(-1)
  <1>1. /\ call[t].op = "diskCreate" /\ call[t].at = "add"
        /\ newIOSysDevice(-1, Device("disk", v)) /\ diskTab' = [diskTab EXCEPT ![v] = d]
        /\ UNCHANGED <<disks, bcallSem, inBios, done, missed>>
    BY DEF diskAdd, Runs
  <1>2. call[t] \in DiskFrames /\ disks
    BY <1>1, DiskCaller DEF DiskOps
  <1>3. v \in Drives
    BY <1>1, <1>2 DEF DiskFrames
  <1>4. diskTab[v] < 0 /\ \A u \in Tasks \ {t} : ~Creating(u, v)
    BY <1>1, <1>3 DEF CreatesNew, Creating
  <1>5. UNCHANGED <<serialTab, consoleTab, mouseTab, readTask>>
    BY DEF serialVars, mouseVars, consoleVars
  <1>6. TablesOK
    BY DEF TypesOK
  <1>7. PICK value : call' = [call EXCEPT ![t] = [op |-> "out", got |-> value]]
    BY DEF diskAdd, Leave
  <1>8. DOMAIN call' = Tasks /\ call'[t].op = "out" /\ "op" \in DOMAIN call'[t] /\ \A u \in Tasks \ {t} : call'[u] = call[u]
    BY <1>7 DEF TypesOK, CallsOK
  <1>9. Device("disk", v).drv = "disk" /\ Device("disk", v).unit = v
    BY DeviceParts
  <1>10. /\ devices' \in [Ids -> Entries]
         /\ \A e \in Ids : devices'[e] # devices[e] => e = d /\ devices[e] = NULL /\ devices'[e] = Device("disk", v)
         /\ d >= 0 => d \in Ids /\ devices[d] = NULL /\ devices'[d] = Device("disk", v)
    BY <1>1, <1>3, <1>6, NewDevice DEF Drvs, Units
  <1>11. TypesOK'
    BY <1>1, <1>5, <1>6, <1>8, <1>10, SlotFree DEF TypesOK, CallsOK, TablesOK
  <1>12. \A e \in Ids : devices[e] # NULL => devices'[e] = devices[e]
    BY <1>10
  <1> HIDE DEF v, d
  <1>13. Kept'
    <2>1. \A q \in Ports : serialTab'[q] >= 0 => serialTab'[q] \in Ids /\ devices'[serialTab'[q]] = Device("serial", q)
      BY <1>5, <1>12, NotNull DEF Kept, Drvs, Units
    <2>2. \A q \in Pages : consoleTab'[q] >= 0 => consoleTab'[q] \in Ids /\ devices'[consoleTab'[q]] = Device("console", q)
      BY <1>5, <1>12, NotNull DEF Kept, Drvs, Units
    <2>3. \A w \in Drives : diskTab'[w] >= 0 => diskTab'[w] \in Ids /\ devices'[diskTab'[w]] = Device("disk", w)
      BY <1>1, <1>6, <1>10, <1>12, NotNull DEF Kept, TablesOK, Drvs, Units
    <2> QED
      BY <2>1, <2>2, <2>3 DEF Kept
  <1>14. DisksKept'
    <2>1. ASSUME NEW e \in Ids, IsDisk(devices'[e]) PROVE disks' /\ devices'[e].unit \in Drives /\ diskTab'[devices'[e].unit] = e
      <3>1. CASE devices'[e] = devices[e]
        <4>1. devices[e].unit \in Drives /\ diskTab[devices[e].unit] = e
          BY <2>1, <3>1 DEF DisksKept
        <4>2. devices[e].unit # v
          BY <1>4, <4>1, DevsAssumption DEF Ids
        <4> QED
          BY <1>1, <1>2, <1>6, <3>1, <4>1, <4>2 DEF TablesOK
      <3>2. CASE devices'[e] # devices[e]
        BY <1>1, <1>2, <1>3, <1>6, <1>9, <1>10, <3>2 DEF TablesOK
      <3> QED
        BY <3>1, <3>2
    <2> QED
      BY <2>1 DEF DisksKept
  <1>15. MouseKept'
    BY <1>5, <1>8, <1>12 DEF MouseKept
  <1>16. CreatesNew'
    <2>1. ASSUME NEW w \in Drives, NEW u \in Tasks, Creating(u, w)'
          PROVE  Creating(u, w) /\ u # t
      BY <1>8, <2>1 DEF Creating
    <2>2. ASSUME NEW w \in Drives, NEW u \in Tasks, Creating(u, w)'
          PROVE  w # v /\ diskTab'[w] < 0
      BY <1>1, <1>4, <1>6, <2>1, <2>2 DEF CreatesNew, TablesOK
    <2> QED
      BY <2>1, <2>2 DEF CreatesNew
  <1>17. DiskCalls'
    BY <1>1, <1>8 DEF DiskCalls, DiskOps
  <1>18. Passed'
    BY <1>1, <1>8 DEF Passed
  <1>19. WholeCalls
    BY <1>1, <1>8 DEF WholeCalls
  <1> QED
    BY <1>11, <1>13, <1>14, <1>15, <1>16, <1>17, <1>18, <1>19 DEF Onward

\* Every step of the disks
LEMMA DiskSteps == ASSUME ~Recreates, IInv, DiskStep, UNCHANGED linked PROVE Onward
  <1>1. Applications \subseteq Tasks /\ Applications = linked.tasks
    BY ProgramTasks DEF IInv, Applications
  <1>2. UNCHANGED <<selectVars, serialVars, mouseVars, consoleVars>>
    BY DEF DiskStep
  <1>3. CASE \E t \in Applications, v \in Drives : createBIOSDisk(t, v) \/ deleteBIOSDisk(t, v)
    BY <1>1, <1>2, <1>3, createBIOSDiskStep, deleteBIOSDiskStep
  <1>4. ASSUME NEW t \in Applications,
               \/ installBIOSDisk(t) \/ diskInstalled(t) \/ removeBIOSDisk(t) \/ diskAsked(t) \/ diskAdd(t)
               \/ getBios(t) \/ diskOpenTimeout(t) \/ diskOpened(t) \/ diskSector(t)
        PROVE  Onward
    BY <1>1, <1>2, <1>4, installBIOSDiskStep, removeBIOSDiskStep, diskAskedStep, diskAddStep, getBiosStep,
       DiskEndSteps, diskSectorStep
  <1>5. CASE \E v \in Drives : MediaChanges(v)
    BY <1>2, <1>5, MediaStep
  <1> QED
    BY <1>3, <1>4, <1>5 DEF DiskStep

-----------------------------------------------------------------------------
(* All of the drivers' steps.                                              *)

\* A client call goes to the driver that serves the device, or to select()
LEMMA ClientStep == ASSUME IInv, Client, UNCHANGED linked PROVE Onward
  <1>1. PICK t \in Applications :
            \/ \E d \in Ids : \/ \E n \in 1 .. 2 : readDevice(t, d, n)
                              \/ writeDevice(t, d, 1)
                              \/ openDevice(t, d)
                              \/ ioctlDevice(t, d)
            \/ \E ds \in SUBSET Ids, type \in {"read", "write"} : select(t, type, ds)
            \/ selected(t)
    BY DEF Client
  <1>2. t \in Tasks /\ t \in linked.tasks
    BY ProgramTasks DEF IInv, Applications
  <1>3. ASSUME NEW d \in Ids, NEW n \in 1 .. 2, readDevice(t, d, n) PROVE Onward
    <2>1. CASE Serves(d, "disk") /\ n \in Sectors /\ diskTransfer(t, devices[d].unit, n)
                    /\ UNCHANGED <<selectVars, serialVars, mouseVars, consoleVars>>
      BY <1>2, <2>1, DiskClient
    <2>2. CASE /\ UNCHANGED diskVars
               /\ \/ serialRead(t, devices[d].unit, n) /\ UNCHANGED <<consoleVars, mouseVars>>
                  \/ consoleRead(t, devices[d].unit, n) /\ UNCHANGED <<serialVars, mouseVars>>
                  \/ mouseRead(t) /\ UNCHANGED consoleVars
      BY <1>2, <2>2, CharacterSteps
    <2> QED
      BY <1>3, <2>1, <2>2 DEF readDevice
  <1>4. ASSUME NEW d \in Ids, writeDevice(t, d, 1) PROVE Onward
    BY <1>2, <1>4, CharacterSteps DEF writeDevice
  <1>5. ASSUME NEW d \in Ids, openDevice(t, d) PROVE Onward
    BY <1>2, <1>5, DiskClient DEF openDevice
  <1>6. ASSUME NEW d \in Ids, ioctlDevice(t, d) PROVE Onward
    BY <1>2, <1>6, CharacterSteps DEF ioctlDevice
  <1>7. CASE selected(t) \/ \E ds \in SUBSET Ids, type \in {"read", "write"} : select(t, type, ds)
    BY <1>2, <1>7, SelectSteps
  <1> QED
    BY <1>1, <1>3, <1>4, <1>5, <1>6, <1>7

\* Every step of the drivers
LEMMA DriverSteps == ASSUME ~Recreates, IInv, DriverStep PROVE Onward
  BY ClientStep, SerialSteps, MouseSteps, ConsoleSteps, DiskSteps DEF DriverStep, DriversStep

-----------------------------------------------------------------------------
(* The libraries' steps.                                                   *)

\* A step of a library is that of a call that is none of a driver's
LEMMA LibraryStep ==
    ASSUME IInv, CallsAside,
           UNCHANGED <<linked, devices, serialVars, mouseVars, consoleVars, diskVars>>
    PROVE  Onward
  BY QuietStep DEF tableVars, serialVars, mouseVars, consoleVars, diskVars

\* The boot loader calls no driver
LEMMA LoaderSteps == ASSUME IInv, LoaderStep PROVE Onward
  <1>1. UNCHANGED <<linked, devices, call, serialVars, mouseVars, consoleVars, diskVars>>
    BY DEF LoaderStep, driversVars
  <1> QED
    BY <1>1, Rests, LibraryStep DEF IInv, TypesOK

\* A drawing call ends in the step it begins in
LEMMA DrawingSteps == ASSUME IInv, DrawingStep PROVE Onward
  <1>1. CallsOK
    BY DEF IInv, TypesOK
  <1>2. PICK t \in Tasks : GraphicsStep(t) \/ XDrawingStep(t)
    BY ProgramTasks DEF DrawingStep, Applications, IInv
  <1>3. Idle(t) /\ \E value : Leave(t, value)
    BY <1>2 DEF GraphicsStep, InitDriver, RemoveDriver, Draw, XDrawingStep, XDraw
  <1>4. CallsAside
    BY <1>1, <1>3, IdleAside, Leaves
  <1> QED
    BY <1>4, LibraryStep DEF DrawingStep

\* A call to DOS changes calls to DOS alone
LEMMA FatSteps ==
    ASSUME CallsOK, NEW t \in Tasks, FatStep(t)
    PROVE  CallsAside
  <1>1. ASSUME NEW frame, "op" \in DOMAIN frame, frame.op \in {"out", "fat"}, Idle(t), Called(t, frame)
        PROVE  CallsAside
    <2>1. CallsOK'
      BY <1>1 DEF CallsOK, Called
    <2>2. ASSUME NEW u \in Tasks
          PROVE  call'[u] = call[u] \/ (call[u].op \in {"out", "fat"} /\ call'[u].op \in {"out", "fat"})
      <3>1. CASE u = t
        BY <1>1, <3>1 DEF Called, Idle
      <3>2. CASE u # t /\ call[u].op = "fat"
        BY <3>2, <1>1 DEF Called, CallsOK
      <3>3. CASE u # t /\ call[u].op # "fat"
        BY <3>3, <1>1 DEF Called
      <3> QED
        BY <3>1, <3>2, <3>3
    <2> QED
      BY <2>1, <2>2 DEF CallsAside, KeptOps, DiskOps
  <1>2. CASE fatReturn(t) \/ fatSought(t)
    <2>1. call[t].op = "fat" /\ \E value : Leave(t, value)
      BY <1>2 DEF fatReturn, fatSought, Runs
    <2> QED
      BY <2>1, Leaves DEF KeptOps, DiskOps
  <1>3. ASSUME NEW path, NEW access, NEW how, fatOpen(t, path, access, how) PROVE CallsAside
    BY <1>1, <1>3 DEF fatOpen, Answer
  <1>4. ASSUME NEW h, NEW len, fatClose(t, h) \/ fatIoctl(t, h) \/ fatRead(t, h, len) \/ fatWrite(t, h, len)
        PROVE  CallsAside
    BY <1>1, <1>4 DEF fatClose, fatIoctl, fatRead, fatWrite, Answer
  <1>5. ASSUME NEW h, NEW offset, NEW from, fatLseek(t, h, offset, from) PROVE CallsAside
    BY <1>1, <1>5 DEF fatLseek
  <1> QED
    BY <1>2, <1>3, <1>4, <1>5 DEF FatStep

\* The C library and the file system driver
LEMMA KernelSteps == ASSUME IInv, KernelStep PROVE Onward
  <1>1. CallsOK
    BY DEF IInv, TypesOK
  <1>2. PICK t \in Tasks : TextOrPrint(t) \/ PoolStep(t) \/ FatStep(t)
    BY ProgramTasks DEF KernelStep, Applications, IInv
  <1>3. CallsAside
    BY <1>1, <1>2, OutputSteps, IdleAside, Leaves, FatSteps
  <1> QED
    BY <1>3, LibraryStep DEF KernelStep

\* The calls that set and clear the hooks of the idle task
LEMMA IdleSteps == ASSUME IInv, IdleStep PROVE Onward
  <1>1. CallsOK
    BY DEF IInv, TypesOK
  <1>2. CASE idleGet \/ idleTest \/ idleCall
    <2>1. UNCHANGED call
      BY <1>2 DEF idleGet, idleTest, idleCall
    <2> QED
      BY <1>1, <2>1, Rests, LibraryStep DEF IdleStep
  <1>3. ASSUME NEW t \in Tasks, hookFind(t) \/ hookStore(t) PROVE CallsAside
    <2>1. call[t].op \notin KeptOps
      BY <1>3 DEF hookFind, hookStore, Runs, KeptOps, DiskOps
    <2>2. CASE \E value : Leave(t, value)
      BY <1>1, <2>1, <2>2, Leaves
    <2>3. CASE hookFind(t) /\ Wanted(t) # {}
      <3> DEFINE f == [call[t] EXCEPT !.at = "store", !.i = CHOOSE i \in Wanted(t) : \A j \in Wanted(t) : i <= j]
      <3>1. call' = [call EXCEPT ![t] = f]
        BY <2>3 DEF hookFind
      <3>2. "op" \in DOMAIN f /\ f.op = call[t].op
        BY <1>1 DEF CallsOK
      <3> QED
        BY <1>1, <2>1, <3>1, <3>2, Moves, Zenon
    <2> QED
      BY <1>3, <2>2, <2>3 DEF hookFind, hookStore
  <1>4. ASSUME NEW t \in Tasks, NEW f, setIdleHook(t, f) \/ clearIdleHook(t, f) PROVE CallsAside
    <2>1. call[t].op \notin KeptOps
      BY <1>4, IdleAside DEF setIdleHook, clearIdleHook
    <2>2. CASE Leave(t, -1)
      BY <1>1, <2>1, <2>2, Leaves
    <2>3. ASSUME NEW op \in {"setIdleHook", "clearIdleHook"},
                 getIdleSem(t, [op |-> op, f |-> f, i |-> 0, at |-> "get", got |-> 0])
          PROVE  CallsAside
      <3> DEFINE g == [op |-> op, f |-> f, i |-> 0, at |-> "find", got |-> 0]
      <3>1. call' = [call EXCEPT ![t] = g]
        BY <2>3 DEF getIdleSem, Enter
      <3>2. "op" \in DOMAIN g /\ g.op \notin KeptOps
        BY DEF KeptOps, DiskOps
      <3> QED
        BY <1>1, <2>1, <3>1, <3>2, Moves
    <2> QED
      BY <1>4, <2>2, <2>3 DEF setIdleHook, clearIdleHook
  <1>5. \/ idleGet \/ idleTest \/ idleCall
        \/ \E t \in Tasks : \/ hookFind(t) \/ hookStore(t)
                            \/ \E f : setIdleHook(t, f) \/ clearIdleHook(t, f)
    BY ProgramTasks DEF IdleStep, HookStep, Applications, IInv
  <1> QED
    BY <1>2, <1>3, <1>4, <1>5, LibraryStep DEF IdleStep

\* The windows' calls are none of the drivers' either
LEMMA WindowSteps ==
    ASSUME CallsOK, NEW t \in Tasks, WindowStep(t)
    PROVE  CallsAside
  <1>1. CASE \/ \E value : Idle(t) /\ Leave(t, value)
             \/ \E value : call[t].op \in {"event", "unmap", "destroy", "close"} /\ Leave(t, value)
    BY <1>1, IdleAside, Leaves DEF KeptOps, DiskOps
  <1>2. ASSUME NEW f, Enter(t, f), "op" \in DOMAIN f, f.op \in {"event", "unmap", "destroy", "close"},
               call[t].op \in {"out", "event", "unmap", "destroy", "close"}
        PROVE  CallsAside
    BY <1>2, Moves DEF Enter, KeptOps, DiskOps
  <1>3. ASSUME NEW f, "op" \in DOMAIN f, f.op \in {"unmap", "destroy", "close"}, NEW np
        PROVE  "op" \in DOMAIN [f EXCEPT !.np = np] /\ [f EXCEPT !.np = np].op = f.op
    BY <1>3
  <1>4. ASSUME NEW f, Unmap(t, f) \/ Destroy(t, f), "op" \in DOMAIN f, f.op \in {"unmap", "destroy", "close"},
               call[t].op \in {"out", "event", "unmap", "destroy", "close"}
        PROVE  CallsAside
    <2>1. Leave(t, 0) \/ Enter(t, f) \/ \E np : Enter(t, [f EXCEPT !.np = np])
      BY <1>4 DEF Unmap, Destroy
    <2>2. call[t].op \notin KeptOps
      BY <1>4 DEF KeptOps, DiskOps
    <2> QED
      BY <1>2, <1>3, <1>4, <2>1, <2>2, Leaves
  <1>5. CASE walk(t)
    <2>1. call[t].op \in {"unmap", "destroy", "close"}
      BY <1>5 DEF walk, Unmapping
    <2>2. CASE call' = [call EXCEPT ![t] = Out]
      <3>1. "op" \in DOMAIN Out /\ Out.op = "out"
        BY DEF Out
      <3> QED
        BY <2>1, <2>2, <3>1, Moves DEF KeptOps, DiskOps
    <2>3. ASSUME NEW np, call' = [call EXCEPT ![t].np = np] PROVE CallsAside
      <3> DEFINE f == [call[t] EXCEPT !.np = np]
      <3>1. call' = [call EXCEPT ![t] = f]
        BY <2>3
      <3>2. "op" \in DOMAIN f /\ f.op = call[t].op
        BY DEF CallsOK
      <3> QED
        BY <2>1, <3>1, <3>2, Moves DEF KeptOps, DiskOps
    <2> QED
      BY <1>5, <2>2, <2>3 DEF walk
  <1>6. CASE destroyUnhook(t) \/ closeNext(t)
    <2>1. call[t].op \in {"destroy", "close"} /\ "op" \in DOMAIN call[t]
      BY <1>6 DEF destroyUnhook, closeNext, Unmapping, CallsOK
    <2>2. CASE destroyUnhook(t)
      <3> DEFINE f == [call[t] EXCEPT !.win = call[t].tmp, !.at = "next"]
      <3>1. "op" \in DOMAIN f /\ f.op = call[t].op
        BY <2>1
      <3>2. Leave(t, 0) \/ Enter(t, f)
        BY <2>2 DEF destroyUnhook
      <3> HIDE DEF f
      <3> QED
        BY <1>1, <1>2, <2>1, <3>1, <3>2
    <2>3. CASE closeNext(t)
      <3> DEFINE f == [call[t] EXCEPT !.tmp = windows[call[t].win].next, !.at = "walk"]
      <3>1. "op" \in DOMAIN f /\ f.op = call[t].op
        BY <2>1
      <3>2. Leave(t, 0) \/ Destroy(t, f)
        BY <2>3 DEF closeNext
      <3> HIDE DEF f
      <3> QED
        BY <1>1, <1>4, <2>1, <3>1, <3>2
    <2> QED
      BY <1>6, <2>2, <2>3
  <1>7. ASSUME NEW w, XUnmapWindow(t, w) \/ XDestroyWindow(t, w) PROVE CallsAside
    <2>1. call[t].op = "out"
      BY <1>7 DEF XUnmapWindow, XDestroyWindow, Idle
    <2>2. Unmap(t, Frame("unmap", w)) \/ Destroy(t, Frame("destroy", w))
      BY <1>7 DEF XUnmapWindow, XDestroyWindow
    <2>3. \A op : "op" \in DOMAIN Frame(op, w) /\ Frame(op, w).op = op
      BY DEF Frame
    <2> QED
      BY <1>4, <2>1, <2>2, <2>3
  <1>8. CASE XCloseDisplay(t)
    <2> DEFINE f == [Frame("close", displays[t].windows) EXCEPT !.at = "next"]
    <2>1. "op" \in DOMAIN f /\ f.op = "close"
      BY DEF Frame
    <2>2. Enter(t, f) /\ call[t].op = "out"
      BY <1>8 DEF XCloseDisplay, Idle
    <2> HIDE DEF f
    <2> QED
      BY <1>2, <2>1, <2>2
  <1>9. CASE XNextEvent(t) \/ eventTake(t)
    <2>1. call[t].op \in {"out", "event"}
      BY <1>9 DEF XNextEvent, eventTake, Idle, Runs
    <2>2. Leave(t, 0) \/ Enter(t, [op |-> "event", at |-> "take", got |-> 0])
      BY <1>9 DEF XNextEvent, eventTake
    <2> QED
      BY <1>1, <1>2, <2>1, <2>2 DEF Idle
  <1>10. ASSUME NEW w, NEW parent, NEW area,
                \/ XOpenDisplay(t) \/ XMapWindow(t, w) \/ XCreateSimpleWindow(t, w, parent, area)
                \/ XSelectInput(t, w, TRUE) \/ XSendEvent(t, w)
         PROVE  CallsAside
    BY <1>1, <1>10 DEF XOpenDisplay, XMapWindow, XCreateSimpleWindow, XSelectInput, XSendEvent
  <1> QED
    BY <1>5, <1>6, <1>7, <1>8, <1>9, <1>10 DEF WindowStep

\* Every step of the X11 library
LEMMA X11Steps == ASSUME IInv, X11Step PROVE Onward
  <1>1. CallsOK
    BY DEF IInv, TypesOK
  <1>2. PICK t \in Tasks : InstallXWindows(t) \/ RemoveXWindows(t) \/ WindowStep(t) \/ ColorStep(t)
    BY ProgramTasks DEF X11Step, Applications, IInv
  <1>3. CASE InstallXWindows(t) \/ RemoveXWindows(t) \/ ColorStep(t)
    <2>1. Idle(t) /\ UNCHANGED devices /\ \E value : Leave(t, value)
      BY <1>3 DEF InstallXWindows, RemoveXWindows, ColorStep, XAllocColorCells, XAllocColor, XStoreColor, XStoreColors
    <2> QED
      BY <1>1, <2>1, IdleAside, Leaves, LibraryStep DEF X11Step
  <1>4. CASE WindowStep(t)
    <2>1. UNCHANGED devices
      BY <1>4, Zenon DEF WindowStep, XOpenDisplay, walk, destroyUnhook, closeNext, XCloseDisplay, XMapWindow, XUnmapWindow,
                  XDestroyWindow, XCreateSimpleWindow, XSelectInput, XSendEvent, XNextEvent, eventTake
    <2> QED
      BY <1>1, <1>4, <2>1, WindowSteps, LibraryStep DEF X11Step
  <1> QED
    BY <1>2, <1>3, <1>4

-----------------------------------------------------------------------------
(* The theorems.                                                           *)

\* Nothing is created yet
LEMMA IInit == ASSUME Init PROVE IInv
  <1> USE DEF Init, DriversInit
  <1>1. call = [t \in Tasks |-> Out] /\ DOMAIN call = Tasks /\ Out.op = "out" /\ "op" \in DOMAIN Out
    BY DEF Out
  <1>2. \A t \in Tasks : call[t].op = "out" /\ "op" \in DOMAIN call[t]
    BY <1>1
  <1>3. /\ serialTab = [p \in Ports |-> -1] /\ consoleTab = [p \in Pages |-> -1]
        /\ diskTab = [v \in Drives |-> -1] /\ mouseTab = -1
    BY DEF SerialInit, ConsoleInit, DiskInit, MouseInit
  <1>4. \A d \in Ids : devices[d] = NULL \/ devices[d] = Device("other", d)
    OBVIOUS
  <1>5. TypesOK
    <2>1. \A d \in Ids : Device("other", d) \in Entries
      BY DEF Device, Entries, Drvs, Units
    <2>2. devices \in [Ids -> Entries]
      BY <1>4, <2>1 DEF Entries
    <2> QED
      BY <1>1, <1>2, <1>3, <2>2 DEF TypesOK, CallsOK, TablesOK, DiskInit
  <1>6. Kept /\ DisksKept
    BY <1>3, <1>4, DeviceParts DEF Kept, DisksKept, IsDisk
  <1>7. MouseKept /\ CreatesNew /\ DiskCalls /\ Passed
    BY <1>2 DEF MouseKept, CreatesNew, Creating, DiskCalls, Passed, DiskInit, DiskOps
  <1> QED
    BY <1>5, <1>6, <1>7 DEF IInv

\* Every step keeps the invariant, and ends no transfer but a whole one
LEMMA NextStep == ASSUME ~Recreates, IInv, Next PROVE Onward
  BY DriverSteps, X11Steps, DrawingSteps, LoaderSteps, KernelSteps, IdleSteps DEF Next

\* ...as a step of none of them does
LEMMA INext == ASSUME ~Recreates, IInv, [Next]_vars PROVE IInv'
  <1>1. CASE UNCHANGED vars
    <2>1. UNCHANGED <<linked, devices, call, serialVars, mouseVars, consoleVars, diskVars>>
      BY <1>1 DEF vars, driversVars
    <2> QED
      BY <2>1, Rests, LibraryStep DEF IInv, TypesOK, Onward
  <1>2. CASE Next
    BY <1>2, NextStep DEF Onward
  <1> QED
    BY <1>1, <1>2

\* Where programs do not create a disk that is there, every state of the system
\* keeps the inductive invariant.
THEOREM Invariant == ASSUME ~Recreates PROVE Spec => []IInv
  BY IInit, INext, PTL DEF Spec

\* The ids that the serial, console and disk drivers keep are those of their
\* devices in iosys.c's table, whatever is created and deleted in between.
THEOREM TablesSound == ASSUME ~Recreates PROVE Spec => []TableSound
  <1>1. IInv => TableSound
    BY DEF IInv, Kept, TableSound
  <1> QED
    BY <1>1, Invariant, PTL

\* One task at a time is in int 13h: it holds bcallSem.
THEOREM BiosExclusive == ASSUME ~Recreates PROVE Spec => []OneBiosCall
  <1>1. IInv => OneBiosCall
    <2>1. SUFFICES ASSUME IInv PROVE Cardinality(inBios) <= 1
      BY DEF OneBiosCall
    <2>2. \A t \in inBios : bcallSem = t
      BY <2>1 DEF IInv, DiskCalls
    <2>3. inBios = {} \/ inBios = {bcallSem}
      BY <2>2
    <2>4. Cardinality({}) = 0 /\ Cardinality({bcallSem}) = 1
      BY FS_EmptySet, FS_Singleton
    <2> QED
      BY <2>3, <2>4
  <1> QED
    BY <1>1, Invariant, PTL

\* read() and write() of a disk return the count they were asked for only when
\* every sector has been transferred, but for those that failed with the change
\* of the disk.
THEOREM TransfersWhole == ASSUME ~Recreates PROVE Spec => TransferWhole
  <1>1. IInv /\ [Next]_vars => [WholeCalls]_<<call, diskVars>>
    BY NextStep DEF Onward, vars, driversVars
  <1>2. Spec => [][WholeCalls]_<<call, diskVars>>
    BY <1>1, Invariant, PTL DEF Spec
  <1> QED
    BY <1>2 DEF TransferWhole, WholeCalls
=============================================================================
