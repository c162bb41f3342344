------------------------------- MODULE Drivers ------------------------------
(***************************************************************************)
(* The device drivers of litetask at work in one program: the client calls *)
(* of drivers/iosys.c, which go to the driver that serves a device id, and *)
(* select(), drivers/select.c, which waits on several devices at a time.   *)
(***************************************************************************)
EXTENDS Mouse, Console, Disk

CONSTANT FewBytes   \* bound: as MaxBytes, for a program without a mouse

\* The units of the drivers' devices are ports, pages and drives
ASSUME NoDevice ==
    \A unit \in Ids \cup Ports \cup Pages \cup Drives, drv \in {"serial", "console", "disk", "mouse", "other"} :
        NULL # Device(drv, unit)
ASSUME BytesAssumption == MouseTask \in Tasks /\ MousePort \in Ports /\ FewBytes <= MaxBytes

VARIABLE linked     \* the program: the drivers it links, the device ids it uses for
                    \* others, and the tasks that call the drivers

driversVars == <<devices, call, asleep, selectVars, serialVars, mouseVars, consoleVars, diskVars>>

Applications == linked.tasks

\* Nobody else uses the port the mouse reads
PortFree(p) == p = MousePort => "mouse" \notin linked.drivers

-----------------------------------------------------------------------------
(* The client calls: a device id that is no device ends them at once.      *)

readDevice(t, d, n) ==
    /\ deviceError(d) = 0
    /\ \/ /\ Serves(d, "serial") /\ PortFree(devices[d].unit)
          /\ serialRead(t, devices[d].unit, n)
          /\ UNCHANGED <<consoleVars, mouseVars, diskVars>>
       \/ /\ Serves(d, "console") /\ consoleRead(t, devices[d].unit, n)
          /\ UNCHANGED <<serialVars, mouseVars, diskVars>>
       \/ /\ Serves(d, "mouse") /\ mouseRead(t)
          /\ UNCHANGED <<consoleVars, diskVars>>
       \/ /\ Serves(d, "disk") /\ n \in Sectors /\ diskTransfer(t, devices[d].unit, n)
          /\ UNCHANGED <<selectVars, serialVars, mouseVars, consoleVars>>

\* The mouse has no write()
writeDevice(t, d, n) ==
    /\ deviceError(d) = 0
    /\ \/ /\ Serves(d, "serial") /\ PortFree(devices[d].unit)
          /\ serialWrite(t, devices[d].unit, n)
          /\ UNCHANGED <<consoleVars, mouseVars, diskVars>>
       \/ /\ Serves(d, "console") /\ \E ch \in {"x", "LF", "TAB", "FF"} :
                consoleWrite(t, devices[d].unit, ch)
          /\ UNCHANGED <<serialVars, mouseVars, diskVars>>

\* Only disks have an open()
openDevice(t, d) ==
    /\ Serves(d, "disk") /\ diskOpen(t, devices[d].unit)
    /\ UNCHANGED <<selectVars, serialVars, mouseVars, consoleVars>>

ioctlDevice(t, d) ==
    /\ deviceError(d) = 0
    /\ \/ /\ Serves(d, "serial") /\ \E m \in {"BLK", "NBLK"} : serialIoctl(t, devices[d].unit, m)
          /\ UNCHANGED <<consoleVars, mouseVars, diskVars>>
       \/ /\ Serves(d, "console") /\ \E f \in Flags :
                consoleIoctl(t, devices[d].unit, f)
          /\ UNCHANGED <<serialVars, mouseVars, diskVars>>
       \/ /\ Serves(d, "mouse") /\ \E m \in MouseModes : mouseIoctl(t, m)
          /\ UNCHANGED <<consoleVars, diskVars>>

-----------------------------------------------------------------------------
(* select().                                                               *)

\* STDIOCNREAD of device d; no driver knows STDIOCNWRITE
Readable(d) ==
    \/ Serves(d, "serial") /\ serialNRead(devices[d].unit) # 0
    \/ Serves(d, "console") /\ consoleNRead(devices[d].unit) # 0
    \/ Serves(d, "mouse") /\ mouseNRead # 0

Selectable(d) == \E drv \in {"serial", "console", "mouse"} : Serves(d, drv)

\* A console or a mouse is selected on by one task at a time: its list loses
\* entries otherwise.  No task selects on a mouse that is being deleted.
AloneOn(ds) == \A d \in ds : /\ Serves(d, "serial") \/ Listed(d) = {}
                             /\ Serves(d, "mouse") => readTask
                             /\ Serves(d, "serial") => PortFree(devices[d].unit)

\* With interrupts off from the first look at the devices to the sleep
select(t, type, ds) ==
    LET ready == IF type = "read" THEN {d \in ds : Readable(d)} ELSE {}
        on == {d \in ds : Selectable(d)}
    IN  /\ Idle(t) /\ on # {} /\ AloneOn(on)
        /\ IF ready # {}
           THEN /\ Leave(t, 0)
                /\ UNCHANGED <<asleep, selectVars>>
           ELSE /\ SelectOn(t, on)
                /\ asleep' = asleep \cup {t}
                /\ Enter(t, [op |-> "select", type |-> type, on |-> on, at |-> "woken", got |-> 0])
        /\ UNCHANGED <<devices, serialVars, mouseVars, consoleVars, diskVars>>

\* Awake, it leaves the lists and returns the device that woke it, in `got`
selected(t) ==
    /\ Runs(t, "select", "woken")
    /\ Unselect(t, call[t].on)
    /\ Leave(t, 0)
    /\ UNCHANGED <<devices, asleep, serialVars, mouseVars, consoleVars, diskVars>>

-----------------------------------------------------------------------------
(* The steps.                                                              *)

DriversInit ==
    /\ devices = [d \in Ids |-> IF d \in linked.others THEN Device("other", d) ELSE NULL]
    /\ call = [t \in Tasks |-> Out] /\ asleep = {}
    /\ SelectInit /\ SerialInit /\ MouseInit /\ ConsoleInit /\ DiskInit

\* The bounds on what the line brings: a mouse loses bytes, but sends no others
Bytes(p) ==
    IF "mouse" \in linked.drivers
    THEN arrived'[p] <= MaxBytes /\ modem' = {} /\ (p \in lineError' => arrived'[p] > 1 /\ rbr[p] # 0)
    ELSE arrived'[p] <= FewBytes /\ (p \in modem' => arrived'[p] <= 1)

Client ==
    \E t \in Applications :
        \/ \E d \in Ids : \/ \E n \in 1 .. 2 : readDevice(t, d, n)
                          \/ writeDevice(t, d, 1)
                          \/ openDevice(t, d)
                          \/ ioctlDevice(t, d)
        \/ \E ds \in SUBSET Ids, type \in {"read", "write"} : select(t, type, ds)
        \/ selected(t)

SerialStep ==
    /\ "serial" \in linked.drivers
    /\ \/ \E t \in Applications, p \in Ports :
            \/ \E m \in {"BLK", "NBLK"} : createSerial(t, p, m)
            \/ PortFree(p) /\ deleteSerial(t, p)
       \/ (\A p \in Ports : PortFree(p)) /\ \E t \in Applications : removeSerial(t)
       \/ \E t \in Tasks : readTest(t) \/ readTake(t) \/ writeTest(t) \/ writeWoken(t) \/ writePut(t)
       \/ \E p \in Ports : /\ Created(p)
                            /\ (Arrives(p) \/ Transmitted(p) \/ ModemChanges(p) \/ _serialTrap(p))
                            /\ Bytes(p)
    /\ UNCHANGED <<mouseVars, consoleVars, diskVars>>

MouseStep ==
    /\ "mouse" \in linked.drivers
    /\ \/ \E t \in Applications :
            installMouse(t) \/ createMouse(t) \/ deleteMouse(t) \/ mouseDeleted(t)
       \/ mouseReaderOpen \/ mouseReaderCheck \/ mouseReaderByte
    /\ UNCHANGED <<consoleVars, diskVars>>

ConsoleStep ==
    /\ "console" \in linked.drivers
    /\ \/ \E t \in Applications, p \in Pages : createConsole(t, p) \/ deleteConsole(t, p)
       \/ \E t \in Applications :
            installConsole(t) \/ removeConsole(t) \/ removed(t) \/ keyTest(t) \/ keyTake(t)
       \/ readTaskCheck \/ readTaskStore
       \/ \E k \in Keys : readTaskKey(k)
       \/ \E p \in Pages : readTaskFocus(p)
    /\ UNCHANGED <<serialVars, mouseVars, diskVars>>

DiskStep ==
    /\ "disk" \in linked.drivers
    /\ \/ \E t \in Applications, v \in Drives : createBIOSDisk(t, v) \/ deleteBIOSDisk(t, v)
       \/ \E t \in Applications :
            \/ installBIOSDisk(t) \/ diskInstalled(t) \/ removeBIOSDisk(t) \/ diskAsked(t) \/ diskAdd(t)
            \/ getBios(t) \/ diskOpenTimeout(t) \/ diskOpened(t) \/ diskSector(t)
       \/ \E v \in Drives : MediaChanges(v)
    /\ UNCHANGED <<selectVars, serialVars, mouseVars, consoleVars>>

DriversStep == Client \/ SerialStep \/ MouseStep \/ ConsoleStep \/ DiskStep

-----------------------------------------------------------------------------
(* Properties.                                                             *)

\* The id a driver keeps for a unit is the id of that unit: no device is
\* deleted or used under the id of another.
TableSound ==
    /\ \A p \in Ports : serialTab[p] >= 0 => devices[serialTab[p]] = Device("serial", p)
    /\ \A p \in Pages : consoleTab[p] >= 0 => devices[consoleTab[p]] = Device("console", p)
    /\ \A v \in Drives : diskTab[v] >= 0 => devices[diskTab[v]] = Device("disk", v)

\* A driver finds on its list the blocks of the tasks that are in select() on
\* the device, each of them once, and no block that was freed; and select()
\* returns one of the devices it was called for.
SelectSound ==
    /\ \A d \in Ids : deviceError(d) = 0 =>
            Listed(d) = {<<t, d>> : t \in {u \in Tasks : call[u].op = "select" /\ d \in call[u].on}}
    /\ \A t \in Tasks : Runs(t, "select", "woken") => call[t].got \in call[t].on
=============================================================================
