------------------------------- MODULE System -------------------------------
(***************************************************************************)
(* The programs made with litetask's libraries: each links some of the     *)
(* drivers and libraries, and its tasks call them in any order.  A program *)
(* is one of Programs.  The boot loader is a program too, of one task.     *)
(***************************************************************************)
EXTENDS Drivers, XWindows, XDrawing, Boot, Printk, BufPool, IdleHooks, Fat

CONSTANTS
    Programs,       \* each what it links, the device ids it uses for others, and
                    \* the tasks that make the calls
    FewWindows,     \* bound: the windows at a time of a program that selects events
    MaxPixels,      \* bound: the pixels allocated at a time
    TextModes       \* bound: the video modes programs start in

\* The mouse's task makes no calls but its own
ASSUME ProgramsAssumption ==
    \A p \in Programs : p.tasks \subseteq Tasks \ {MouseTask} /\ p.others \subseteq Ids

libraryVars == <<textVars, printVars, poolVars, hookVars, fatVars>>

vars == <<linked, driversVars, windowVars, colorVars, graphicsVars, bootVars, libraryVars>>

Init ==
    /\ linked \in Programs
    /\ DriversInit /\ WindowsInit /\ ColorsInit /\ GraphicsInit
    /\ BootInit(IF "boot" \in linked.drivers THEN BootDisks ELSE {NULL})
    /\ TextInit(IF "text" \in linked.drivers THEN TextModes ELSE {3}) /\ PrintInit
    /\ PoolInit /\ HooksInit
    /\ FatInit(IF "fat" \in linked.drivers THEN {-1, 0, 1} ELSE {0})

\* The bound on programs that select events: few windows, which stay, none
\* inside another, and one display at a time whose ring was full
WithEvents == "events" \in linked.drivers

WindowStep(t) ==
    /\ "windows" \in linked.drivers
    /\ \/ XOpenDisplay(t) \/ walk(t) \/ destroyUnhook(t) \/ closeNext(t)
       \/ ~WithEvents /\ XCloseDisplay(t)
       \/ \E w \in Windows :
            \/ XMapWindow(t, w) \/ XUnmapWindow(t, w)
            \/ ~WithEvents /\ XDestroyWindow(t, w)
            \/ \E parent \in {Root} \cup (IF WithEvents THEN {} ELSE Windows), area \in Areas :
                /\ WithEvents => Cardinality(Live) <= FewWindows
                /\ XCreateSimpleWindow(t, w, parent, area)
            \/ WithEvents /\ (XSelectInput(t, w, TRUE) \/ XSendEvent(t, w))
       \/ WithEvents /\ (XNextEvent(t) \/ eventTake(t))
    /\ Cardinality(lapped11') <= 1
    /\ UNCHANGED colorVars

ColorStep(t) ==
    /\ "colors" \in linked.drivers
    /\ \/ \E nplanes \in 0 .. Planes, npixels \in 0 .. MaxPixels : XAllocColorCells(t, nplanes, npixels)
       \/ \E color \in Rgbs :
            \/ XAllocColor(t, color)
            \/ \E c \in Cells : XStoreColor(t, c, color)
            \/ \E c, d \in Cells : c <= d /\ XStoreColors(t, {c, d}, color)
    /\ UNCHANGED windowVars

X11Step ==
    /\ "x11" \in linked.drivers
    /\ \E t \in Applications :
        InstallXWindows(t) \/ RemoveXWindows(t) \/ WindowStep(t) \/ ColorStep(t)
    /\ UNCHANGED <<linked, selectVars, serialVars, mouseVars, consoleVars, diskVars, graphicsVars, bootVars, libraryVars>>

DriverStep ==
    /\ DriversStep
    /\ UNCHANGED <<linked, windowVars, colorVars, graphicsVars, bootVars, libraryVars>>

DrawingStep ==
    /\ "graphics" \in linked.drivers
    /\ \E t \in Applications : GraphicsStep(t) \/ XDrawingStep(t)
    /\ UNCHANGED <<linked, devices, asleep, selectVars, serialVars, mouseVars, consoleVars, diskVars,
                   windowVars, colorVars, bootVars, libraryVars>>

LoaderStep ==
    /\ "boot" \in linked.drivers
    /\ BootStep
    /\ UNCHANGED <<linked, driversVars, windowVars, colorVars, graphicsVars, libraryVars>>

TextOrPrint(t) ==
    \/ "text" \in linked.drivers /\ TextStep(t) /\ UNCHANGED printVars
    \/ "print" \in linked.drivers /\ (PrintStep(t) \/ (InitText(t, 0, Lines - 1) /\ UNCHANGED printVars))

KernelStep ==
    /\ \E t \in Applications :
        \/ TextOrPrint(t) /\ UNCHANGED <<asleep, poolVars, hookVars, fatVars>>
        \/ /\ "buffers" \in linked.drivers /\ PoolStep(t)
           /\ UNCHANGED <<asleep, textVars, printVars, hookVars, fatVars>>
        \/ /\ "fat" \in linked.drivers /\ FatStep(t)
           /\ UNCHANGED <<asleep, textVars, printVars, poolVars, hookVars>>
    /\ UNCHANGED <<linked, devices, selectVars, serialVars, mouseVars, consoleVars, diskVars,
                   windowVars, colorVars, graphicsVars, bootVars>>

IdleStep ==
    /\ "idle" \in linked.drivers
    /\ \/ HookStep
       \/ \E t \in Applications, f \in Hooks \cup {NULL} : setIdleHook(t, f) \/ clearIdleHook(t, f)
    /\ UNCHANGED <<linked, devices, selectVars, serialVars, mouseVars, consoleVars, diskVars,
                   windowVars, colorVars, graphicsVars, bootVars, textVars, printVars, poolVars, fatVars>>

Next == DriverStep \/ X11Step \/ DrawingStep \/ LoaderStep \/ KernelStep \/ IdleStep

Spec == Init /\ [][Next]_vars

-----------------------------------------------------------------------------
(* Properties.                                                             *)

\* Each byte, key or event is read once: a task that found one, or was woken
\* for it, takes it without another look, and it is one nobody took.  And each byte
\* is written to an empty transmitter, or it would replace another.  A buffer
\* of a pool is given to one task until it is put back.
EachByteOnce ==
    \A t \in Tasks :
        /\ Runs(t, "serialRead", "take") => \A p \in {call[t].port} : ring[p][tail[p]] > taken[p]
        /\ Runs(t, "consoleRead", "take") =>
                \A p \in {call[t].page} : keyBuf[p][keyTail[p]].n > keyTaken[p]
        /\ Runs(t, "serialWrite", "put") => call[t].port \in thre
        /\ Runs(t, "event", "take") => \A x \in {displays[t]} : x.queue[x.tail]
        /\ \A u \in Tasks \ {t} : held[t] \cap held[u] = {}
        /\ held[t] # {} => held[t] \subseteq DOMAIN pool.next

\* A task sleeps in read() or select() on a port only as long as it has no
\* byte, or none but bytes that came with an interrupt for another reason or
\* were hidden by an overrun; on a console only as long as it has no key; and in
\* XNextEvent() as long as its display has no event, but for an overrun.
NoLostWakeup ==
    \A t \in asleep :
        /\ \A p \in Ports : (pendTask[p] = t /\ pendWhy[p] = "read" /\ call[t].op = "serialRead")
                                => head[p] = tail[p] \/ p \in quiet
        /\ \A p \in Pages : (keyTask[p] = t /\ call[t].op = "consoleRead") => keyHead[p] = keyTail[p] \/ p \in lapped
        /\ (call[t].op = "event" /\ t \notin lapped11) => \A i \in 0 .. QueueSize - 1 : ~displays[t].queue[i]
        /\ (call[t].op = "select" /\ call[t].type = "read") =>
                \A d \in call[t].on : Readable(d) =>
                    \/ Serves(d, "serial") /\ devices[d].unit \in quiet
                    \/ Serves(d, "console") /\ devices[d].unit \in lapped
=============================================================================
