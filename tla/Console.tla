------------------------------ MODULE Console -------------------------------
(***************************************************************************)
(* The BIOS console driver of litetask, drivers/bios/bioscon.c: a device   *)
(* per video page, and a task that reads the keyboard and gives each key   *)
(* to the console in focus.                                                *)
(*                                                                         *)
(* Keys are numbered in the order they are pressed; a key is its number    *)
(* and what it is: "BS", "CR", or any other, "x".                            *)
(* Of the screen there is the cursor of each page.  The BEL that putch()   *)
(* sounds, and its two ticks of delay, are left out.                       *)
(***************************************************************************)
EXTENDS SelectList

CONSTANTS
    Pages,              \* 0 .. MAX_CONSOLES - 1
    KeyBufSize,         \* KEY_BUF_SIZE
    ScreenWidth, ScreenHeight, TabSize,
    SharedConsoles,     \* several tasks may read one console at a time
    Flags,              \* bound: the flags that are set and cleared
    Keys,               \* bound: the kinds of keys that are pressed
    MaxKeys             \* bound: how many

ASSUME ScreenAssumption ==
    /\ ScreenWidth \in Nat \ {0} /\ ScreenHeight \in Nat \ {0} /\ TabSize \in Nat \ {0}
ASSUME PageZero == 0 \in Pages
ASSUME KeysAssumption == KeyBufSize \in Nat \ {0, 1} /\ MaxKeys \in Nat /\ SharedConsoles \in BOOLEAN

VARIABLES
    consoleTab,         \* devTab: per page its device id, or a negative number
    consoles,           \* the flag `installed`
    focusDev,           \* the page whose console gets the keys
    readerAt,           \* where _readTask() is
    keyRead,            \* the key it has read
    pressed,            \* keys pressed so far
    keyBuf, keyHead, keyTail,
    mode,               \* per page: its set of "BLK", "COOKED" and "ECHO"
    keyTask,            \* pendTask: per page the task that waits for a key
    cursor,             \* per page: cx and cy
    (* history *)
    keyTaken,           \* per page the number of the last key read
    lapped              \* the pages where keys that filled the buffer look like none

keyVars     == <<keyBuf, keyHead, keyTail>>
readerVars  == <<readerAt, keyRead, pressed>>
consoleVars == <<consoleTab, consoles, focusDev, readerVars, keyVars, mode, keyTask, cursor, keyTaken, lapped>>

KeySlots == 0 .. KeyBufSize - 1
NextKey(i) == (i + 1) % KeyBufSize
Key(n, k) == [n |-> n, k |-> k]
NoKey == Key(0, "x")

ConsoleInit ==
    /\ consoleTab = [p \in Pages |-> -1]
    /\ consoles = FALSE /\ focusDev = 0
    /\ readerAt = "none" /\ keyRead = NoKey /\ pressed = 0
    /\ keyBuf = [p \in Pages |-> [i \in KeySlots |-> NoKey]]
    /\ keyHead = [p \in Pages |-> 0] /\ keyTail = [p \in Pages |-> 0]
    /\ mode = [p \in Pages |-> {}]
    /\ keyTask = [p \in Pages |-> NULL]
    /\ cursor = [p \in Pages |-> [cx |-> 0, cy |-> 0]]
    /\ keyTaken = [p \in Pages |-> 0] /\ lapped = {}

-----------------------------------------------------------------------------
(* The screen.                                                             *)

\* The end of putch(): wrap at the right margin, scroll at the bottom one
settle(at) ==
    LET x == IF at.cx >= ScreenWidth THEN 0 ELSE at.cx
        y == IF at.cx >= ScreenWidth THEN at.cy + 1 ELSE at.cy
    IN  [cx |-> x, cy |-> IF y >= ScreenHeight THEN ScreenHeight - 1 ELSE y]

putch(at, ch) ==
    CASE ch = "BS" -> IF at.cx > 0 THEN settle([at EXCEPT !.cx = @ - 1]) ELSE settle(at)
      [] ch = "CR" -> settle([at EXCEPT !.cx = 0])
      [] ch = "LF" -> settle([at EXCEPT !.cy = @ + 1])
      [] ch = "TAB" -> settle([at EXCEPT !.cx = (at.cx \div TabSize + 1) * TabSize])
      [] OTHER     -> settle([at EXCEPT !.cx = @ + 1])

\* A character of write(); in cooked mode a line feed returns the carriage
\* too, and a form feed goes to the bottom of the screen
echoed(at, ch, cooked) ==
    CASE ch = "LF" /\ cooked -> putch(putch(at, "CR"), "LF")
      [] ch = "FF" -> [putch(at, "CR") EXCEPT !.cy = ScreenHeight - 1]
      [] OTHER -> putch(at, ch)

-----------------------------------------------------------------------------
(* Installing the driver, creating and deleting consoles.                  *)

\* The task may be out of memory: then EINTERNAL, with `installed` set
installConsole(t) ==
    /\ Idle(t) /\ ~consoles
    /\ consoles' = TRUE
    /\ consoleTab' = [p \in Pages |-> -1]
    /\ readerAt' \in {"check", "none"}
    /\ UNCHANGED <<devices, call, asleep, selectVars, focusDev, keyRead, pressed, keyVars, mode,
                   keyTask, cursor, keyTaken, lapped>>

createConsole(t, p) ==
    /\ Idle(t) /\ consoles /\ consoleTab[p] < 0
    /\ newIOSysDevice(-1, Device("console", p))
    /\ consoleTab' = [consoleTab EXCEPT ![p] = slot(-1)]
    /\ mode' = [mode EXCEPT ![p] = {"ECHO", "BLK", "COOKED"}]
    /\ keyHead' = [keyHead EXCEPT ![p] = 0] /\ keyTail' = [keyTail EXCEPT ![p] = 0]
    /\ keyTask' = [keyTask EXCEPT ![p] = NULL]
    /\ keyBuf' = [keyBuf EXCEPT ![p] = [i \in KeySlots |-> NoKey]]
    /\ keyTaken' = [keyTaken EXCEPT ![p] = 0] /\ lapped' = lapped \ {p}
    /\ NoSelectors(slot(-1))
    /\ UNCHANGED <<call, asleep, consoles, focusDev, readerVars, cursor>>

\* A console is deleted when no task is in it: the driver does not look
ConsoleBusy(p) == \/ \E u \in Tasks : call[u].op = "consoleRead" /\ call[u].page = p
                  \/ consoleTab[p] >= 0 /\ Listed(consoleTab[p]) # {}

deleteConsole(t, p) ==
    /\ Idle(t) /\ consoles /\ consoleTab[p] >= 0 /\ ~ConsoleBusy(p)
    /\ consoleTab' = [consoleTab EXCEPT ![p] = -1]
    /\ deleteIOSysDevice(consoleTab[p])
    /\ UNCHANGED <<call, asleep, selectVars, consoles, focusDev, readerVars, keyVars, mode, keyTask,
                   cursor, keyTaken, lapped>>

\* Deletes every console, and asks _readTask() to end
removeConsole(t) ==
    /\ Idle(t) /\ consoles /\ readerAt # "none" /\ \A p \in Pages : ~ConsoleBusy(p)
    /\ devices' = [d \in Ids |-> IF \E p \in Pages : consoleTab[p] = d THEN NULL ELSE devices[d]]
    /\ consoleTab' = [p \in Pages |-> IF consoleTab[p] >= 0 THEN -1 ELSE consoleTab[p]]
    /\ consoles' = FALSE
    /\ Enter(t, [op |-> "removeConsole", at |-> "wait", got |-> 0])
    /\ UNCHANGED <<asleep, selectVars, focusDev, readerVars, keyVars, mode, keyTask, cursor, keyTaken, lapped>>

\* ...and waits for it with waitTask(): it looks at `installed` after a key
removed(t) ==
    /\ Runs(t, "removeConsole", "wait") /\ readerAt = "ended"
    /\ focusDev' = 0
    /\ readerAt' = "none"
    /\ Leave(t, 0)
    /\ UNCHANGED <<devices, asleep, selectVars, consoleTab, consoles, keyRead, pressed, keyVars, mode,
                   keyTask, cursor, keyTaken, lapped>>

-----------------------------------------------------------------------------
(* The driver's read(), write() and ioctl().                               *)

consoleRead(t, p, n) ==
    /\ Idle(t)
    /\ SharedConsoles \/ ~ConsoleBusy(p)
    /\ Enter(t, [op |-> "consoleRead", page |-> p, size |-> n, cnt |-> 0, at |-> "test", got |-> 0])
    /\ UNCHANGED <<devices, asleep, selectVars, consoleVars>>

\* With the task lock: a key is there, or sleep for one, or return.  A task
\* that was woken takes a key without another look.
keyTest(t) ==
    \E p \in Pages :
        /\ Runs(t, "consoleRead", "test") /\ call[t].page = p
        /\ \/ keyHead[p] # keyTail[p] /\ Goto(t, "take") /\ UNCHANGED <<asleep, keyTask>>
           \/ /\ keyHead[p] = keyTail[p] /\ "BLK" \in mode[p]
              /\ keyTask' = [keyTask EXCEPT ![p] = t]
              /\ asleep' = asleep \cup {t}
              /\ Goto(t, "take")
           \/ /\ keyHead[p] = keyTail[p] /\ "BLK" \notin mode[p]
              /\ Leave(t, 0)
              /\ UNCHANGED <<asleep, keyTask>>
        /\ UNCHANGED <<devices, selectVars, consoleTab, consoles, focusDev, readerVars, keyVars, mode,
                       cursor, keyTaken, lapped>>

\* The index in the caller's buffer after a key: a backspace steps back, but
\* at the start of the buffer it leaves a byte that no key was stored in
countAfter(cnt, k, cooked) ==
    IF k = "BS" /\ cooked /\ cnt > 0 THEN cnt - 1 ELSE cnt + 1

\* Takes a key, edits the line with it, and echoes it
keyTake(t) ==
    \E p \in Pages :
        LET key == keyBuf[p][keyTail[p]]
            cooked == "COOKED" \in mode[p]
            cnt == countAfter(call[t].cnt, key.k, cooked)
            shown == CASE key.k = "CR" /\ cooked -> "LF"
                       [] key.k = "BS" /\ cooked /\ call[t].cnt = 0 -> "BEL"
                       [] OTHER -> key.k
        IN  /\ Runs(t, "consoleRead", "take") /\ call[t].page = p
            /\ keyTail' = [keyTail EXCEPT ![p] = NextKey(@)]
            /\ keyTaken' = [keyTaken EXCEPT ![p] = key.n]
            /\ cursor' = IF "ECHO" \in mode[p] /\ shown # "BEL"
                         THEN [cursor EXCEPT ![p] = echoed(@, shown, cooked)] ELSE cursor
            /\ IF cnt >= call[t].size \/ (key.k = "CR" /\ cooked)
               THEN Leave(t, 0)
               ELSE Enter(t, [call[t] EXCEPT !.cnt = cnt, !.at = "test"])
            /\ UNCHANGED <<devices, asleep, selectVars, consoleTab, consoles, focusDev, readerVars,
                           keyBuf, keyHead, mode, keyTask, lapped>>

consoleWrite(t, p, ch) ==
    /\ Idle(t)
    /\ cursor' = [cursor EXCEPT ![p] = echoed(@, ch, "COOKED" \in mode[p])]
    /\ UNCHANGED <<devices, call, asleep, selectVars, consoleTab, consoles, focusDev, readerVars,
                   keyVars, mode, keyTask, keyTaken, lapped>>

\* BCIOCECHO, BCIOCNOECHO, BCIOCCOOKED, BCIOCRAW, STDIOCBLK, STDIOCNBLK: a
\* flag set or cleared; STDIOCSELECT and STDIOCNSELECT are in SelectList
consoleIoctl(t, p, flag) ==
    /\ Idle(t) /\ consoleTab[p] >= 0 /\ flag \in Flags
    /\ \/ mode' = [mode EXCEPT ![p] = @ \cup {flag}]
       \/ mode' = [mode EXCEPT ![p] = @ \ {flag}]
    /\ UNCHANGED <<devices, call, asleep, selectVars, consoleTab, consoles, focusDev, readerVars,
                   keyVars, keyTask, cursor, keyTaken, lapped>>

\* STDIOCNREAD: the keys in the buffer
consoleNRead(p) ==
    IF keyHead[p] >= keyTail[p] THEN keyHead[p] - keyTail[p]
    ELSE keyHead[p] - keyTail[p] + KeyBufSize

-----------------------------------------------------------------------------
(* The keyboard task.                                                      *)

\* A step of _readTask(), from program point `from` to `to`
Reader(from, to) == readerAt = from /\ readerAt' = to

readTaskCheck ==
    /\ Reader("check", IF consoles THEN "poll" ELSE "ended")
    /\ UNCHANGED <<devices, call, asleep, selectVars, consoleTab, consoles, focusDev, keyRead, pressed,
                   keyVars, mode, keyTask, cursor, keyTaken, lapped>>

readTaskKey(k) ==
    /\ pressed < MaxKeys
    /\ Reader("poll", "store")
    /\ pressed' = pressed + 1 /\ keyRead' = Key(pressed', k)
    /\ UNCHANGED <<devices, call, asleep, selectVars, consoleTab, consoles, focusDev, keyVars, mode,
                   keyTask, cursor, keyTaken, lapped>>

\* Ctrl+F<n> is no key of a console: it changes the focus
readTaskFocus(p) ==
    /\ pressed < MaxKeys
    /\ Reader("poll", "check")
    /\ pressed' = pressed + 1 /\ focusDev' = p
    /\ UNCHANGED <<devices, call, asleep, selectVars, consoleTab, consoles, keyRead, keyVars, mode,
                   keyTask, cursor, keyTaken, lapped>>

\* The tasks a key on page p wakes
wokenByKey(p) == ({keyTask[p]} \ {NULL}) \cup Selectors(consoleTab[p])

\* The key goes to the console in focus, whether there is room or not.  Without
\* a console there the code writes through the error that getDeviceData()
\* returns; here that key is lost.
readTaskStore ==
    LET p == focusDev
    IN  /\ Reader("store", "check")
        /\ keyRead' = NoKey
        /\ IF getDeviceData(consoleTab[p]) # NULL
           THEN /\ keyBuf' = [keyBuf EXCEPT ![p][keyHead[p]] = keyRead]
                /\ keyHead' = [keyHead EXCEPT ![p] = NextKey(@)]
                /\ Notify(wokenByKey(p), consoleTab[p], call)
                /\ keyTask' = [keyTask EXCEPT ![p] = NULL]
                /\ lapped' = IF keyHead'[p] = keyTail[p] THEN lapped \cup {p} ELSE lapped \ {p}
           ELSE UNCHANGED <<keyBuf, keyHead, call, asleep, keyTask, lapped>>
        /\ UNCHANGED <<devices, selectVars, consoleTab, consoles, focusDev, pressed, keyTail, mode,
                       cursor, keyTaken>>
=============================================================================
