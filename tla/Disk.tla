-------------------------------- MODULE Disk --------------------------------
(***************************************************************************)
(* The BIOS disk driver of litetask, drivers/bios/biosdisk.c: sectors read *)
(* and written one int 13h at a time, each under the semaphore bcallSem,   *)
(* for which Semaphore has the rest: here it is free, or a task's.         *)
(***************************************************************************)
EXTENDS IOSys

CONSTANTS
    Drives,         \* the drives the machine may have: 0, 1, 0x80, 0x81
    Recreates,      \* createBIOSDisk() may be called for a drive that is there
    Sectors,        \* bound: the sectors of a transfer
    MaxChanges      \* bound: how often a disk is changed

EINTERNAL == -100
ETIMEOUT  == -2

ASSUME DiskAssumption == MaxChanges \in Nat /\ Sectors \subseteq Nat \ {0} /\ Recreates \in BOOLEAN

VARIABLES
    disks,          \* the flag `installed`
    diskTab,        \* devTab: per drive its device id, or a negative number
    bcallSem,       \* the task that holds the semaphore, or NULL
    inBios,         \* the tasks whose int 13h is under way
    changed,        \* media changes so far
    changeLine,     \* the drives whose next transfer fails with code 6
    (* history: of the call a task is in, or was in last *)
    done,           \* per task: the sectors that were transferred
    missed          \* ...and those that were not, for a change of the disk

diskVars == <<disks, diskTab, bcallSem, inBios, changed, changeLine, done, missed>>

DiskInit ==
    /\ disks = FALSE
    /\ diskTab = [v \in Drives |-> -1]
    /\ bcallSem = NULL /\ inBios = {}
    /\ changed = 0 /\ changeLine = {}
    /\ done = [t \in Tasks |-> {}] /\ missed = [t \in Tasks |-> {}]

\* Where a sector is: the linear offset as cylinder, head and sector
chs(offset, heads, sectors) ==
    [cyl    |-> offset \div (heads * sectors),
     head   |-> (offset \div sectors) % heads,
     sector |-> (offset % sectors) + 1]

\* The registers that tell the BIOS: the cylinder's two high bits ride on cl
registers(at) ==
    [ch |-> at.cyl % 256,
     cl |-> ((at.cyl \div 256) % 4) * 64 + (at.sector % 64),
     dh |-> at.head % 256]

-----------------------------------------------------------------------------
(* Every int 13h is made with the semaphore.                               *)

DiskOps == {"disk", "diskOpen", "diskCreate", "diskInstall"}

\* Faulty: goes without the semaphore
getBiosAtOnce(t) ==
    /\ call[t].op \in DiskOps /\ Runs(t, call[t].op, "get")
    /\ bcallSem' = t
    /\ inBios' = inBios \cup {t}
    /\ Goto(t, "bios")
    /\ UNCHANGED <<devices, asleep, disks, diskTab, changed, changeLine, done, missed>>

\* getSemaphore(), and int 13h begins
getBios(t) ==
    /\ call[t].op \in DiskOps /\ Runs(t, call[t].op, "get")
    /\ bcallSem = NULL
    /\ bcallSem' = t
    /\ inBios' = inBios \cup {t}
    /\ Goto(t, "bios")
    /\ UNCHANGED <<devices, asleep, disks, diskTab, changed, changeLine, done, missed>>

\* int 13h is back, and putSemaphore()
putBios(t, op) ==
    /\ Runs(t, op, "bios")
    /\ bcallSem' = NULL
    /\ inBios' = inBios \ {t}

\* Faulty: a drive that is not ready has transferred its sector
handleBIOSReady(code) ==
    CASE code \in {"ok", "corrected", "changed", "not ready"} -> 0
      [] code = "timeout" -> ETIMEOUT
      [] OTHER -> EINTERNAL

\* handleBIOSError() turns what the BIOS says into 0, to go on with the next
\* sector, or the error that ends the call.  A disk that was changed, code 6,
\* counts as 0 like a corrected error does.
handleBIOSError(code) ==
    CASE code \in {"ok", "corrected", "changed"} -> 0
      [] code \in {"timeout", "not ready"} -> ETIMEOUT
      [] OTHER -> EINTERNAL

-----------------------------------------------------------------------------
(* Installing the driver, creating and deleting disks.                     *)

\* What follows is a reset of the disks by the BIOS, with the semaphore
installBIOSDisk(t) ==
    /\ Idle(t) /\ ~disks
    /\ disks' = TRUE
    /\ diskTab' = [v \in Drives |-> -1]
    /\ bcallSem' = NULL
    /\ Enter(t, [op |-> "diskInstall", at |-> "get", got |-> 0])
    /\ UNCHANGED <<devices, asleep, inBios, changed, changeLine, done, missed>>

diskInstalled(t) ==
    /\ putBios(t, "diskInstall")
    /\ Leave(t, 0)
    /\ UNCHANGED <<devices, asleep, disks, diskTab, changed, changeLine, done, missed>>

DiskBusy(v) == \E u \in Tasks : call[u].op \in {"disk", "diskOpen"} /\ call[u].drive = v

\* Deletes the disks, none of which a task is in
removeBIOSDisk(t) ==
    /\ Idle(t) /\ disks
    /\ \A u \in Tasks : call[u].op \notin DiskOps
    /\ devices' = [d \in Ids |-> IF \E v \in Drives : diskTab[v] = d THEN NULL ELSE devices[d]]
    /\ diskTab' = [v \in Drives |-> IF diskTab[v] >= 0 THEN -1 ELSE diskTab[v]]
    /\ disks' = FALSE
    /\ UNCHANGED <<call, asleep, bcallSem, inBios, changed, changeLine, done, missed>>

\* Asks the BIOS for the drive and its geometry, whether or not the drive was
\* created before
createBIOSDisk(t, v) ==
    /\ Idle(t) /\ disks
    /\ Recreates \/ (diskTab[v] < 0 /\ ~\E u \in Tasks : call[u].op = "diskCreate" /\ call[u].drive = v)
    /\ Enter(t, [op |-> "diskCreate", drive |-> v, at |-> "get", got |-> 0])
    /\ UNCHANGED <<devices, asleep, diskVars>>

\* No such drive, out of memory, a BIOS error; or the device is next
diskAsked(t) ==
    /\ putBios(t, "diskCreate")
    /\ \/ Goto(t, "add")
       \/ \E e \in {EINTERNAL, EBADDEV} : Leave(t, e)
    /\ UNCHANGED <<devices, asleep, disks, diskTab, changed, changeLine, done, missed>>

diskAdd(t) ==
    /\ Runs(t, "diskCreate", "add")
    /\ newIOSysDevice(-1, Device("disk", call[t].drive))
    /\ diskTab' = [diskTab EXCEPT ![call[t].drive] = slot(-1)]
    /\ Leave(t, IF slot(-1) < 0 THEN EINTERNAL ELSE slot(-1))
    /\ UNCHANGED <<asleep, disks, bcallSem, inBios, changed, changeLine, done, missed>>

deleteBIOSDisk(t, v) ==
    /\ Idle(t) /\ diskTab[v] >= 0 /\ ~DiskBusy(v)
    /\ deleteIOSysDevice(diskTab[v])
    /\ diskTab' = [diskTab EXCEPT ![v] = -1]
    /\ UNCHANGED <<call, asleep, disks, bcallSem, inBios, changed, changeLine, done, missed>>

-----------------------------------------------------------------------------
(* The driver's open(), read() and write().                                *)

diskOpen(t, v) ==
    /\ Idle(t)
    /\ Enter(t, [op |-> "diskOpen", drive |-> v, at |-> "get", got |-> 0])
    /\ UNCHANGED <<devices, asleep, diskVars>>

\* open() alone gives getSemaphore() a timeout
diskOpenTimeout(t) ==
    /\ Runs(t, "diskOpen", "get") /\ bcallSem # NULL
    /\ Leave(t, ETIMEOUT)
    /\ UNCHANGED <<devices, asleep, diskVars>>

\* It returns what int86() does
diskOpened(t) ==
    /\ putBios(t, "diskOpen")
    /\ \E rv \in {0, 1} : Leave(t, rv)
    /\ UNCHANGED <<devices, asleep, disks, diskTab, changed, changeLine, done, missed>>

\* A read() or write() of n sectors
diskTransfer(t, v, n) ==
    /\ Idle(t)
    /\ Enter(t, [op |-> "disk", drive |-> v, size |-> n, cnt |-> 0, at |-> "get", got |-> 0])
    /\ done' = [done EXCEPT ![t] = {}] /\ missed' = [missed EXCEPT ![t] = {}]
    /\ UNCHANGED <<devices, asleep, disks, diskTab, bcallSem, inBios, changed, changeLine>>

\* One sector: the BIOS transfers it, reports the change of the disk instead,
\* or fails
diskSector(t) ==
    \E code \in {"ok", "corrected", "changed", "timeout", "not ready", "failed"} :
        LET cnt == call[t].cnt
            result == handleBIOSError(code)
        IN  /\ putBios(t, "disk")
            /\ (code = "changed") <=> (call[t].drive \in changeLine)
            /\ changeLine' = changeLine \ {call[t].drive}
            /\ done' = IF code \in {"ok", "corrected"} THEN [done EXCEPT ![t] = @ \cup {cnt}] ELSE done
            /\ missed' = IF code = "changed" THEN [missed EXCEPT ![t] = @ \cup {cnt}] ELSE missed
            /\ IF result # 0 THEN Leave(t, result)
               ELSE IF cnt + 1 = call[t].size THEN Leave(t, cnt + 1)
               ELSE Enter(t, [call[t] EXCEPT !.cnt = cnt + 1, !.at = "get"])
            /\ UNCHANGED <<devices, asleep, disks, diskTab, changed>>

\* Somebody puts another disk in
MediaChanges(v) ==
    /\ changed < MaxChanges
    /\ changed' = changed + 1
    /\ changeLine' = changeLine \cup {v}
    /\ UNCHANGED <<devices, call, asleep, disks, diskTab, bcallSem, inBios, done, missed>>

-----------------------------------------------------------------------------
(* Properties.                                                             *)

\* The BIOS, which is not reentrant, is called by one task at a time.
OneBiosCall == Cardinality(inBios) <= 1

\* A read() or write() of a disk returns a count only with every sector
\* transferred, but for those that the change of the disk made fail.
TransferWhole ==
    [][\A t \in Tasks : (call[t].op = "disk" /\ call'[t].op = "out" /\ call'[t].got >= 0)
            => /\ call'[t].got = call[t].size
               /\ done'[t] \cup missed'[t] = 0 .. call[t].size - 1]_<<call, diskVars>>
=============================================================================
