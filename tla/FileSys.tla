------------------------------ MODULE FileSys -------------------------------
(***************************************************************************)
(* The file system layer of litetask (filesys/filesys.c): a table of file  *)
(* systems, each with a count of its uses, and a table of file handles.    *)
(*                                                                         *)
(* Each table has a semaphore.  The code between getSemaphore() and        *)
(* putSemaphore() is one step: it does not nest, and what others read or   *)
(* write of a table without its semaphore is one word.  Between the steps, *)
(* and while a driver is called, any task may run.                         *)
(***************************************************************************)
EXTENDS Integers, FiniteSets

CONSTANTS Tasks,
          MAX_FILE_SYSTEMS, MAX_FILES,
          Files,        \* what the drivers' open() may return
          NULL

ASSUME FileSysAssumption ==
    /\ IsFiniteSet(Tasks) /\ NULL \notin Tasks \cup Files \cup Int
    /\ MAX_FILE_SYSTEMS \in Nat \ {0} /\ MAX_FILES \in Nat \ {0}

Systems == 0..(MAX_FILE_SYSTEMS - 1)
Handles == 0..(MAX_FILES - 1)

VARIABLES
    named, useCnt,          \* fsTab: the entries with a name; their counts
    openCnt, fsIdx, fInfo,  \* fhTab
    opened,                 \* per file: the system whose driver has it open
    call                    \* per task: where its call is, and its variables

fsTab == <<named, useCnt>>
fhTab == <<openCnt, fsIdx, fInfo>>
vars  == <<fsTab, fhTab, opened, call>>

NoCall == [at |-> "out", id |-> NULL, fd |-> NULL, fi |-> NULL]

Init ==
    /\ named = {} /\ useCnt = [i \in Systems |-> 0]
    /\ openCnt = [h \in Handles |-> 0] /\ fsIdx = [h \in Handles |-> 0]
    /\ fInfo = [h \in Handles |-> NULL]
    /\ opened = [f \in Files |-> NULL]
    /\ call = [p \in Tasks |-> NoCall]

At(p, point) == call[p].at = point
Goto(p, point) == call' = [call EXCEPT ![p].at = point]
Return(p) == call' = [call EXCEPT ![p] = NoCall]

Lowest(S, n) == n \in S /\ \A m \in S : n <= m

-----------------------------------------------------------------------------
(* Files *)

\* open() of a path under the name of i
open(p, i) ==
    /\ At(p, "out") /\ i \in named
    /\ useCnt' = [useCnt EXCEPT ![i] = @ + 1]
    /\ call' = [call EXCEPT ![p].at = "opening", ![p].id = i]
    /\ UNCHANGED <<named, fhTab, opened>>

\* Faulty: keeps the count of a file that is not opened
OpenFailsCounted(p) ==
    /\ At(p, "opening")
    /\ Return(p)
    /\ UNCHANGED <<fsTab, fhTab, opened>>

OpenFails(p) ==
    /\ At(p, "opening")
    /\ Goto(p, "releasing")
    /\ UNCHANGED <<fsTab, fhTab, opened>>

DriverOpens(p, f) ==
    /\ At(p, "opening") /\ opened[f] = NULL
    /\ opened' = [opened EXCEPT ![f] = call[p].id]
    /\ call' = [call EXCEPT ![p].at = "opened", ![p].fi = f]
    /\ UNCHANGED <<fsTab, fhTab>>

FreeHandles == {h \in Handles : openCnt[h] = 0}

NewHandle(p, h) ==
    /\ At(p, "opened") /\ Lowest(FreeHandles, h)
    /\ openCnt' = [openCnt EXCEPT ![h] = 1]
    /\ fsIdx' = [fsIdx EXCEPT ![h] = call[p].id]
    /\ fInfo' = [fInfo EXCEPT ![h] = call[p].fi]
    /\ Return(p)
    /\ UNCHANGED <<fsTab, opened>>

\* Faulty: gives the count back and leaves the file open
NoHandleOpen(p) ==
    /\ At(p, "opened") /\ FreeHandles = {}
    /\ Goto(p, "releasing")
    /\ UNCHANGED <<fsTab, fhTab, opened>>

NoHandle(p) ==
    /\ At(p, "opened") /\ FreeHandles = {}
    /\ Goto(p, "closing")
    /\ UNCHANGED <<fsTab, fhTab, opened>>

\* close(), by one task at a time: it finds the handle open, ...
close(p, h) ==
    /\ At(p, "out") /\ openCnt[h] # 0
    /\ \A q \in Tasks : ~(At(q, "close") /\ call[q].fd = h)
    /\ call' = [call EXCEPT ![p].at = "close", ![p].fd = h]
    /\ UNCHANGED <<fsTab, fhTab, opened>>

\* ... counts it down with the semaphore, ...
CloseHandle(p) ==
    LET h == call[p].fd
    IN  /\ At(p, "close")
        /\ openCnt' = [openCnt EXCEPT ![h] = @ - 1]
        /\ call' = [call EXCEPT ![p].at = IF openCnt[h] = 1 THEN "last" ELSE "counted",
                                ![p].id = fsIdx[h], ![p].fi = fInfo[h]]
        /\ UNCHANGED <<fsTab, fsIdx, fInfo, opened>>

\* ... and, unless the counts are wrong or others have it open, calls the driver
CloseFile(p) ==
    /\ At(p, "last") \/ At(p, "counted")
    /\ IF useCnt[call[p].id] > 0 /\ At(p, "last") THEN Goto(p, "closing") ELSE Return(p)
    /\ UNCHANGED <<fsTab, fhTab, opened>>

\* The driver has closed the file; open() and close() then give the use back
DriverCloses(p) ==
    /\ At(p, "closing")
    /\ opened' = [opened EXCEPT ![call[p].fi] = NULL]
    /\ Goto(p, "releasing")
    /\ UNCHANGED <<fsTab, fhTab>>

Release(p) ==
    /\ At(p, "releasing")
    /\ useCnt' = [useCnt EXCEPT ![call[p].id] = @ - 1]
    /\ Return(p)
    /\ UNCHANGED <<named, fhTab, opened>>

\* read(), write(), lseek() and ioctl(), by any task: they find the handle
\* open, read it with the semaphore, and call the driver with what they read
io(p, h) ==
    /\ At(p, "out") /\ openCnt[h] # 0
    /\ call' = [call EXCEPT ![p].at = "handle", ![p].fd = h]
    /\ UNCHANGED <<fsTab, fhTab, opened>>

IoHandle(p) ==
    /\ At(p, "handle")
    /\ call' = [call EXCEPT ![p].at = "io", ![p].id = fsIdx[call[p].fd],
                            ![p].fi = fInfo[call[p].fd]]
    /\ UNCHANGED <<fsTab, fhTab, opened>>

IoDone(p) ==
    /\ At(p, "io")
    /\ Return(p)
    /\ UNCHANGED <<fsTab, fhTab, opened>>

-----------------------------------------------------------------------------
(* File systems *)

newFileSystem(p, i) ==
    /\ At(p, "out") /\ Lowest(Systems \ named, i)
    /\ named' = named \cup {i} /\ useCnt' = [useCnt EXCEPT ![i] = 0]
    /\ UNCHANGED <<fhTab, opened, call>>

\* deleteFileSystem(), by one task at a time
deleteFileSystem(p, i) ==
    /\ At(p, "out") /\ i \in named
    /\ \A q \in Tasks : ~(At(q, "deleting") /\ call[q].id = i)
    /\ call' = [call EXCEPT ![p].at = "deleting", ![p].id = i]
    /\ UNCHANGED <<fsTab, fhTab, opened>>

DeleteWait(p) ==
    /\ At(p, "deleting") /\ useCnt[call[p].id] # 0
    /\ UNCHANGED vars

\* Faulty: takes one use for its own
DeleteInUse(p) ==
    /\ At(p, "deleting") /\ useCnt[call[p].id] <= 1
    /\ named' = named \ {call[p].id}
    /\ Return(p)
    /\ UNCHANGED <<useCnt, fhTab, opened>>

Delete(p) ==
    /\ At(p, "deleting") /\ useCnt[call[p].id] = 0
    /\ named' = named \ {call[p].id}
    /\ Return(p)
    /\ UNCHANGED <<useCnt, fhTab, opened>>

-----------------------------------------------------------------------------
Next ==
    \E p \in Tasks :
        \/ OpenFails(p) \/ NoHandle(p)
        \/ CloseHandle(p) \/ CloseFile(p) \/ DriverCloses(p) \/ Release(p)
        \/ IoHandle(p) \/ IoDone(p) \/ DeleteWait(p) \/ Delete(p)
        \/ \E i \in Systems : open(p, i) \/ newFileSystem(p, i) \/ deleteFileSystem(p, i)
        \/ \E h \in Handles : NewHandle(p, h) \/ close(p, h) \/ io(p, h)
        \/ \E f \in Files : DriverOpens(p, f)

Spec == Init /\ [][Next]_vars

-----------------------------------------------------------------------------
Points == {"out", "opening", "opened", "close", "last", "counted", "closing",
           "releasing", "handle", "io", "deleting"}

TypeOK ==
    /\ named \subseteq Systems /\ useCnt \in [Systems -> Nat]
    /\ openCnt \in [Handles -> Nat] /\ fsIdx \in [Handles -> Systems]
    /\ fInfo \in [Handles -> Files \cup {NULL}]
    /\ opened \in [Files -> Systems \cup {NULL}]
    /\ call \in [Tasks -> [at : Points, id : Systems \cup {NULL},
                           fd : Handles \cup {NULL}, fi : Files \cup {NULL}]]

\* Handle h is open on file f of system i
Leads(h, i, f) == openCnt[h] > 0 /\ fsIdx[h] = i /\ fInfo[h] = f

\* The handles open on i, and the calls that are opening or closing a file on it
OpenHandles(i) == {h \in Handles : openCnt[h] > 0 /\ fsIdx[h] = i}
Counting == {"opening", "opened", "last", "closing", "releasing"}
InCall(i) == {p \in Tasks : call[p].id = i /\ call[p].at \in Counting}

\* A file system's count is the number of its files that are open, being opened
\* or being closed, whichever of the three ways out open() takes.
UseCounts ==
    \A i \in Systems : useCnt[i] = Cardinality(OpenHandles(i)) + Cardinality(InCall(i))

\* What a driver has open is the business of one handle or of one call: no file
\* stays open with nobody to close it, and none is closed twice.
FilesHeld ==
    \A i \in Systems : \A f \in Files :
        Cardinality({h \in Handles : Leads(h, i, f)})
      + Cardinality({p \in Tasks : call[p].id = i /\ call[p].fi = f /\
                       call[p].at \in {"opened", "last", "closing"}})
      = IF opened[f] = i THEN 1 ELSE 0

\* When a file system is deleted, no task is opening or closing a file on it, or
\* reading or writing one whose handle is still open.
DeletedIdle ==
    [][\A i \in named \ named' : \A p \in Tasks :
         call[p].id = i => \/ At(p, "deleting")
                           \/ At(p, "io") /\ ~Leads(call[p].fd, i, call[p].fi)]_vars

\* As the notes of filesys.c say, the count covers "pending file operations":
\* a file system is not deleted with one in progress.
NoneInProgress ==
    [][\A i \in named \ named' : \A p \in Tasks : ~(At(p, "io") /\ call[p].id = i)]_vars
=============================================================================
