-------------------------------- MODULE Fat ---------------------------------
(***************************************************************************)
(* The MS-DOS file system driver of litetask, filesys/fat.c: every call is *)
(* handed to DOS in the registers `regs`, which all tasks share.           *)
(*                                                                         *)
(* DOS runs with the scheduler locked, so that a call is one step, and     *)
(* what is done after unlockTask() is another.  Of DOS there is what the   *)
(* driver uses: files with their sizes, and handles with a position.       *)
(* Numbers are scaled: a byte has Byte values, a word Byte * Byte.         *)
(***************************************************************************)
EXTENDS IOSys

CONSTANTS
    Byte,           \* the values of a byte
    Paths,          \* bound: the files there may be
    DosHandles,     \* bound: the handles of DOS
    DiskFull,       \* bound: the size that a file can grow to
    Lens,           \* bound: the lengths of reads and writes
    Offsets         \* bound: the offsets programs seek to or by

ASSUME FatAssumption ==
    /\ Byte \in Nat \ {0} /\ DosHandles \subseteq Nat /\ DiskFull \in Nat
    /\ Lens \subseteq Nat /\ Offsets \subseteq Int

Word == Byte * Byte
Long == Word * Word

VARIABLES
    dosFiles,       \* path -> the size of the file, or -1 if there is none
    dosHandles,     \* handle -> NULL, or the file it is open on
    regs            \* the register AX of the last call

fatVars == <<dosFiles, dosHandles, regs>>

\* DOS starts with files of the sizes given, -1 for none
FatInit(sizes) ==
    /\ dosFiles \in [Paths -> sizes]
    /\ dosHandles = [h \in DosHandles |-> NULL] /\ regs = 0

-----------------------------------------------------------------------------
(* DOS.                                                                    *)

FileHandle(path, access) == [path |-> path, access |-> access, pos |-> 0]

FreeDosHandles == {h \in DosHandles : dosHandles[h] = NULL}

NewDosHandle == CHOOSE h \in FreeDosHandles : \A g \in FreeDosHandles : h <= g

Readable3F(f, len) == IF f.pos + len <= dosFiles[f.path] THEN len
                      ELSE IF f.pos < dosFiles[f.path] THEN dosFiles[f.path] - f.pos
                      ELSE 0

\* A write of no bytes sets the end of the file
Written40(f, len) == IF f.pos + len <= DiskFull THEN len
                     ELSE IF f.pos < DiskFull THEN DiskFull - f.pos
                     ELSE 0

SizeAfter40(f, len) ==
    LET end == f.pos + Written40(f, len)
        size == dosFiles[f.path]
    IN  IF len = 0 THEN IF f.pos <= DiskFull THEN f.pos ELSE size
        ELSE IF Written40(f, len) > 0 /\ end > size THEN end
        ELSE size

-----------------------------------------------------------------------------
(* The driver.                                                             *)

\* A call begins: every other one that has not returned yet finds other registers
Called(t, frame) ==
    call' = [u \in Tasks |-> IF u = t THEN frame
                             ELSE IF call[u].op = "fat" THEN [call[u] EXCEPT !.since = TRUE]
                             ELSE call[u]]

Answer(got) == [op |-> "out", got |-> got]

\* Open a file that exists; else create it, if the mode has O_CREAT; then cut it
\* off where O_TRUNC is set and DOS allows to write.  The handle is read with
\* the scheduler locked
fatOpen(t, path, access, mode) ==
    LET exists == dosFiles[path] >= 0
        handle == FileHandle(path, IF exists THEN access ELSE "O_RDWR")
        cuts == "O_TRUNC" \in mode /\ handle.access = "O_RDWR"
    IN  /\ Idle(t)
        /\ IF FreeDosHandles = {} \/ (~exists /\ "O_CREAT" \notin mode)
           THEN /\ Called(t, Answer(-1))
                /\ regs' = 2 /\ UNCHANGED <<dosFiles, dosHandles>>
           ELSE /\ dosHandles' = [dosHandles EXCEPT ![NewDosHandle] = handle]
                /\ dosFiles' = [dosFiles EXCEPT ![path] = IF exists /\ ~cuts THEN @ ELSE 0]
                /\ regs' = IF cuts THEN 0 ELSE NewDosHandle
                /\ Called(t, Answer(NewDosHandle))

fatClose(t, h) ==
    /\ Idle(t) /\ dosHandles[h] # NULL
    /\ dosHandles' = [dosHandles EXCEPT ![h] = NULL]
    /\ regs' = 0
    /\ Called(t, Answer(0))
    /\ UNCHANGED dosFiles

\* The count of bytes is in AX until fatReturn() reads it
fatRead(t, h, len) ==
    LET f == dosHandles[h]
    IN  /\ Idle(t) /\ f # NULL
        /\ regs' = Readable3F(f, len)
        /\ dosHandles' = [dosHandles EXCEPT ![h].pos = @ + Readable3F(f, len)]
        /\ Called(t, [op |-> "fat", at |-> "return", moved |-> Readable3F(f, len), since |-> FALSE, got |-> 0])
        /\ UNCHANGED dosFiles

fatWrite(t, h, len) ==
    LET f == dosHandles[h]
    IN  /\ Idle(t) /\ f # NULL
        /\ IF f.access = "O_RDONLY"
           THEN /\ regs' = 5 /\ Called(t, Answer(-1))
                /\ UNCHANGED <<dosFiles, dosHandles>>
           ELSE /\ regs' = Written40(f, len)
                /\ dosFiles' = [dosFiles EXCEPT ![f.path] = SizeAfter40(f, len)]
                /\ dosHandles' = [dosHandles EXCEPT ![h].pos = @ + Written40(f, len)]
                /\ Called(t, [op |-> "fat", at |-> "return", moved |-> Written40(f, len), since |-> FALSE, got |-> 0])

\* read() and write() return what is in the registers when the scheduler is unlocked
fatReturn(t) ==
    /\ Runs(t, "fat", "return")
    /\ Leave(t, regs)
    /\ UNCHANGED fatVars

\* Faulty: the high word is that of a number without a sign
CXDXUnsigned(offset) == ((offset % Word) \div Byte) * Word + (offset % Word)

\* The words CX and DX that stand for an offset: CX is shifted by a byte
CXDX(offset) == ((offset \div Byte) % Word) * Word + (offset % Word)

\* Where DOS seeks from: the start, here, or the end
Origin(f, mode) == CASE mode = "SEEK_SET" -> 0 [] mode = "SEEK_CUR" -> f.pos [] mode = "SEEK_END" -> dosFiles[f.path]

fatLseek(t, h, offset, mode) ==
    LET f == dosHandles[h]
        pos == (Origin(f, mode) + CXDX(offset)) % Long
    IN  /\ Idle(t) /\ f # NULL
        /\ dosHandles' = [dosHandles EXCEPT ![h].pos = pos]
        /\ regs' = pos % Word
        /\ Called(t, [op |-> "fat", at |-> "sought", h |-> h, to |-> Origin(f, mode) + offset,
                      near |-> offset \in -Byte .. Byte - 1, since |-> FALSE, got |-> 0])
        /\ UNCHANGED dosFiles

fatSought(t) ==
    /\ Runs(t, "fat", "sought")
    /\ Leave(t, 0)
    /\ UNCHANGED fatVars

\* Get or set the device information in DX: `arg`, which nobody else sees
fatIoctl(t, h) ==
    /\ Idle(t) /\ dosHandles[h] # NULL
    /\ \E ax \in 0 .. Byte - 1 : regs' = ax
    /\ Called(t, Answer(0))
    /\ UNCHANGED <<dosFiles, dosHandles>>

FatStep(t) ==
    \/ fatReturn(t) \/ fatSought(t)
    \/ \E path \in Paths, access \in {"O_RDONLY", "O_RDWR"}, mode \in SUBSET {"O_CREAT", "O_TRUNC"} :
            fatOpen(t, path, access, mode)
    \/ \E h \in DosHandles :
        \/ fatClose(t, h) \/ fatIoctl(t, h)
        \/ \E len \in Lens : fatRead(t, h, len) \/ fatWrite(t, h, len)
        \/ \E offset \in Offsets, mode \in {"SEEK_SET", "SEEK_CUR", "SEEK_END"} : fatLseek(t, h, offset, mode)

-----------------------------------------------------------------------------
(* Properties.                                                             *)

\* read() and write() return what DOS moved for them, and lseek() leaves the file
\* where it was asked to, unless another task came to DOS before they
\* returned, or the offset does not fit into a byte and a sign.
DosAnswers ==
    \A t \in Tasks :
        call[t].op = "fat" /\ ~call[t].since =>
            /\ call[t].at = "return" => regs = call[t].moved
            /\ (call[t].at = "sought" /\ call[t].near) => dosHandles[call[t].h].pos = call[t].to % Long
=============================================================================
