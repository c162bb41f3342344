-------------------------------- MODULE Boot --------------------------------
(***************************************************************************)
(* The boot loader of litetask, bootup/liteload.c: it finds the kernel in  *)
(* the root directory of a DOS disk, follows its clusters through the FAT, *)
(* loads a 16-bit .EXE or a 32-bit COFF program and starts it.             *)
(*                                                                         *)
(* A step ends with a read of the disk, which may fail, or where read()    *)
(* returns.  Memory keeps for each byte the sector and the index it was    *)
(* read from.  Sectors are SectorSize bytes, and disks, files and headers  *)
(* small; the entries of the FAT have the values they have.                *)
(***************************************************************************)
EXTENDS Integers, Sequences, FiniteSets

CONSTANTS
    SectorSize,     \* bytesPerSector, and the 512 of the FAT and of .EXE blocks
    MemorySize,     \* bound: the bytes of memory
    CoffHeader,     \* sizeof(coffHeader_t)
    BootDisks       \* bound: the disks; each its BPB, its kernel, the kernel's
                    \* clusters, and what the FAT says of the last of them

ASSUME BootAssumption == SectorSize \in Nat \ {0} /\ MemorySize \in Nat /\ CoffHeader \in 0 .. SectorSize - 1

VARIABLES
    disk,           \* the boot disk
    phase,          \* where the loader is: "main", "find", "ident", one of the
                    \* Loading ones, "relocate", "started" or "failed"
    request,        \* what read() is to do yet, and has done
    position,       \* the cluster and the offset in it that read() goes on from
    loaded,         \* what the phase has loaded or skipped
    fat,            \* FATSector, and the sectors in the two halves of FATBuf
    memory,         \* address -> <<sector, index>>, Zero, or <<>> for what it was; from the
                    \* load segment for an .EXE
    cut             \* history: reading the image ended with an error

bootVars == <<disk, phase, request, position, loaded, fat, memory, cut>>

Kernel == disk.kernel

Zero == <<0>>

-----------------------------------------------------------------------------
(* The layout of the disk, as main() works it out from the boot sector.    *)

FATType(d) == IF d.totalSectors \div d.spc >= 4087 THEN 16 ELSE 12

FATTableStart(d) == d.hiddenSectors + 1
rootDirStart(d)  == FATTableStart(d) + d.sectorsPerFAT * d.nFATs
fileAreaStart(d) == rootDirStart(d) + Len(d.directory)

clusterStart(d, cluster) == d.spc * (cluster - 2) + fileAreaStart(d)

\* The special values of a FAT entry
RESV_CLUSTER(type) == IF type = 12 THEN 4080 ELSE 65520
BAD_CLUSTER(type)  == IF type = 12 THEN 4087 ELSE 65527
LAST_CLUSTER(type) == IF type = 12 THEN 4088 ELSE 65528

\* What DOS wrote: the chain of the kernel, and no other file
entryOf(d, cluster) ==
    LET i == {j \in DOMAIN d.chain : d.chain[j] = cluster}
    IN  IF i = {} THEN 0
        ELSE LET j == CHOOSE k \in i : TRUE
             IN  IF j < Len(d.chain) THEN d.chain[j + 1] ELSE d.end

\* Byte o of the FAT: two entries to three bytes, or one to two
fatByte(d, o) ==
    IF FATType(d) = 16
    THEN IF o % 2 = 0 THEN entryOf(d, o \div 2) % 256 ELSE entryOf(d, o \div 2) \div 256
    ELSE LET even == entryOf(d, 2 * (o \div 3))
             odd == entryOf(d, 2 * (o \div 3) + 1)
         IN  CASE o % 3 = 0 -> even % 256
               [] o % 3 = 1 -> (even \div 256) + 16 * (odd % 16)
               [] o % 3 = 2 -> odd \div 16

\* What DOS and the linkers see to: the clusters of a file are different ones of
\* those a file may have, and as many as it needs if its chain ends; the header
\* of an .EXE holds its relocation table; the sections of a COFF program are apart
DiskMade(d) ==
    /\ d.spc \in Nat \ {0} /\ d.totalSectors \in Nat
    /\ d.chain \in Seq(2 .. RESV_CLUSTER(FATType(d)) - 1) /\ d.chain # <<>>
    /\ \A i, j \in DOMAIN d.chain : d.chain[i] = d.chain[j] => i = j
    /\ d.end \in {0} \cup RESV_CLUSTER(FATType(d)) .. (IF FATType(d) = 12 THEN 4095 ELSE 65535)

ExeMade(d, k) ==
    /\ k \in [type : {"exe"}, size : Nat, fileBlocks : Nat, relOffset : 0 .. SectorSize - 1, relBytes : Nat, header : Nat]
    /\ k.relOffset + k.relBytes <= k.header
    /\ d.end >= LAST_CLUSTER(FATType(d)) => k.size <= SectorSize * d.spc * Len(d.chain)
    /\ k.size - k.header <= MemorySize /\ (k.fileBlocks + 1) * SectorSize + k.relBytes <= MemorySize

CoffMade(k) ==
    LET Section == [size : Nat, paddr : Nat]
        bytesOf(s) == s.paddr .. s.paddr + s.size - 1
    IN  /\ k \in [type : {"coff"}, text : Section, data : Section, bss : Section]
        /\ bytesOf(k.text) \cup bytesOf(k.data) \cup bytesOf(k.bss) \subseteq 0 .. MemorySize - 1
        /\ bytesOf(k.text) \cap bytesOf(k.data) = {} /\ (bytesOf(k.text) \cup bytesOf(k.data)) \cap bytesOf(k.bss) = {}

ASSUME DisksAssumption ==
    \A d \in BootDisks :
        /\ DiskMade(d)
        /\ (d.kernel.type = "exe") => ExeMade(d, d.kernel)
        /\ (d.kernel.type = "coff") => CoffMade(d.kernel)

-----------------------------------------------------------------------------
(* Finding the kernel.                                                     *)

NoRequest == [addr |-> 0, len |-> 0, asked |-> 0, ended |-> FALSE]

BootInit(disks) ==
    /\ disk \in disks
    /\ phase = "main" /\ request = NoRequest
    /\ position = [pc |-> 0, po |-> 0] /\ loaded = 0
    /\ fat = [sector |-> -1, buf |-> <<-1, -1>>]
    /\ memory = [a \in 0 .. MemorySize - 1 |-> <<>>]
    /\ cut = FALSE

fail ==
    /\ phase' = "failed" /\ request' = NoRequest
    /\ UNCHANGED <<disk, position, loaded, fat, memory, cut>>

main ==
    /\ phase = "main" /\ phase' = "find" /\ loaded' = 0
    /\ UNCHANGED <<disk, request, position, fat, memory, cut>>

\* Sector by sector of the root directory: the first entry of that name, whatever
\* its attribute; the label of the volume has no cluster
findKernel ==
    LET named == {i \in DOMAIN disk.directory[loaded + 1] : disk.directory[loaded + 1][i] = "kernel"}
        labels == {i \in DOMAIN disk.directory[loaded + 1] : disk.directory[loaded + 1][i] = "label"}
        first == CHOOSE i \in named \cup labels : \A j \in named \cup labels : i <= j
    IN  /\ phase = "find"
        /\ \/ fail
           \/ /\ named \cup labels # {} /\ first \in labels
              /\ fail
           \/ /\ named \cup labels # {} /\ first \in named
              /\ position' = [pc |-> Head(disk.chain), po |-> 0] /\ phase' = "ident"
              /\ UNCHANGED <<disk, request, loaded, fat, memory, cut>>
           \/ /\ named \cup labels = {}
              /\ IF loaded + 1 = Len(disk.directory)
                 THEN fail
                 ELSE /\ loaded' = loaded + 1
                      /\ UNCHANGED <<disk, phase, request, position, fat, memory, cut>>

-----------------------------------------------------------------------------
(* read().                                                                 *)

Loading == {"relocations", "skip", "load", "text", "data"}

\* A call of read() from `phase` p, to bring len bytes to addr
Ask(p, addr, len) ==
    /\ phase' = p
    /\ request' = [addr |-> addr, len |-> len, asked |-> len, ended |-> FALSE]

\* Faulty: reads one sector of the FAT, though an entry may go on in the next
FATBufOne(s, buf) == <<s, buf[2]>>

\* The FAT sectors that are in FATBuf when sector s was asked for
FATBuf(s, buf) == <<s, s + 1>>

\* The entry of `cluster` in a buffer: half of what its two bytes say, for FAT12
entryIn(cluster, buf) ==
    LET offset == IF FATType(disk) = 12 THEN (cluster * 3) \div 2 ELSE cluster * 2
        byte(i) == LET s == buf[1 + (i \div SectorSize)]
                   IN  IF s = -1 THEN 0 ELSE fatByte(disk, s * SectorSize + (i % SectorSize))
        index == offset % SectorSize
        word == byte(index) + 256 * byte(index + 1)
    IN  IF FATType(disk) = 16 THEN word
        ELSE IF cluster % 2 = 1 THEN word \div 16
        ELSE word % 4096

\* A sector that is not in the buffer is read, with the next; if one of the two
\* reads fails the file ends in a bad cluster
nextFATCluster(cluster) ==
    LET offset == IF FATType(disk) = 12 THEN (cluster * 3) \div 2 ELSE cluster * 2
        s == offset \div SectorSize
        to(pc) == position' = [pc |-> pc, po |-> 0]
    IN  IF fat.sector = s
        THEN to(entryIn(cluster, fat.buf)) /\ UNCHANGED fat
        ELSE \/ \E buf \in {fat.buf, <<s, fat.buf[2]>>} :
                    fat' = [sector |-> s, buf |-> buf] /\ to(BAD_CLUSTER(FATType(disk)))
             \/ /\ fat' = [sector |-> s, buf |-> FATBuf(s, fat.buf)]
                /\ to(entryIn(cluster, FATBuf(s, fat.buf)))

\* One sector of a read(), up to its end or to that of the request.  What
\* is skipped goes to the disk buffer
readSector ==
    LET pc == position.pc
        po == position.po
        logSector == clusterStart(disk, pc) + po \div SectorSize
        so == po % SectorSize
        cnt == IF request.len < SectorSize - so THEN request.len ELSE SectorSize - so
        at == request.addr .. request.addr + cnt - 1
    IN  /\ phase \in Loading /\ request.len > 0 /\ ~request.ended
        /\ pc # 0 /\ pc < RESV_CLUSTER(FATType(disk))
        /\ memory' = IF phase = "skip" THEN memory
                     ELSE [a \in DOMAIN memory |->
                            IF a \in at THEN <<logSector, so + a - request.addr>> ELSE memory[a]]
        /\ request' = [request EXCEPT !.len = @ - cnt, !.addr = @ + cnt]
        /\ IF po + cnt >= SectorSize * disk.spc
           THEN nextFATCluster(pc)
           ELSE position' = [position EXCEPT !.po = @ + cnt] /\ UNCHANGED fat
        /\ UNCHANGED <<disk, phase, loaded, cut>>

\* The last cluster was read: read() returns what it has
readEnd ==
    /\ phase \in Loading /\ request.len > 0 /\ ~request.ended
    /\ position.pc >= LAST_CLUSTER(FATType(disk))
    /\ request' = [request EXCEPT !.ended = TRUE]
    /\ UNCHANGED <<disk, phase, position, loaded, fat, memory, cut>>

\* The sector cannot be read, or the cluster is none a file may have: -1, which
\* ends the image of an .EXE like the end of the file, and else the loading
readError ==
    /\ phase \in Loading /\ request.len > 0 /\ ~request.ended
    /\ position.pc < LAST_CLUSTER(FATType(disk))
    /\ IF phase = "load"
       THEN /\ phase' = "relocate" /\ cut' = TRUE /\ request' = NoRequest
            /\ UNCHANGED <<disk, position, loaded, fat, memory>>
       ELSE fail

-----------------------------------------------------------------------------
(* Loading.                                                                *)

\* Bytes, of which the program's header takes the first
sizeOf(section) == Kernel[section].size

\* The relocation table goes above the blocks of the program
relTable == (Kernel.fileBlocks + 1) * SectorSize

\* From a phase to the next that has something to read
skipFrom(done) ==
    IF done < Kernel.header
    THEN /\ loaded' = done
         /\ LET rest == Kernel.header - done
            IN  Ask("skip", 0, IF rest < SectorSize THEN rest ELSE SectorSize)
    ELSE /\ loaded' = 0
         /\ Ask("load", 0, SectorSize)

sectionFrom(section, done) ==
    LET rest(s, n) == Kernel[s].size - n
        ask(s, n) == /\ loaded' = n
                     /\ Ask(s, Kernel[s].paddr + n, IF rest(s, n) < SectorSize THEN rest(s, n) ELSE SectorSize)
    IN  IF done < sizeOf(section) THEN ask(section, done) /\ UNCHANGED memory
        ELSE IF section = "text" /\ sizeOf("data") > 0 THEN ask("data", 0) /\ UNCHANGED memory
        ELSE \* the .bss section is cleared, and the kernel can be started
             /\ phase' = "started" /\ request' = NoRequest /\ loaded' = 0
             /\ memory' = [a \in DOMAIN memory |->
                            IF a - Kernel.bss.paddr \in 0 .. sizeOf("bss") - 1 THEN Zero ELSE memory[a]]

\* The first sector says what the kernel is, and has its header
identKernel ==
    /\ phase = "ident"
    /\ \/ fail
       \/ /\ Kernel.type = "none" /\ fail
       \/ /\ Kernel.type = "exe"
          /\ position' = [position EXCEPT !.po = Kernel.relOffset]
          /\ IF Kernel.relBytes > 0
             THEN Ask("relocations", relTable, Kernel.relBytes) /\ UNCHANGED loaded
             ELSE skipFrom(Kernel.relOffset)
          /\ UNCHANGED <<disk, fat, memory, cut>>
       \/ /\ Kernel.type = "coff"
          /\ position' = [position EXCEPT !.po = CoffHeader]
          /\ sectionFrom("text", 0)
          /\ UNCHANGED <<disk, fat, cut>>

\* read() returns to loadExe() or loadCoff(): fewer bytes than it asked for are
\* an error, but in the image, which goes on a sector later while there are any
readDone ==
    LET got == request.asked - request.len
    IN  /\ phase \in Loading /\ (request.len = 0 \/ request.ended)
        /\ \/ /\ phase # "load" /\ request.len > 0
              /\ fail
           \/ /\ phase = "relocations" /\ request.len = 0
              /\ skipFrom(Kernel.relOffset + Kernel.relBytes)
              /\ UNCHANGED <<disk, position, fat, memory, cut>>
           \/ /\ phase = "skip" /\ request.len = 0
              /\ skipFrom(loaded + got)
              /\ UNCHANGED <<disk, position, fat, memory, cut>>
           \/ /\ phase = "load"
              /\ IF got > 0
                 THEN /\ loaded' = loaded + SectorSize
                      /\ Ask("load", loaded + SectorSize, SectorSize)
                 ELSE phase' = "relocate" /\ request' = NoRequest /\ UNCHANGED loaded
              /\ UNCHANGED <<disk, position, fat, memory, cut>>
           \/ /\ phase \in {"text", "data"} /\ request.len = 0
              /\ sectionFrom(phase, loaded + got)
              /\ UNCHANGED <<disk, position, fat, cut>>

\* The words that the table names are relocated, which changes their values and
\* not where they came from; and the kernel is started
startExe ==
    /\ phase = "relocate" /\ phase' = "started"
    /\ UNCHANGED <<disk, request, position, loaded, fat, memory, cut>>

BootStep ==
    \/ main \/ findKernel \/ identKernel
    \/ readSector \/ readEnd \/ readError \/ readDone
    \/ startExe

\* The loader, alone in the machine
BootSpec == BootInit(BootDisks) /\ [][BootStep]_bootVars

-----------------------------------------------------------------------------
(* Properties.                                                             *)

\* Byte n of the kernel, where DOS has put it
fileByte(d, n) ==
    LET size == SectorSize * d.spc
    IN  <<clusterStart(d, d.chain[1 + (n \div size)]) + (n % size) \div SectorSize, n % SectorSize>>

\* The bytes of the kernel's clusters, which a read of a whole cluster brings with it
fileArea(d) == SectorSize * d.spc * Len(d.chain)

\* A kernel is started only with all of it in memory, in order and where its
\* header wants it, whatever clusters it is in and whatever the reads of
\* the disk and of the FAT did; and with its relocation table as it was read,
\* if its last cluster ends below the table.  But the loader takes an error in
\* the image of an .EXE for its end.
KernelWhole ==
    (phase = "started" /\ ~cut) =>
        IF Kernel.type = "exe"
        THEN /\ \A n \in Kernel.header .. Kernel.size - 1 : memory[n - Kernel.header] = fileByte(disk, n)
             /\ fileArea(disk) - Kernel.header <= relTable =>
                    \A n \in 0 .. Kernel.relBytes - 1 : memory[relTable + n] = fileByte(disk, Kernel.relOffset + n)
        ELSE /\ \A n \in 0 .. sizeOf("text") - 1 : memory[Kernel.text.paddr + n] = fileByte(disk, CoffHeader + n)
             /\ \A n \in 0 .. sizeOf("data") - 1 :
                    memory[Kernel.data.paddr + n] = fileByte(disk, CoffHeader + sizeOf("text") + n)
             /\ \A n \in 0 .. sizeOf("bss") - 1 : memory[Kernel.bss.paddr + n] = Zero
=============================================================================
