-------------------------------- MODULE Heap --------------------------------
(***************************************************************************)
(* The heap of litetask (kernel/clib/memory.c): blocks that tile a range   *)
(* of 16-byte paragraphs, each headed by an _MCB of one paragraph, and a   *)
(* free list in order of address.  Addresses and sizes are in paragraphs.  *)
(*                                                                         *)
(* malloc(), free() and tidyHeap() run under lockTask(), one at a time;    *)
(* each turn of their loops is a step here, so that what they walk is what *)
(* the code walks.  Two things nothing reads before they are written again *)
(* are cleared: the links of a block that is taken, and the header of one  *)
(* that is joined to another.                                              *)
(***************************************************************************)
EXTENDS Integers

CONSTANTS HeapSize,     \* paragraphs in the heap
          MinBlock,     \* MIN_BLOCK_PARAGRAPHS
          Requests,     \* the numbers of bytes asked for
          NULL

Addr == 0..(HeapSize - 1)
Ptr  == Addr \cup {NULL}

\* What an unsigned short can count
Shorts == 65536

\* Real mode has room for less than 64K paragraphs
ASSUME HeapAssumption ==
    /\ HeapSize \in Nat \ {0} /\ MinBlock \in Nat /\ HeapSize + MinBlock < Shorts
    /\ Requests \subseteq 0..(16 * (Shorts - 1))
    /\ NULL \notin Int

VARIABLES
    magic,              \* the addresses that head a block
    size, used, last,   \* of each header: its size and its flags
    next, prev,         \* of each header: its links in the free list
    freeList,
    call,               \* the call that holds the task lock
    arg,                \* its argument
    cursor, before,     \* its walk of the free list
    asked               \* per used block: the bytes its holder asked for

headers == <<magic, size, used, last>>
list    == <<next, prev, freeList>>
vars    == <<headers, list, call, arg, cursor, before, asked>>

\* The block after b, and the walks of walkHeap() and walkFree()
End(b)      == b + size[b] + 1
walkHeap(b) == IF b \in last THEN NULL ELSE End(b)
walkFree(b) == IF b \in used THEN NULL ELSE next[b]

\* bl_size: an unsigned short
Paragraphs(n) == ((n + 15) \div 16) % Shorts

\* initHeap()
Init ==
    /\ magic = {0} /\ used = {} /\ last = {0}
    /\ size = [b \in Addr |-> IF b = 0 THEN HeapSize - 1 ELSE 0]
    /\ next = [b \in Addr |-> NULL] /\ prev = [b \in Addr |-> NULL]
    /\ freeList = 0
    /\ call = "none" /\ arg = 0 /\ cursor = NULL /\ before = NULL
    /\ asked = [b \in Addr |-> 0]

\* A call gives the lock back, and its variables are gone
Return == call' = "none" /\ arg' = 0 /\ cursor' = NULL /\ before' = NULL

-----------------------------------------------------------------------------
(* malloc(): the first block that fits *)

malloc(n) ==
    /\ call = "none"
    /\ call' = "malloc" /\ arg' = n /\ cursor' = freeList
    /\ UNCHANGED <<headers, list, before, asked>>

\* Faulty: takes a block one paragraph short
FitsShort(b) == size[b] + 1 >= Paragraphs(arg)

Fits(b) == size[b] >= Paragraphs(arg)

MallocSearch ==
    /\ call = "malloc" /\ cursor # NULL /\ ~Fits(cursor)
    /\ cursor' = next[cursor]
    /\ UNCHANGED <<headers, list, call, arg, before, asked>>

OutOfMemory ==
    /\ call = "malloc" /\ cursor = NULL
    /\ Return
    /\ UNCHANGED <<headers, list, asked>>

\* Faulty: forgets that the last block may be split
LastKept(b, new) == last

\* The flag of the heap's end goes to the new block
LastMoved(b, new) == IF b \in last THEN (last \ {b}) \cup {new} ELSE last

\* Faulty: does not tell the block behind
ReplaceForward(b, new) ==
    /\ next' = [a \in Addr |-> CASE a = b -> NULL [] a = new -> next[b]
                                 [] a = prev[b] -> new [] OTHER -> next[a]]
    /\ prev' = [prev EXCEPT ![b] = NULL, ![new] = prev[b]]
    /\ freeList' = IF prev[b] # NULL THEN freeList ELSE new

\* The rest of a split block takes its place in the free list
Replace(b, new) ==
    /\ next' = [a \in Addr |-> CASE a = b -> NULL [] a = new -> next[b]
                                 [] a = prev[b] -> new [] OTHER -> next[a]]
    /\ prev' = [a \in Addr |-> CASE a = b -> NULL [] a = new -> prev[b]
                                 [] a = next[b] -> new [] OTHER -> prev[a]]
    /\ freeList' = IF prev[b] # NULL THEN freeList ELSE new

Unlink(b) ==
    /\ next' = [a \in Addr |-> CASE a = b -> NULL [] a = prev[b] -> next[b] [] OTHER -> next[a]]
    /\ prev' = [a \in Addr |-> CASE a = b -> NULL [] a = next[b] -> prev[b] [] OTHER -> prev[a]]
    /\ freeList' = IF prev[b] # NULL THEN freeList ELSE next[b]

Taken(b) ==
    /\ call = "malloc" /\ b = cursor /\ Fits(b)
    /\ Return
    /\ used' = used \cup {b}
    /\ asked' = [asked EXCEPT ![b] = arg]

Fragments(b) == Paragraphs(arg) + MinBlock < size[b]

Split(b) ==
    LET bl_size == Paragraphs(arg)
        new     == b + bl_size + 1
    IN  /\ Taken(b) /\ Fragments(b)
        /\ magic' = magic \cup {new}
        /\ size' = [size EXCEPT ![b] = bl_size, ![new] = size[b] - bl_size - 1]
        /\ last' = LastMoved(b, new)
        /\ Replace(b, new)

Whole(b) ==
    /\ Taken(b) /\ ~Fragments(b)
    /\ Unlink(b)
    /\ UNCHANGED <<magic, size, last>>

-----------------------------------------------------------------------------
(* free(): back into the list, in order of address *)

free(b) ==
    /\ call = "none" /\ b \in used
    /\ call' = "free" /\ arg' = b /\ cursor' = freeList /\ before' = NULL
    /\ used' = used \ {b}
    /\ asked' = [asked EXCEPT ![b] = 0]
    /\ UNCHANGED <<magic, size, last, list>>

\* Faulty: does not look for the block's place
LowerNever == FALSE

Lower == cursor # NULL /\ cursor < arg

FreeSearch ==
    /\ call = "free" /\ Lower
    /\ before' = cursor /\ cursor' = next[cursor]
    /\ UNCHANGED <<headers, list, call, arg, asked>>

FreeLink ==
    /\ call = "free" /\ ~Lower
    /\ Return
    /\ next' = [a \in Addr |-> CASE a = arg -> cursor [] a = before -> arg [] OTHER -> next[a]]
    /\ prev' = [a \in Addr |-> CASE a = arg -> before [] a = cursor -> arg [] OTHER -> prev[a]]
    /\ freeList' = IF before # NULL THEN freeList ELSE arg
    /\ UNCHANGED <<headers, asked>>

-----------------------------------------------------------------------------
(* tidyHeap(): joins a free block to the one behind it *)

tidyHeap ==
    /\ call = "none"
    /\ call' = "tidy" /\ cursor' = freeList
    /\ UNCHANGED <<headers, list, arg, before, asked>>

\* Faulty: forgets the header between two blocks
AdjacentPast(b) == next[b] = b + size[b]

Adjacent(b) == next[b] = End(b)

\* The next block's header goes, and the walk goes on behind it
TidyJoin ==
    LET b == cursor
        gone == next[b]
    IN  /\ call = "tidy" /\ b \in magic /\ Adjacent(b)
        /\ size' = [size EXCEPT ![b] = @ + size[gone] + 1, ![gone] = 0]
        /\ last' = IF gone \in last THEN (last \ {gone}) \cup {b} ELSE last
        /\ magic' = magic \ {gone}
        /\ next' = [next EXCEPT ![b] = next[gone], ![gone] = NULL]
        /\ prev' = [a \in Addr |-> CASE a = gone -> NULL [] a = next[gone] -> b [] OTHER -> prev[a]]
        /\ cursor' = next[gone]
        /\ UNCHANGED <<used, freeList, call, arg, before, asked>>

TidyStep ==
    /\ call = "tidy" /\ cursor \in magic /\ ~Adjacent(cursor)
    /\ cursor' = next[cursor]
    /\ UNCHANGED <<headers, list, call, arg, before, asked>>

\* At the end of the list, or at a header that is none (EBADMCB)
TidyDone ==
    /\ call = "tidy" /\ cursor \notin magic
    /\ Return
    /\ UNCHANGED <<headers, list, asked>>

-----------------------------------------------------------------------------
Malloc == MallocSearch \/ OutOfMemory \/ \E b \in Addr : Split(b) \/ Whole(b)
Free   == FreeSearch \/ FreeLink
Tidy   == TidyJoin \/ TidyStep \/ TidyDone

Next ==
    \/ Malloc \/ Free \/ Tidy \/ tidyHeap
    \/ \E n \in Requests : malloc(n)
    \/ \E b \in Addr : free(b)

Spec == Init /\ [][Next]_vars

\* A call ends, and tidyHeap() "should be called regularly"
FairSpec == Spec /\ WF_vars(Malloc \/ Free \/ Tidy \/ tidyHeap)

-----------------------------------------------------------------------------
\* The free blocks, but for one that free() is putting back
Freed == magic \ (used \cup IF call = "free" THEN {arg} ELSE {})

\* c follows b in the order of address among the blocks of S, NULL being none
Follows(S, b, c) ==
    IF c = NULL THEN \A d \in S : d <= b ELSE c \in S /\ c > b /\ \A d \in S : d <= b \/ d >= c
Precedes(S, a, b) ==
    IF a = NULL THEN \A d \in S : d >= b ELSE a \in S /\ a < b /\ \A d \in S : d <= a \/ d >= b
First(S, b) == IF b = NULL THEN S = {} ELSE b \in S /\ \A d \in S : d >= b

TypeOK ==
    /\ magic \subseteq Addr /\ used \subseteq magic /\ last \subseteq magic
    /\ size \in [Addr -> Nat]
    /\ next \in [Addr -> Ptr] /\ prev \in [Addr -> Ptr] /\ freeList \in Ptr
    /\ call \in {"none", "malloc", "free", "tidy"}
    /\ arg \in Nat /\ cursor \in Ptr /\ before \in Ptr
    /\ asked \in [Addr -> Nat]

\* Whatever is split, freed and joined, walkHeap() goes from header to header
\* through every block, and the last of them, and no other, ends the heap: no
\* paragraph is lost and no two blocks share one.
HeapTiles ==
    /\ 0 \in magic
    /\ \A b \in magic :
         /\ IF walkHeap(b) = NULL THEN End(b) = HeapSize ELSE End(b) \in magic
         /\ \A c \in magic : c <= b \/ c >= End(b)

\* The free list holds the free blocks and no others, in order of address, and
\* reads the same in both directions (malloc() and tidyHeap() rely on it to
\* find every free block, and free() to keep it so).
FreeListSound ==
    /\ First(Freed, freeList)
    /\ \A b \in Freed : Follows(Freed, b, walkFree(b)) /\ Precedes(Freed, prev[b], b)

\* What a caller holds stays its own: its block has the bytes it asked for, and
\* reaches into no other block's header or data.
HeldApart ==
    \A b \in used :
        /\ 16 * size[b] >= asked[b]
        /\ \A c \in used : c = b \/ End(b) <= c \/ End(c) <= b

\* The heap is its blocks, and every block in use is its holder's alone.
BlocksSound == HeapTiles /\ HeldApart

\* malloc() takes the lowest free block that is large enough, and fails only if
\* there is none, though it looks at the blocks one by one.
FirstFit ==
    [][call = "malloc" /\ call' = "none" =>
         LET fitting == {b \in Freed : Fits(b)}
         IN  IF used' = used THEN fitting = {}
             ELSE \E b \in fitting : used' = used \cup {b} /\ \A c \in fitting : b <= c]_vars

\* tidyHeap() joins pairs, so one pass may leave neighbours apart; called again
\* and again with nothing allocated or freed, it joins all of them.
TidyOnly == call' # "none" => call' = "tidy"
Joined   == \A b \in magic \ used : End(b) \notin magic \ used
TidyCollects == <>[][TidyOnly]_vars => <>[]Joined
=============================================================================
