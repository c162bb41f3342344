\* Nine paragraphs: room for four blocks with a paragraph each, so that a free
\* block can have a free neighbour on either side, both or none.
SPECIFICATION FairSpec
CONSTANTS
    HeapSize = 9
    MinBlock = 1
    Requests <- MCRequests
    NULL = NULL
INVARIANTS BlocksSound FreeListSound
PROPERTIES FirstFit TidyCollects
