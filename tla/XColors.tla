------------------------------- MODULE XColors ------------------------------
(***************************************************************************)
(* The default colormap of litetask's X11 library, x11/xlib/xcolors.c: the *)
(* cells programs get to themselves, and the colours they store in them.   *)
(* A cell is a pixel value; every display uses the one map.                *)
(***************************************************************************)
EXTENDS IOSys

CONSTANTS
    Planes,         \* bound: the planes of the video mode
    BiosColors,     \* the colours of the first cells, which are read-only
    Rgbs            \* bound: the colours programs store or look for

ASSUME ColorsAssumption == Planes \in Nat \ {0} /\ Rgbs \subseteq Nat

VARIABLES
    flags,          \* cell -> "READ_ONLY", "AVAILABLE" or "ALLOCATED"; none before
                    \* the library is installed
    rgb,            \* cell -> its colour
    dac,            \* cell -> the colour the hardware shows, and the driver's copy of it
    granted         \* history: what XAllocColorCells() gave, pixels with their planes

colorVars == <<flags, rgb, dac, granted>>

BLACK == 0

MapSize == 2 ^ Planes

Cells == 0 .. MapSize - 1

BiosCells == {c \in Cells : c + 1 \in DOMAIN BiosColors}

ColorsInit == flags = <<>> /\ rgb = <<>> /\ dac = <<>> /\ granted = {}

\* The graphics driver's copy, and the hardware from the first to the last of the
\* cells that change
_ChangeColormap(cells) ==
    LET from == CHOOSE c \in cells : \A e \in cells : c <= e
        to == CHOOSE c \in cells : \A e \in cells : c >= e
    IN  dac' = [c \in Cells |-> IF c \in from .. to THEN rgb'[c] ELSE dac[c]]

XIInstallColormap ==
    /\ flags' = [c \in Cells |-> IF c \in BiosCells THEN "READ_ONLY" ELSE "AVAILABLE"]
    /\ rgb' = [c \in Cells |-> IF c \in BiosCells THEN BiosColors[c + 1] ELSE BLACK]
    /\ dac' = rgb'
    /\ granted' = {}

XIRemoveColormap == flags' = <<>> /\ rgb' = <<>> /\ dac' = <<>> /\ granted' = {}

\* Faulty: takes the hole at its first free cell, on a boundary or not
holeAnywhere(blocksize, ncells) ==
    LET fits == {c \in Cells : /\ c + ncells <= MapSize
                               /\ \A e \in c .. c + ncells - 1 : flags[e] = "AVAILABLE"}
    IN  IF fits = {} THEN -1 ELSE CHOOSE c \in fits : \A e \in fits : c <= e

\* The first cell of a hole on a boundary of `blocksize` that has ncells free
\* ones, or -1: the search goes on behind each hole that is too small
hole(blocksize, ncells) ==
    LET free(c) == flags[c] = "AVAILABLE"
        fits == {c \in Cells : /\ c % blocksize = 0 /\ c + ncells <= MapSize
                               /\ \A e \in c .. c + ncells - 1 : free(e)}
    IN  IF fits = {} THEN -1 ELSE CHOOSE c \in fits : \A e \in fits : c <= e

\* npixels pixels with nplanes planes each: the planes are the low bits, and
\* a pixel stands for a block of cells
XAllocColorCells(t, nplanes, npixels) ==
    LET blocksize == 2 ^ nplanes
        ncells == npixels * blocksize
        cell == hole(blocksize, ncells)
    IN  /\ Idle(t) /\ flags # <<>>
        /\ IF npixels < 1 \/ ncells > MapSize \/ cell = -1
           THEN UNCHANGED <<flags, granted>> /\ Leave(t, 0)
           ELSE /\ granted' = granted \cup {[pixel |-> cell + p * blocksize, nplanes |-> nplanes] :
                                                p \in 0 .. npixels - 1}
                /\ flags' = [c \in Cells |-> IF c \in cell .. cell + ncells - 1 THEN "ALLOCATED" ELSE flags[c]]
                /\ Leave(t, 1)
        /\ UNCHANGED <<devices, asleep, rgb, dac>>

\* The difference is of unsigned numbers: a colour that is greater than the
\* one looked for is never near, and none is that is Far
Far == 2000000

near(color) == {c \in BiosCells : rgb[c] <= color /\ color - rgb[c] < Far}

\* The first of the nearest, or -1
nearest(color) ==
    IF near(color) = {} THEN -1
    ELSE CHOOSE c \in near(color) : \A e \in near(color) : rgb[e] < rgb[c] \/ (rgb[e] = rgb[c] /\ c <= e)

XAllocColor(t, color) ==
    /\ Idle(t) /\ flags # <<>>
    /\ Leave(t, nearest(color))
    /\ UNCHANGED <<devices, asleep, colorVars>>

\* Of one cell
XStoreColor(t, cell, color) ==
    /\ Idle(t) /\ flags # <<>>
    /\ IF flags[cell] = "ALLOCATED"
       THEN rgb' = [rgb EXCEPT ![cell] = color] /\ _ChangeColormap({cell}) /\ Leave(t, 1)
       ELSE UNCHANGED <<rgb, dac>> /\ Leave(t, 0)
    /\ UNCHANGED <<devices, asleep, flags, granted>>

\* Of several: all of them, or none; the hardware is given the whole map
XStoreColors(t, cells, color) ==
    /\ Idle(t) /\ flags # <<>>
    /\ IF \A c \in cells : flags[c] = "ALLOCATED"
       THEN rgb' = [c \in Cells |-> IF c \in cells THEN color ELSE rgb[c]] /\ _ChangeColormap(Cells) /\ Leave(t, 1)
       ELSE UNCHANGED <<rgb, dac>> /\ Leave(t, 0)
    /\ UNCHANGED <<devices, asleep, flags, granted>>

-----------------------------------------------------------------------------
(* Properties.                                                             *)

\* XAllocColorCells() gives every cell away once, none of those that are
\* read-only, and to each pixel a cell for every set of its planes, which are
\* the low bits it is combined with; a read-only cell keeps its colour; and the
\* hardware shows what was stored.
CellsSound ==
    LET bits(v) == {k \in 0 .. Planes - 1 : bit(v, 2 ^ k)}
        cells(g) == {c \in Cells : /\ bits(g.pixel) \subseteq bits(c)
                                   /\ bits(c) \ bits(g.pixel) \subseteq 0 .. g.nplanes - 1}
    IN  flags # <<>> =>
        /\ dac = rgb
        /\ \A g \in granted : /\ Cardinality(cells(g)) = 2 ^ g.nplanes
                             /\ \A c \in cells(g) : flags[c] = "ALLOCATED"
                             /\ \A h \in granted \ {g} : cells(g) \cap cells(h) = {}
        /\ \A c \in BiosCells : flags[c] = "READ_ONLY" /\ rgb[c] = BiosColors[c + 1]
=============================================================================
