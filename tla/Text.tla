-------------------------------- MODULE Text --------------------------------
(***************************************************************************)
(* The text mode driver of litetask, kernel/clib/textdrv.c: characters     *)
(* written to the memory of the CGA or of the MDA, a cell each, line after *)
(* line.  Columns and lines are scaled.                                    *)
(*                                                                         *)
(* Beside it stands what its callers mean by it, a page: lines of cells,   *)
(* the last of which is followed by a blank one when it is full.           *)
(***************************************************************************)
EXTENDS IOSys

CONSTANTS
    Narrow, Wide,   \* the columns of modes 0 and 1, and of all others
    Lines,          \* the lines of the screen
    Texts,          \* bound: what programs write: sequences of characters
    MaxWritten      \* bound: the calls that write, from one clear screen to the next

ASSUME TextAssumption == Narrow \in 1 .. Wide /\ Wide \in Nat /\ Lines \in Nat \ {0}

VARIABLES
    curMode,        \* the mode in use, -1 for none
    oldMode,        \* the mode to go back to
    width,          \* textDrv.width
    textX, textY,   \* the cursor
    textScreen,     \* the cells of the memory on show, the CGA's or in mode 7 the MDA's
    biosMode,       \* the mode of the hardware
    page,           \* history: what should be on show, line by line
    written         \* history: the writing calls since the screen was clear

textVars == <<curMode, oldMode, width, textX, textY, textScreen, biosMode, page, written>>

\* Characters, by their ASCII codes
Blank == 32
CR == 13
LF == 10
FF == 12

Columns(mode) == IF mode \in {0, 1} THEN Narrow ELSE Wide

\* The screen and, behind it, as many cells again
TextCells == 0 .. 2 * Wide * Lines

ClearCells == [i \in TextCells |-> Blank]

ClearPage(w) == [y \in 0 .. Lines - 1 |-> [x \in 0 .. w - 1 |-> Blank]]

TextInit(modes) ==
    /\ biosMode \in modes
    /\ curMode = -1 /\ oldMode = -1 /\ width = Wide /\ textX = 0 /\ textY = 0
    /\ textScreen = ClearCells
    /\ page = ClearPage(Columns(biosMode)) /\ written = 0

-----------------------------------------------------------------------------
(* The screen as a memory.                                                 *)

\* OutStringXY() of the string of spaces, which is Wide long whatever the width
Spaces(cells, y) == [i \in TextCells |-> IF i \in y * width .. y * width + Wide - 1 THEN Blank ELSE cells[i]]

\* The lines of ys, in this order, made of spaces
SpacesIn(cells, ys) ==
    LET done[k \in 0 .. Len(ys)] == IF k = 0 THEN cells ELSE Spaces(done[k - 1], ys[k])
    IN  done[Len(ys)]

ClearText(cells) == SpacesIn(cells, [k \in 1 .. Lines |-> k - 1])

\* Lines are copied from the top for a scroll up, and from the bottom for one
\* down; those that are left become spaces, in the same order
ScrollText(cells, n) ==
    LET moved == {y \in 0 .. Lines - 1 : y + n \in 0 .. Lines - 1}
        copied == [i \in TextCells |-> IF i \div width \in moved THEN cells[i + n * width] ELSE cells[i]]
        left == Lines - Cardinality(moved)
    IN  SpacesIn(copied, [k \in 1 .. left |-> IF n < 0 THEN left - k ELSE Lines - left + k - 1])

\* Where the driver is, and the memory: offset is the cell of the line of y, as
\* OutString() keeps it
State == [x |-> textX, y |-> textY, offset |-> textY * width, cells |-> textScreen]

\* To the next line, or on the last with a scroll
NextLine(s) ==
    LET y == IF s.y + 1 >= Lines THEN s.y ELSE s.y + 1
    IN  [s EXCEPT !.y = y, !.offset = y * width,
                  !.cells = IF s.y + 1 >= Lines THEN ScrollText(s.cells, 1) ELSE @]

\* Faulty: the offset stays when a full line wraps
OutLate(s, c) ==
    CASE c = CR -> [s EXCEPT !.x = 0]
      [] c = LF -> NextLine(s)
      [] c = FF -> [s EXCEPT !.x = 0, !.y = 0, !.offset = 0, !.cells = ClearText(s.cells)]
      [] OTHER ->
            LET put == [s EXCEPT !.cells[s.offset + s.x] = c]
            IN  IF s.x + 1 >= width THEN [NextLine(put) EXCEPT !.x = 0, !.offset = s.offset] ELSE [put EXCEPT !.x = @ + 1]

\* One character, as OutString() and OutChar() do it
OutOne(s, c) ==
    CASE c = CR -> [s EXCEPT !.x = 0]
      [] c = LF -> NextLine(s)
      [] c = FF -> [s EXCEPT !.x = 0, !.y = 0, !.offset = 0, !.cells = ClearText(s.cells)]
      [] OTHER ->
            LET put == [s EXCEPT !.cells[s.offset + s.x] = c]
            IN  IF s.x + 1 >= width THEN [NextLine(put) EXCEPT !.x = 0] ELSE [put EXCEPT !.x = @ + 1]

OutAll(s, text) ==
    LET after[k \in 0 .. Len(text)] == IF k = 0 THEN s ELSE OutOne(after[k - 1], text[k])
    IN  after[Len(text)]

-----------------------------------------------------------------------------
(* The screen as a page.                                                   *)

\* Page p moved up by n lines, or down by -n; but down on a narrow screen the
\* spaces of the line above wipe the first line that was moved
PageScrolled(p, n) ==
    [y \in 0 .. Lines - 1 |->
        IF y + n \in 0 .. Lines - 1 /\ ~(n < 0 /\ y = -n /\ width < Wide) THEN p[y + n]
        ELSE [x \in DOMAIN p[0] |-> Blank]]

\* A page and a cursor after one character
PageOut(s, c) ==
    LET newLine(q) == IF q.y = Lines - 1 THEN [q EXCEPT !.page = PageScrolled(q.page, 1)] ELSE [q EXCEPT !.y = @ + 1]
    IN  CASE c = CR -> [s EXCEPT !.x = 0]
          [] c = LF -> newLine(s)
          [] c = FF -> [x |-> 0, y |-> 0, page |-> ClearPage(Columns(biosMode))]
          [] OTHER ->
                LET put == [s EXCEPT !.page[s.y][s.x] = c]
                IN  IF s.x = Columns(biosMode) - 1 THEN [newLine(put) EXCEPT !.x = 0] ELSE [put EXCEPT !.x = @ + 1]

PageAll(text) ==
    LET after[k \in 0 .. Len(text)] ==
            IF k = 0 THEN [x |-> textX, y |-> textY, page |-> page] ELSE PageOut(after[k - 1], text[k])
    IN  after[Len(text)].page

-----------------------------------------------------------------------------
(* The calls.                                                              *)

\* int 10h: a mode begins with a clear screen
SetMode(mode) ==
    /\ biosMode' = mode
    /\ textScreen' = ClearCells /\ page' = ClearPage(Columns(mode))

\* Text modes stay, and graphics modes become mode 3; the width is that of the
\* BIOS in the first four modes only.  The cursor is where the BIOS has it.  Modes
\* that are neither are refused
InitText(t, x, y) ==
    /\ Idle(t)
    /\ Leave(t, 0)
    /\ IF curMode >= 0 \/ biosMode \in {11, 12}
       THEN UNCHANGED <<curMode, oldMode, width, textX, textY, textScreen, biosMode, page>>
       ELSE /\ oldMode' = biosMode
            /\ curMode' = IF biosMode \in {0, 1, 2, 3, 7} THEN biosMode ELSE 3
            /\ width' = IF biosMode \in 0 .. 3 THEN Columns(biosMode) ELSE width
            /\ IF curMode' = biosMode
               THEN textX' = x /\ textY' = y /\ UNCHANGED <<textScreen, biosMode, page>>
               ELSE textX' = 0 /\ textY' = 0 /\ SetMode(3)
    /\ UNCHANGED written

\* A mode that was not changed stays in use
RemoveText(t) ==
    /\ Idle(t)
    /\ Leave(t, 0)
    /\ IF curMode # oldMode
       THEN SetMode(oldMode) /\ curMode' = -1 /\ oldMode' = -1
       ELSE UNCHANGED <<curMode, oldMode, textScreen, biosMode, page>>
    /\ UNCHANGED <<width, textX, textY, written>>

\* What the driver and the page are after a text.  With no mode in use the
\* BIOS writes it, which is left out
Show(text) ==
    IF curMode = -1
    THEN UNCHANGED <<textX, textY, textScreen, page>>
    ELSE LET s == OutAll(State, text)
         IN  /\ textX' = s.x /\ textY' = s.y /\ textScreen' = s.cells
             /\ page' = PageAll(text)

\* OutString(), and OutChar() of a text of one character
OutString(t, text) ==
    /\ Idle(t) /\ written < MaxWritten
    /\ Show(text)
    /\ written' = written + 1
    /\ Leave(t, 0)
    /\ UNCHANGED <<curMode, oldMode, width, biosMode>>

\* OutStringXY(), and OutCharXY() of one character: no cursor is moved.  The
\* bound: texts that fit into the line
OutStringXY(t, x, y, text) ==
    /\ Idle(t) /\ written < MaxWritten /\ curMode # -1 /\ x + Len(text) <= width
    /\ LET first == y * width + x
       IN  textScreen' = [i \in TextCells |-> IF i - first + 1 \in DOMAIN text THEN text[i - first + 1] ELSE textScreen[i]]
    /\ page' = [page EXCEPT ![y] = [i \in DOMAIN @ |-> IF i - x + 1 \in DOMAIN text THEN text[i - x + 1] ELSE @[i]]]
    /\ written' = written + 1
    /\ Leave(t, 0)
    /\ UNCHANGED <<curMode, oldMode, width, textX, textY, biosMode>>

\* ScrollText() as programs call it, with the cursor left where it is
Scroll(t, n) ==
    /\ Idle(t) /\ written < MaxWritten /\ curMode # -1
    /\ textScreen' = ScrollText(textScreen, n)
    /\ page' = PageScrolled(page, n)
    /\ written' = written + 1
    /\ Leave(t, 0)
    /\ UNCHANGED <<curMode, oldMode, width, textX, textY, biosMode>>

\* To the memory of the other card, or the mode set again
CtrlText(t, ctrl) ==
    /\ Idle(t) /\ curMode # -1
    /\ IF (ctrl = "CGASCREEN" /\ curMode # 7) \/ (ctrl = "MDASCREEN" /\ curMode = 7)
       THEN UNCHANGED <<curMode, textX, textY, textScreen, biosMode, page>>
       ELSE /\ curMode' = CASE ctrl = "RESET" -> curMode [] ctrl = "CGASCREEN" -> 3 [] ctrl = "MDASCREEN" -> 7
            /\ textX' = 0 /\ textY' = 0
            /\ SetMode(curMode')
    /\ Leave(t, 0)
    /\ UNCHANGED <<oldMode, width, written>>

TextStep(t) ==
    \/ \E at \in {<<0, 0>>, <<1, Lines - 1>>} : InitText(t, at[1], at[2])
    \/ RemoveText(t)
    \/ \E text \in Texts : OutString(t, text)
    \/ \E x \in 0 .. Wide - 1, y \in 0 .. Lines - 1 : OutStringXY(t, x, y, <<121, 121>>)
    \/ \E n \in -Lines .. Lines + 1 : Scroll(t, n)
    \/ \E ctrl \in {"RESET", "CGASCREEN", "MDASCREEN"} : CtrlText(t, ctrl)

-----------------------------------------------------------------------------
(* Properties.                                                             *)

\* The screen shows the page: what was written, where the cursor was, with the
\* lines moved up that scrolled, whatever mixture of texts, single
\* characters and scrolls it was.  But CtrlText() keeps the width of 40 columns
\* when it goes to the MDA, which has 80.
ScreenShows ==
    (curMode # -1 /\ width = Columns(curMode)) =>
        \A y \in 0 .. Lines - 1 : \A x \in 0 .. width - 1 : textScreen[y * width + x] = page[y][x]
=============================================================================
