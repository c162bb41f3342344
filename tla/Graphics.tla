------------------------------ MODULE Graphics ------------------------------
(***************************************************************************)
(* The graphics drivers of litetask: x11/graphics/vm18drv.c, which writes  *)
(* the bits of a byte for eight pixels at a time, and vm19drv.c, a byte    *)
(* for each pixel.                                                         *)
(*                                                                         *)
(* A drawing is the set of the pixels it writes, which are numbered line   *)
(* by line: pixel x of line y is x + Width * y.  In mode 18 that is bit    *)
(* x % 8, from the left, of byte x \div 8.  The colour is left out.        *)
(***************************************************************************)
EXTENDS IOSys

CONSTANTS
    LineBytes,      \* the bytes of a line in mode 18
    Height,         \* the lines of the screen
    Xs, Ys,         \* bound: the columns and lines that programs draw from and to
    Glyphs,         \* bound: the characters: sets of <<lx, ly>>
    MaxText,        \* bound: the length of a string
    Bitmaps         \* bound: the bitmaps: widths, heights and the <<lx, ly>> that are set

ASSUME GraphicsAssumption ==
    /\ LineBytes \in Nat \ {0} /\ Height \in Nat \ 0 .. 8
    /\ Xs \subseteq 0 .. 8 * LineBytes - 1 /\ Ys \subseteq 0 .. Height - 1

VARIABLES
    videoMode,      \* the video mode: 3, which is text, or the 18 or 19 of the driver in use
    drawn,          \* NULL, or what was drawn
    screen          \* the pixels that were written

graphicsVars == <<videoMode, drawn, screen>>

Width == 8 * LineBytes

\* The pixel that is bit i of byte `offset`
PixelOf(offset, i) == 8 * offset + i

GraphicsInit == videoMode = 3 /\ drawn = NULL /\ screen = {}

-----------------------------------------------------------------------------
(* Lines.                                                                  *)

Between(v, w) == {i \in 0 .. Width + Height : (v <= i /\ i <= w) \/ (w <= i /\ i <= v)}

Least(v, w) == IF v <= w THEN v ELSE w

Distance(v, w) == IF v <= w THEN w - v ELSE v - w

\* Fewer than eight pixels on are drawn point by point.  Else the byte that x1
\* is inside of is written, then whole bytes while x1 < x2 - 8, and one
\* byte for all of the rest: of nine pixels the ninth is bit 0 of it again
DrawHorizLine18(x1, x2, y) ==
    LET from == Least(x1, x2)
        to == x1 + x2 - from
        aligned == 8 * ((from + 7) \div 8)
        last == aligned + 8 * (IF to - 8 <= aligned THEN 0 ELSE (to - 8 - aligned + 7) \div 8)
    IN  IF to - from < 8
        THEN {x + Width * y : x \in from .. to}
        ELSE {x + Width * y : x \in from .. last - 1}
                \cup {PixelOf(LineBytes * y + last \div 8, x % 8) : x \in last .. to}

DrawHorizLine19(x1, x2, y) == {x + Width * y : x \in Between(x1, x2)}

\* In both drivers
DrawVertLine(x, y1, y2) == {x + Width * y : y \in Between(y1, y2)}

\* Faulty: the first decision leaves the first step out
BresenhamLate(long, short) ==
    LET next(p) == IF p.d >= 0 THEN [d |-> p.d + 2 * (short - long), n |-> p.n + 1]
                               ELSE [d |-> p.d + 2 * short, n |-> p.n]
        at[k \in 0 .. long] == IF k = 0 THEN [d |-> -long, n |-> 0] ELSE next(at[k - 1])
    IN  [k \in 0 .. long |-> at[k].n]

\* Bresenham's algorithm, in both drivers: how far a line that goes `short`
\* across on its way of `long` is across after k steps
Bresenham(long, short) ==
    LET next(p) == IF p.d >= 0 THEN [d |-> p.d + 2 * (short - long), n |-> p.n + 1]
                               ELSE [d |-> p.d + 2 * short, n |-> p.n]
        at[k \in 0 .. long] == IF k = 0 THEN [d |-> 2 * short - long, n |-> 0] ELSE next(at[k - 1])
    IN  [k \in 0 .. long |-> at[k].n]

\* Line s from left to right: its first bit is that of the variable x, which was
\* not set, and the bits of the next pixels follow on it
DrawSlopeLineX18(s, x) ==
    LET n == Bresenham(s.x2 - s.x1, Distance(s.y1, s.y2))
        yincr == IF s.y2 > s.y1 THEN 1 ELSE -1
    IN  {PixelOf(LineBytes * (s.y1 + yincr * n[k]) + s.x1 \div 8, (x % 8) + k) : k \in DOMAIN n}

DrawSlopeLineX19(s) ==
    LET n == Bresenham(s.x2 - s.x1, Distance(s.y1, s.y2))
        yincr == IF s.y2 > s.y1 THEN 1 ELSE -1
    IN  {s.x1 + k + Width * (s.y1 + yincr * n[k]) : k \in DOMAIN n}

\* The mask of a line that goes left has sixteen bits: it is shifted out of
\* the byte, where it writes nothing, eight times before it is zero
Leftward(offset, first) ==
    LET next(p) == IF p.bit = -8 THEN [offset |-> p.offset - 1, bit |-> 7] ELSE [p EXCEPT !.bit = @ - 1]
        at[n \in 0 .. Width] == IF n = 0 THEN [offset |-> offset, bit |-> first] ELSE next(at[n - 1])
    IN  at

\* Line s from the top down
DrawSlopeLineY18(s) ==
    LET n == Bresenham(s.y2 - s.y1, Distance(s.x1, s.x2))
        left == Leftward(s.x1 \div 8, s.x1 % 8)
    IN  IF s.x2 > s.x1
        THEN {PixelOf(LineBytes * (s.y1 + k) + s.x1 \div 8, (s.x1 % 8) + n[k]) : k \in DOMAIN n}
        ELSE {PixelOf(LineBytes * (s.y1 + k) + left[n[k]].offset, left[n[k]].bit) :
                k \in {j \in DOMAIN n : left[n[j]].bit >= 0}}

DrawSlopeLineY19(s) ==
    LET n == Bresenham(s.y2 - s.y1, Distance(s.x1, s.x2))
        xincr == IF s.x2 > s.x1 THEN 1 ELSE -1
    IN  {s.x1 + xincr * n[k] + Width * (s.y1 + k) : k \in DOMAIN n}

\* Drawn along the longer of the two directions, with its ends swapped to go up in it
Steep(s) == Distance(s.y1, s.y2) > Distance(s.x1, s.x2)

Sloped(s) == s.x1 # s.x2 /\ s.y1 # s.y2

Sorted(s) ==
    IF IF Steep(s) THEN s.y1 > s.y2 ELSE s.x1 > s.x2
    THEN [s EXCEPT !.x1 = s.x2, !.x2 = s.x1, !.y1 = s.y2, !.y2 = s.y1]
    ELSE s

DrawHorizLine(m, x1, x2, y) == IF m = 18 THEN DrawHorizLine18(x1, x2, y) ELSE DrawHorizLine19(x1, x2, y)

DrawLine(m, s, x) ==
    IF s.x1 = s.x2 THEN DrawVertLine(s.x1, s.y1, s.y2)
    ELSE IF s.y1 = s.y2 THEN DrawHorizLine(m, s.x1, s.x2, s.y1)
    ELSE IF Steep(s) THEN IF m = 18 THEN DrawSlopeLineY18(Sorted(s)) ELSE DrawSlopeLineY19(Sorted(s))
    ELSE IF m = 18 THEN DrawSlopeLineX18(Sorted(s), x) ELSE DrawSlopeLineX19(Sorted(s))

-----------------------------------------------------------------------------
(* Areas.                                                                  *)

DrawRectangle(m, s) ==
    DrawHorizLine(m, s.x1, s.x2, s.y1) \cup DrawHorizLine(m, s.x1, s.x2, s.y2)
        \cup DrawVertLine(s.x1, s.y1, s.y2) \cup DrawVertLine(s.x2, s.y1, s.y2)

FillRectangle(m, s) == UNION {DrawHorizLine(m, s.x1, s.x2, y) : y \in Between(s.y1, s.y2)}

\* Each character a glyph, and then on by eight columns, or to the next line: up
\* to the last eight columns but one, and to the last eight lines
DrawString(s) ==
    LET next(c) == IF c[1] + 8 > Width - 1 - 8 THEN <<0, (c[2] + 8) % (Height - 8)>> ELSE <<c[1] + 8, c[2]>>
        cell[i \in 1 .. Len(s.text)] == IF i = 1 THEN <<s.x1, s.y1>> ELSE next(cell[i - 1])
    IN  UNION {{cell[i][1] + l[1] + Width * (cell[i][2] + l[2]) : l \in s.text[i]} : i \in DOMAIN s.text}

\* Every pixel of the pixmap is written
DrawPixmap(s) == {s.x1 + lx + Width * (s.y1 + ly) : lx \in 0 .. s.w - 1, ly \in 0 .. s.h - 1}

\* Mode 18 writes each byte of the bitmap, its padding included, in two parts
\* if it does not start at a byte
DrawBitmap18(s) ==
    LET shift == s.x1 % 8
        start(lx, ly) == (s.y1 + ly) * LineBytes + s.x1 \div 8 + lx \div 8
    IN  {IF (l[1] % 8) + shift < 8 THEN PixelOf(start(l[1], l[2]), (l[1] % 8) + shift)
         ELSE PixelOf(start(l[1], l[2]) + 1, (l[1] % 8) + shift - 8) : l \in s.set}

DrawBitmap19(s) == {s.x1 + l[1] + Width * (s.y1 + l[2]) : l \in {k \in s.set : k[1] < s.w}}

Drawn(m, s, x) ==
    CASE s.kind = "line" -> DrawLine(m, s, x)
      [] s.kind = "rectangle" -> DrawRectangle(m, s)
      [] s.kind = "fill" -> FillRectangle(m, s)
      [] s.kind = "string" -> DrawString(s)
      [] s.kind = "pixmap" -> DrawPixmap(s)
      [] s.kind = "bitmap" -> IF m = 18 THEN DrawBitmap18(s) ELSE DrawBitmap19(s)

-----------------------------------------------------------------------------
(* The calls.                                                              *)

\* int 10h clears the screen
InitDriver(t, m) ==
    /\ Idle(t) /\ videoMode = 3
    /\ videoMode' = m /\ drawn' = NULL /\ screen' = {}
    /\ Leave(t, 0)

\* Back to text
RemoveDriver(t) ==
    /\ Idle(t) /\ videoMode # 3
    /\ videoMode' = 3 /\ drawn' = NULL /\ screen' = {}
    /\ Leave(t, 0)

\* The bound: one drawing on a clear screen.  x is what was on the stack
Draw(t, s) ==
    /\ Idle(t) /\ videoMode # 3 /\ drawn = NULL
    /\ drawn' = s
    /\ \E x \in 0 .. 7 : screen' = Drawn(videoMode, s, x)
    /\ Leave(t, 0)
    /\ UNCHANGED videoMode

\* Shapes that lie on the screen
Shapes ==
    [kind : {"line", "rectangle", "fill"}, x1 : Xs, y1 : Ys, x2 : Xs, y2 : Ys]
    \cup {s \in [kind : {"string"}, x1 : Xs, y1 : Ys, text : UNION {[1 .. n -> Glyphs] : n \in 1 .. MaxText}] :
            s.x1 <= Width - 8 /\ s.y1 <= Height - 8}
    \cup {[kind |-> k, x1 |-> x, y1 |-> y, w |-> b.w, h |-> b.h, set |-> b.set] :
            k \in {"pixmap", "bitmap"}, x \in Xs, y \in Ys, b \in Bitmaps}

Fits(s) == s.kind \in {"pixmap", "bitmap"} =>
            s.x1 + 8 * ((s.w + 7) \div 8) <= Width /\ s.y1 + s.h <= Height

GraphicsStep(t) ==
    \/ \E m \in {18, 19} : InitDriver(t, m)
    \/ RemoveDriver(t)
    \/ \E s \in Shapes : Fits(s) /\ Draw(t, s)

-----------------------------------------------------------------------------
(* Properties.                                                             *)

\* What a shape is: the pixels nearest to a line, half-way ones forward;
\* the edges, or all, of a rectangle; the set pixels of a bitmap
Line(s) ==
    LET dx == Distance(s.x1, s.x2)
        dy == Distance(s.y1, s.y2)
        round(v, w) == (2 * v + w) \div (2 * w)
        on(v, w, n) == IF v <= w THEN v + n ELSE v - n
    IN  IF dx = 0 /\ dy = 0 THEN {s.x1 + Width * s.y1}
        ELSE IF Steep(s) THEN {on(s.x1, s.x2, round(k * dx, dy)) + Width * on(s.y1, s.y2, k) : k \in 0 .. dy}
        ELSE {on(s.x1, s.x2, k) + Width * on(s.y1, s.y2, round(k * dy, dx)) : k \in 0 .. dx}

Shape(s) ==
    LET in(x, y) == x \in Between(s.x1, s.x2) /\ y \in Between(s.y1, s.y2)
        edge(x, y) == x \in {s.x1, s.x2} \/ y \in {s.y1, s.y2}
        dots == (0 .. Width - 1) \X (0 .. Height - 1)
        at(ds) == {d[1] + Width * d[2] : d \in ds}
    IN  CASE s.kind = "line" -> Line(Sorted(s))
          [] s.kind = "rectangle" -> at({d \in dots : in(d[1], d[2]) /\ edge(d[1], d[2])})
          [] s.kind = "fill" -> at({d \in dots : in(d[1], d[2])})
          [] s.kind = "pixmap" -> at({d \in dots : d[1] - s.x1 \in 0 .. s.w - 1 /\ d[2] - s.y1 \in 0 .. s.h - 1})
          [] s.kind = "bitmap" -> at({d \in dots : <<d[1] - s.x1, d[2] - s.y1>> \in s.set})

\* The pixels mode 18 leaves out of horizontal lines of nine or more, and of
\* the areas filled with them: the last, where it is the first of a byte
LastOfByte(s) ==
    LET x == s.x1 + s.x2 - Least(s.x1, s.x2)
    IN  IF /\ s.kind = "fill" \/ (s.kind = "line" /\ s.y1 = s.y2)
           /\ Distance(s.x1, s.x2) >= 8 /\ x % 8 = 0
        THEN {x + Width * y : y \in Between(s.y1, s.y2)}
        ELSE {}

\* A steep line of mode 18 that goes left, down, into another byte
LeavesByte(s) == s.kind = "line" /\ Sloped(s) /\ Steep(s)
                    /\ Sorted(s).x2 < Sorted(s).x1 /\ s.x1 \div 8 # s.x2 \div 8

\* Both drivers draw the pixels of the shape, and no others, whatever bytes it
\* starts and ends in, and a string stays on the screen.  But in mode 18
\* the last pixel of a line may be missing, a flat line is displaced within
\* its byte, and a steep one is broken that goes left into another byte.
ShapeDrawn ==
    (drawn # NULL /\ drawn.kind \in {"line", "rectangle", "fill", "string", "pixmap", "bitmap"}) =>
        IF drawn.kind = "string" THEN screen \subseteq 0 .. Width * Height - 1
        ELSE IF videoMode = 19 THEN screen = Shape(drawn)
        ELSE \/ LeavesByte(drawn)
             \/ screen = Shape(drawn) \ LastOfByte(drawn)
             \/ /\ drawn.kind = "line" /\ Sloped(drawn) /\ ~Steep(drawn)
                /\ \E shift \in -7 .. 7 : screen = {p + shift : p \in Shape(drawn)}
=============================================================================
