------------------------------ MODULE XDrawing ------------------------------
(***************************************************************************)
(* The drawing calls of litetask's X11 library, x11/xlib/xdrawing.c: they  *)
(* move what is drawn to where the window is and call the graphics driver, *)
(* line by line for paths and polygons; and the root window's drawing of   *)
(* itself, xroot.c.                                                        *)
(***************************************************************************)
EXTENDS Graphics

CONSTANTS
    Origins,        \* bound: where windows are: <<x, y>>
    PointSeqs,      \* bound: the points programs draw through: sequences of <<x, y>>
    Sizes           \* bound: the widths and heights of rectangles

\* The line between two points of a window, and a rectangle of it
XDrawLine(s, p, q) ==
    [kind |-> "line", x1 |-> s.window[1] + p[1], y1 |-> s.window[2] + p[2],
                      x2 |-> s.window[1] + q[1], y2 |-> s.window[2] + q[2]]

XDrawRectangle(s, kind) ==
    LET x == s.window[1] + s.points[1][1]
        y == s.window[2] + s.points[1][2]
    IN  [kind |-> kind, x1 |-> x, y1 |-> y, x2 |-> x + s.w, y2 |-> y + s.h]

\* The point each line goes on from, in the coordinates of the window
Current(s) ==
    LET next(c, p) == IF s.mode = "Origin" THEN p ELSE <<c[1] + p[1], c[2] + p[2]>>
        at[i \in DOMAIN s.points] == IF i = 1 THEN s.points[1] ELSE next(at[i - 1], s.points[i])
    IN  at

XDrawLines(s) ==
    LET current == Current(s)
    IN  {XDrawLine(s, current[i - 1], current[i]) : i \in 2 .. Len(s.points)}

\* The edges are drawn; the fill is built with SLOWFILL only
XFillPolygon(s) == XDrawLines(s) \cup {XDrawLine(s, Current(s)[Len(s.points)], s.points[1])}

\* The root window draws whole cells of eight by eight: black, and a bitmap on it
_RootExpose(s) ==
    LET x == s.points[1][1]
        y == s.points[1][2]
    IN  {[kind |-> "fill", x1 |-> 8 * (x \div 8), y1 |-> 8 * (y \div 8),
          x2 |-> 8 * ((x + s.w + 7) \div 8) - 1, y2 |-> 8 * ((y + s.h + 7) \div 8) - 1]}

\* The calls of the driver
XCalls(s) ==
    CASE s.kind = "XDrawLines" -> XDrawLines(s)
      [] s.kind = "XFillPolygon" -> XFillPolygon(s)
      [] s.kind = "XDrawRectangle" -> {XDrawRectangle(s, "rectangle")}
      [] s.kind = "XFillRectangle" -> {XDrawRectangle(s, "fill")}
      [] s.kind = "expose" -> _RootExpose(s)

OnScreen(d) == {d.x1, d.x2} \subseteq 0 .. Width - 1 /\ {d.y1, d.y2} \subseteq 0 .. Height - 1

\* The bound: one drawing on a clear screen, which it fits on
XDraw(t, s) ==
    /\ Idle(t) /\ videoMode # 3 /\ drawn = NULL
    /\ \A d \in XCalls(s) : OnScreen(d)
    /\ drawn' = s
    /\ \E x \in 0 .. 7 : screen' = UNION {Drawn(videoMode, d, x) : d \in XCalls(s)}
    /\ Leave(t, 0)
    /\ UNCHANGED videoMode

XShapes ==
    [kind : {"XDrawLines", "XFillPolygon"}, window : Origins, points : PointSeqs, mode : {"Origin", "Previous"}]
    \cup {s \in [kind : {"XDrawRectangle", "XFillRectangle", "expose"}, window : Origins,
                 points : {<<p>> : p \in Origins}, w : Sizes, h : Sizes] : s.kind = "expose" => s.window = <<0, 0>>}

XDrawingStep(t) == \E s \in XShapes : XDraw(t, s)

-----------------------------------------------------------------------------
(* Properties.                                                             *)

\* Where point i of a path is: relative points add up
Place(s, i) ==
    LET sum[n \in 0 .. i, k \in 1 .. 2] == IF n = 0 THEN 0 ELSE sum[n - 1, k] + s.points[n][k]
    IN  IF s.mode = "Origin" THEN s.points[i] ELSE <<sum[i, 1], sum[i, 2]>>

\* What a path is: the lines from each of its places to the next, and for a polygon
\* back to the first
PathLines(s) ==
    LET n == Len(s.points)
        ends == {<<i, i + 1>> : i \in 1 .. n - 1} \cup IF s.kind = "XFillPolygon" THEN {<<n, 1>>} ELSE {}
        at(i, k) == s.window[k] + Place(s, i)[k]
    IN  {[kind |-> "line", x1 |-> at(e[1], 1), y1 |-> at(e[1], 2), x2 |-> at(e[2], 1), y2 |-> at(e[2], 2)] : e \in ends}

\* The pixels of a rectangle in a window
Inside(s) ==
    {x + Width * y : x \in s.window[1] + s.points[1][1] .. s.window[1] + s.points[1][1] + s.w,
                     y \in s.window[2] + s.points[1][2] .. s.window[2] + s.points[1][2] + s.h}

\* Both drivers draw what they are asked to, and the X11 calls draw each line of a
\* path or polygon where the window is, relative or not, with the driver's lines
\* (in mode 18 with their flaws); a filled rectangle fills its inside, and
\* in mode 18 its last column may be missing; the root window leaves no
\* pixel of what was exposed as it was.
DrawsTheShape ==
    /\ ShapeDrawn
    /\ drawn # NULL =>
        /\ drawn.kind \in {"XDrawLines", "XFillPolygon"} =>
            \E x \in 0 .. 7 : screen = UNION {Drawn(videoMode, d, x) : d \in PathLines(drawn)}
        /\ drawn.kind = "XFillRectangle" =>
            /\ screen \subseteq Inside(drawn)
            /\ videoMode = 19 => screen = Inside(drawn)
        /\ drawn.kind = "expose" =>
            {p \in Inside(drawn) : p % Width < drawn.points[1][1] + drawn.w /\ p \div Width < drawn.points[1][2] + drawn.h} \subseteq screen
=============================================================================
