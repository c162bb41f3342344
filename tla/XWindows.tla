------------------------------ MODULE XWindows ------------------------------
(***************************************************************************)
(* The windows and events of litetask's X11 library: x11/xlib/xwindow.c,   *)
(* xevents.c, xlib.c and the root window of xroot.c.                       *)
(*                                                                         *)
(* A window is linked into the chain of the display that owns it, into the *)
(* tree of its ancestry, and while it is mapped into the display chain,    *)
(* from topWin down to the root window.  Each task opens a display of its  *)
(* own and calls the library for its own windows; it may send an event to  *)
(* any window.  Drawing is left out.                                       *)
(***************************************************************************)
EXTENDS XColors

CONSTANTS
    Windows,        \* the blocks that malloc() gives out for windows
    Root,           \* &X11rootWin
    QueueSize,      \* XQUEUE_SIZE
    Areas,          \* bound: the places windows are created at
    Misuses         \* what programs do that the library does not look for: "reinstall"
                    \* it, or have a window destroyed while the "walk" of another
                    \* task in XUnmapWindow() stands on it

ASSUME XAssumption ==
    /\ Windows \subseteq Nat /\ IsFiniteSet(Windows) /\ Root \notin Windows
    /\ NULL \notin Windows \cup {Root} /\ QueueSize \in Nat \ {0}

VARIABLES
    installed,      \* the library is installed
    windows,        \* window -> NULL, or its wininfo_t
    topWin,         \* the top of the display chain
    displays,       \* task -> NULL, or the display it opened
    lapped11        \* history: the displays whose event ring has overrun

windowVars == <<installed, windows, topWin, displays, lapped11>>

wininfo(area, owner, mask, parent, siblings, next) ==
    [area |-> area, owner |-> owner, mask |-> mask, next |-> next, prev |-> NULL,
     parent |-> parent, children |-> NULL, siblings |-> siblings, up |-> NULL, down |-> NULL]

\* The root window owns itself, wants to be exposed and is as large as the screen
X11rootWin == wininfo([x |-> 0, y |-> 0, w |-> 4, h |-> 4], NULL, TRUE, NULL, NULL, NULL)

\* What windows and displays can look like; the null pointer is none of them
wininfos ==
    LET pointers == Windows \cup {Root, NULL}
    IN  [area : Areas \cup {X11rootWin.area}, owner : Tasks \cup {NULL}, mask : BOOLEAN, next : pointers, prev : pointers,
         parent : pointers, children : pointers, siblings : pointers, up : pointers, down : pointers]

Displays ==
    [windows : Windows \cup {NULL}, head : 0 .. QueueSize - 1, tail : 0 .. QueueSize - 1,
     pending : Tasks \cup {NULL}, queue : [0 .. QueueSize - 1 -> BOOLEAN]]

ASSUME NoInfo == NULL \notin wininfos \cup Displays

Live == {w \in DOMAIN windows : windows[w] # NULL}

\* windows with each w of ws, or nothing for NULL, changed to new(w)
Update(ws, new(_)) == [w \in DOMAIN windows |-> IF w \in ws \ {NULL} THEN new(w) ELSE windows[w]]

WindowsInit ==
    /\ installed = FALSE
    /\ windows = [w \in Windows \cup {Root} |-> IF w = Root THEN X11rootWin ELSE NULL]
    /\ topWin = Root
    /\ displays = [t \in Tasks |-> NULL]
    /\ lapped11 = {}

-----------------------------------------------------------------------------
(* Events.                                                                 *)

\* XIQueueEvent() to window w: the root window handles it at once, for any
\* other it goes into the ring of the owner, full or not, and wakes it
XIQueueEvent(w) ==
    LET owner == windows[w].owner
        d == displays[owner]
        head == (d.head + 1) % QueueSize
    IN  IF owner = NULL
        THEN UNCHANGED <<displays, lapped11, asleep>>
        ELSE /\ displays' = [displays EXCEPT ![owner].queue[d.head] = TRUE,
                                             ![owner].head = head,
                                             ![owner].pending = NULL]
             /\ lapped11' = IF head = d.tail THEN lapped11 \cup {owner} ELSE lapped11
             /\ Resume({d.pending})

\* The event at the tail of the display of t is taken
Taken(t, d) == [d EXCEPT !.queue[d.tail] = FALSE, !.tail = (d.tail + 1) % QueueSize]

XNextEvent(t) ==
    LET d == displays[t]
    IN  /\ Idle(t) /\ d # NULL
        /\ IF d.head = d.tail
           THEN /\ displays' = [displays EXCEPT ![t].pending = t]
                /\ Enter(t, [op |-> "event", at |-> "take", got |-> 0])
                /\ asleep' = asleep \cup {t}
           ELSE /\ displays' = [displays EXCEPT ![t] = Taken(t, d)]
                /\ Leave(t, 0)
                /\ UNCHANGED asleep
        /\ UNCHANGED <<devices, installed, windows, topWin, lapped11>>

\* Awake, it takes an event without another look at the ring
eventTake(t) ==
    /\ Runs(t, "event", "take")
    /\ displays' = [displays EXCEPT ![t] = Taken(t, @)]
    /\ Leave(t, 0)
    /\ UNCHANGED <<devices, asleep, installed, windows, topWin, lapped11>>

XSendEvent(t, w) ==
    /\ Idle(t) /\ displays[t] # NULL /\ w \in Live
    /\ XIQueueEvent(w)
    /\ Leave(t, 0)
    /\ UNCHANGED <<devices, installed, windows, topWin>>

XSelectInput(t, w, mask) ==
    /\ Idle(t) /\ w \in Live \ {Root} /\ windows[w].owner = t
    /\ windows' = [windows EXCEPT ![w].owner = t, ![w].mask = mask]
    /\ Leave(t, 0)
    /\ UNCHANGED <<devices, asleep, installed, topWin, displays, lapped11>>

-----------------------------------------------------------------------------
(* Windows.                                                                *)

\* The heap gives out the first block that is free
XCreateSimpleWindow(t, w, parent, area) ==
    LET first == displays[t].windows
        new == wininfo(area, t, FALSE, parent, windows[parent].children, first)
    IN  /\ Idle(t) /\ displays[t] # NULL
        /\ w \in Windows \ Live /\ \A v \in Windows \ Live : w <= v
        /\ parent \in Live /\ windows[parent].owner \in {t, NULL}
        /\ windows' = [Update({first, parent}, LAMBDA v :
                         IF v = parent /\ v = first
                         THEN [windows[v] EXCEPT !.children = w, !.prev = w]
                         ELSE IF v = parent THEN [windows[v] EXCEPT !.children = w]
                         ELSE [windows[v] EXCEPT !.prev = w])
                       EXCEPT ![w] = new]
        /\ displays' = [displays EXCEPT ![t].windows = w]
        /\ Leave(t, 0)
        /\ UNCHANGED <<devices, asleep, installed, topWin, lapped11>>

\* w out of the display chain
Unlinked(w) ==
    LET u == windows[w].up
        d == windows[w].down
    IN  Update({u, d}, LAMBDA v : IF v = u THEN [windows[v] EXCEPT !.down = d]
                                           ELSE [windows[v] EXCEPT !.up = u])

\* Faulty: does not close the gap that w leaves in the display chain
RaisedOnly(w) ==
    IF w = topWin THEN windows
    ELSE [windows EXCEPT ![w].down = topWin, ![w].up = NULL, ![topWin].up = w]

\* XMapWindow() puts w on top of the display chain
Raised(w) ==
    IF w = topWin THEN windows
    ELSE [Unlinked(w) EXCEPT ![w].down = topWin, ![w].up = NULL, ![topWin].up = w]

\* ...and exposes it, if it wants that: its owner is the task that runs
XMapWindow(t, w) ==
    /\ Idle(t) /\ w \in Live \ {Root} /\ windows[w].owner = t
    /\ windows' = Raised(w)
    /\ topWin' = w
    /\ IF windows[w].mask THEN XIQueueEvent(w) ELSE UNCHANGED <<displays, lapped11, asleep>>
    /\ Leave(t, 0)
    /\ UNCHANGED <<devices, installed>>

\* XUnmapWindow() of frame.win: it leaves the display chain, and the window
\* that was under it starts the walk of the exposed
Unmap(t, frame) ==
    LET w == frame.win
    IN  /\ windows' = [Unlinked(w) EXCEPT ![w].up = NULL, ![w].down = NULL]
        /\ topWin' = IF topWin = w THEN windows[w].down ELSE topWin
        /\ IF frame.op = "unmap" /\ windows[w].down = NULL
           THEN Leave(t, 0)
           ELSE Enter(t, [frame EXCEPT !.np = windows[w].down])

\* XDestroyWindow() of frame.win unmaps it first, if there is one under it
Destroy(t, frame) ==
    IF windows[frame.win].down # NULL
    THEN Unmap(t, frame)
    ELSE Enter(t, frame) /\ UNCHANGED <<windows, topWin>>

Frame(op, w) == [op |-> op, win |-> w, np |-> NULL, tmp |-> NULL, at |-> "walk", got |-> 0]

XUnmapWindow(t, w) ==
    /\ Idle(t) /\ w \in Live \ {Root} /\ windows[w].owner = t
    /\ Unmap(t, Frame("unmap", w))
    /\ UNCHANGED <<devices, asleep, installed, displays, lapped11>>

XDestroyWindow(t, w) ==
    /\ Idle(t) /\ w \in Live \ {Root} /\ windows[w].owner = t
    /\ Destroy(t, Frame("destroy", w))
    /\ UNCHANGED <<devices, asleep, installed, displays, lapped11>>

PointInWindow(x, y, a) == x >= a.x /\ x < a.x + a.w /\ y >= a.y /\ y < a.y + a.h

\* A corner of area e is in area a
CornerIn(e, a) == \E x \in {e.x, e.x + e.w}, y \in {e.y, e.y + e.h} : PointInWindow(x, y, a)

Unmapping(t) == call[t].op \in {"unmap", "destroy", "close"}

\* XIChainDisplayEvent(): upwards, and with no lock from one window to the next
walk(t) ==
    LET np == call[t].np
    IN  /\ Unmapping(t) /\ np # NULL
        /\ IF windows[np].mask /\ CornerIn(windows[call[t].win].area, windows[np].area)
           THEN XIQueueEvent(np)
           ELSE UNCHANGED <<displays, lapped11, asleep>>
        /\ call' = IF call[t].op = "unmap" /\ windows[np].up = NULL
                   THEN [call EXCEPT ![t] = Out]
                   ELSE [call EXCEPT ![t].np = windows[np].up]
        /\ UNCHANGED <<devices, installed, windows, topWin>>

\* Then it leaves the chain of its display and the list of its parent, its
\* children go to the root window, in front of the others, and it is freed
Unhooked(w) ==
    LET i == windows[w]
        sons == {v \in Live : windows[v].parent = w}
        left == {v \in Live : windows[v].siblings = w}
    IN  [v \in DOMAIN windows |->
            IF v = w THEN NULL
            ELSE IF v \notin Live THEN windows[v]
            ELSE [windows[v] EXCEPT
                    !.next = IF v = i.prev THEN i.next ELSE @,
                    !.prev = IF v = i.next THEN i.prev ELSE @,
                    !.parent = IF v \in sons THEN Root ELSE @,
                    !.children = LET kept == IF v = i.parent /\ @ = w THEN i.siblings ELSE @
                                 IN  IF v = Root /\ sons # {} THEN i.children ELSE kept,
                    !.siblings = LET first == IF i.parent = Root /\ windows[Root].children = w
                                              THEN i.siblings ELSE windows[Root].children
                                 IN  IF v \in left THEN i.siblings
                                     ELSE IF v \in sons /\ @ = NULL THEN first ELSE @]]

\* XCloseDisplay() has read the next window before, which it goes on to
destroyUnhook(t) ==
    LET c == call[t]
        w == c.win
    IN  /\ Unmapping(t) /\ c.np = NULL /\ c.op # "unmap" /\ c.at = "walk"
        /\ "walk" \in Misuses \/ \A u \in Tasks : Unmapping(u) => call[u].np # w
        /\ windows' = Unhooked(w)
        /\ displays' = IF windows[w].prev = NULL
                       THEN [displays EXCEPT ![t].windows = windows[w].next] ELSE displays
        /\ IF c.op = "destroy" THEN Leave(t, 0)
           ELSE Enter(t, [c EXCEPT !.win = c.tmp, !.at = "next"])
        /\ UNCHANGED <<devices, asleep, installed, topWin, lapped11>>

\* The display itself is not freed, but its program has none any more
closeNext(t) ==
    LET c == call[t]
    IN  /\ c.op = "close" /\ c.at = "next"
        /\ IF c.win = NULL
           THEN /\ displays' = [displays EXCEPT ![t] = NULL] /\ lapped11' = lapped11 \ {t}
                /\ Leave(t, 0) /\ UNCHANGED <<windows, topWin>>
           ELSE /\ Destroy(t, [c EXCEPT !.tmp = windows[c.win].next, !.at = "walk"])
                /\ UNCHANGED <<displays, lapped11>>
        /\ UNCHANGED <<devices, asleep, installed>>

-----------------------------------------------------------------------------
(* The library and the displays.                                           *)

\* A second call puts the root window on top
InstallXWindows(t) ==
    /\ Idle(t) /\ (installed => "reinstall" \in Misuses)
    /\ installed' = TRUE
    /\ IF installed THEN UNCHANGED colorVars ELSE XIInstallColormap
    /\ windows' = Raised(Root) /\ topWin' = Root
    /\ Leave(t, 0)
    /\ UNCHANGED <<devices, asleep, displays, lapped11>>

RemoveXWindows(t) ==
    /\ Idle(t) /\ installed /\ \A u \in Tasks : displays[u] = NULL
    /\ installed' = FALSE /\ XIRemoveColormap
    /\ Leave(t, 0)
    /\ UNCHANGED <<devices, asleep, windows, topWin, displays, lapped11>>

XOpenDisplay(t) ==
    /\ Idle(t) /\ installed /\ displays[t] = NULL
    /\ displays' = [displays EXCEPT ![t] =
            [windows |-> NULL, head |-> 0, tail |-> 0, pending |-> NULL,
             queue |-> [i \in 0 .. QueueSize - 1 |-> FALSE]]]
    /\ Leave(t, 0)
    /\ UNCHANGED <<devices, asleep, installed, windows, topWin, lapped11>>

XCloseDisplay(t) ==
    /\ Idle(t) /\ displays[t] # NULL
    /\ Enter(t, [Frame("close", displays[t].windows) EXCEPT !.at = "next"])
    /\ UNCHANGED <<devices, asleep, windowVars>>

-----------------------------------------------------------------------------
(* Properties.                                                             *)

\* The windows passed from one along a link
reach(from, link) ==
    LET at[i \in 0 .. Cardinality(Windows) + 1] ==
            IF i = 0 THEN from
            ELSE IF at[i - 1] \in Live THEN windows[at[i - 1]][link] ELSE NULL
    IN  {at[i] : i \in 0 .. Cardinality(Windows) + 1} \ {NULL}

\* The three structures the windows are linked into hold.  The display chain
\* leads from topWin to the root window over windows that exist, each above
\* the one it stands on, and a window that is not on it is not linked; each
\* display leads to the windows it owns, and each window to its children.
\* And the walk of XUnmapWindow() is on none that was freed.
WindowsSound ==
    LET shown == reach(topWin, "down")
    IN  /\ Root \in shown /\ shown \subseteq Live
        /\ \A w \in Live : LET i == windows[w]
                          IN  /\ (i.down = NULL) <=> (w = Root \/ w \notin shown)
                              /\ (i.up = NULL) <=> (w = topWin \/ w \notin shown)
                              /\ i.down # NULL => windows[i.down].up = w
                              /\ i.next # NULL => windows[i.next].prev = w
                              /\ reach(i.children, "siblings") = {v \in Live : windows[v].parent = w}
        /\ \A t \in Tasks : LET owned == {w \in Live : windows[w].owner = t}
                           IN  IF displays[t] = NULL THEN owned = {}
                               ELSE reach(displays[t].windows, "next") = owned
        /\ \A t \in Tasks : Unmapping(t) => call[t].np \in Live \cup {NULL}
=============================================================================
