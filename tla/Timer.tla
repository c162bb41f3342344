------------------------------- MODULE Timer --------------------------------
(***************************************************************************)
(* The clock of litetask (kernel/timer.c): a list of timers that each tick *)
(* counts down, and the share of the ticks that is passed on to the BIOS.  *)
(*                                                                         *)
(* The tick is an interrupt: no task runs until clockTick() returns, and a *)
(* second tick before that is a kernel panic (intglue.asm).  The functions *)
(* it calls may start and stop timers; they delete none.                   *)
(***************************************************************************)
EXTENDS Integers, FiniteSets

CONSTANTS Timers,       \* the blocks malloc() may return
          Delays,       \* the delays asked for
          Periods,      \* the values of installTimer(): counts of the 8253
          Wrap,         \* an unsigned short wraps here
          NULL

ASSUME TimerAssumption ==
    /\ NULL \notin Timers /\ IsFiniteSet(Timers)
    /\ Delays \subseteq Nat
    /\ Wrap \in Nat \ {0} /\ Periods \subseteq 0..(Wrap - 1)

VARIABLES
    timerList, next,    \* the list
    allocated,          \* the timers that exist
    status, count,
    deleting,           \* timers that deleteTimer() has stopped and not unlinked
    walk,               \* clockTick()'s place in the list
    called,             \* the timer whose function runs
    inTick,             \* clockTick() runs
    installed, timerMax, timerCount,
    armed,              \* history: the timers started and neither called nor stopped since
    asked, age,         \* history: each timer's delay, and the ticks since it was started
    owed                \* history: counts of the 8253, timerMax + 1 to a tick, that
                        \* the BIOS has not been told of

list    == <<timerList, next, allocated, deleting>>
starts  == <<armed, asked, age>>
states  == <<status, count, starts>>
tick    == <<walk, called, inTick>>
clock   == <<installed, timerMax, timerCount, owed>>
vars    == <<list, states, tick, clock>>

Ptr == Timers \cup {NULL}

\* The timers from t on, along the list
From(t) ==
    LET w[i \in 0..Cardinality(Timers)] ==
          IF i = 0 THEN t ELSE IF w[i-1] = NULL THEN NULL ELSE next[w[i-1]]
    IN  {w[i] : i \in DOMAIN w} \ {NULL}

Init ==
    /\ timerList = NULL /\ next = [t \in Timers |-> NULL]
    /\ allocated = {} /\ deleting = {}
    /\ status = [t \in Timers |-> "DONE"] /\ count = [t \in Timers |-> 0]
    /\ armed = {} /\ asked = [t \in Timers |-> 0] /\ age = [t \in Timers |-> 0]
    /\ walk = NULL /\ called = NULL /\ inTick = FALSE
    /\ installed = FALSE /\ timerMax \in Periods /\ timerCount = 0 /\ owed = 0

-----------------------------------------------------------------------------
(* Calls; start and stop may come from a timer's function too *)

InTask == ~inTick
InCode == inTick => called # NULL

newTimer(t) ==
    /\ InTask /\ t \notin allocated
    /\ next' = [next EXCEPT ![t] = timerList] /\ timerList' = t
    /\ allocated' = allocated \cup {t}
    /\ status' = [status EXCEPT ![t] = "DONE"] /\ count' = [count EXCEPT ![t] = 0]
    /\ UNCHANGED <<deleting, starts, tick, clock>>

\* A function may start a timer the walk has yet to reach: this tick counts for it
startTimer(t, delay) ==
    /\ InCode /\ t \in allocated \ deleting
    /\ status' = [status EXCEPT ![t] = "ACTIVE"] /\ count' = [count EXCEPT ![t] = delay]
    /\ armed' = armed \cup {t} /\ asked' = [asked EXCEPT ![t] = delay]
    /\ age' = [age EXCEPT ![t] = IF inTick /\ t \in From(next[called]) THEN 1 ELSE 0]
    /\ UNCHANGED <<list, tick, clock>>

Stopped(t) ==
    /\ status' = [status EXCEPT ![t] = "DONE"] /\ armed' = armed \ {t}
    /\ UNCHANGED <<count, asked, age>>

stopTimer(t) ==
    /\ InCode /\ t \in allocated \ deleting
    /\ Stopped(t)
    /\ UNCHANGED <<list, tick, clock>>

\* deleteTimer(): stopped, then, with interrupts enabled in between, unlinked
deleteTimer(t) ==
    /\ InTask /\ t \in allocated \ deleting
    /\ Stopped(t)
    /\ deleting' = deleting \cup {t}
    /\ UNCHANGED <<timerList, next, allocated, tick, clock>>

\* Faulty: takes the head of the list for the timer's predecessor
UnlinkedHead(t) == timerList' = next[t] /\ next' = next

Unlinked(t) ==
    IF timerList = t
    THEN timerList' = next[t] /\ next' = next
    ELSE \E p \in From(timerList) :
            next[p] = t /\ next' = [next EXCEPT ![p] = next[t]] /\ timerList' = timerList

Unlink(t) ==
    /\ InTask /\ t \in deleting
    /\ Unlinked(t)
    /\ deleting' = deleting \ {t} /\ allocated' = allocated \ {t}
    /\ UNCHANGED <<states, tick, clock>>

installTimer(period) ==
    /\ InTask
    /\ installed' = TRUE /\ timerMax' = period
    /\ IF installed THEN UNCHANGED <<timerCount, owed>> ELSE timerCount' = 0 /\ owed' = 0
    /\ UNCHANGED <<list, states, tick>>

removeTimer ==
    /\ InTask /\ installed
    /\ installed' = FALSE
    /\ UNCHANGED <<list, states, tick, timerMax, timerCount, owed>>

-----------------------------------------------------------------------------
(* clockTick() *)

Sum == (timerCount + timerMax + 1) % Wrap

\* Faulty: misses the wrap of a sum that comes out the same
ChainsLess == Sum < timerCount

Chains == Sum <= timerCount

clockTick ==
    /\ ~inTick /\ installed
    /\ owed' = owed + timerMax + 1 - (IF Chains THEN Wrap ELSE 0)
    /\ timerCount' = Sum
    /\ inTick' = TRUE /\ walk' = timerList
    /\ age' = [t \in Timers |-> IF t \in armed THEN age[t] + 1 ELSE age[t]]
    /\ UNCHANGED <<list, status, count, armed, asked, called, installed, timerMax>>

At(t) == inTick /\ called = NULL /\ walk = t /\ t # NULL

Skip(t) ==
    /\ At(t) /\ status[t] = "DONE"
    /\ walk' = next[t]
    /\ UNCHANGED <<list, states, called, inTick, clock>>

CountDown(t) ==
    /\ At(t) /\ status[t] = "ACTIVE" /\ count[t] - 1 > 0
    /\ count' = [count EXCEPT ![t] = @ - 1]
    /\ walk' = next[t]
    /\ UNCHANGED <<list, status, starts, called, inTick, clock>>

\* The status is cleared, then the function is called
Fire(t) ==
    /\ At(t) /\ status[t] = "ACTIVE" /\ count[t] - 1 <= 0
    /\ count' = [count EXCEPT ![t] = @ - 1]
    /\ status' = [status EXCEPT ![t] = "DONE"]
    /\ called' = t /\ armed' = armed \ {t}
    /\ UNCHANGED <<list, asked, age, walk, inTick, clock>>

\* Faulty: clears the status when the function has returned
FunctionDoneLate(t) ==
    /\ called = t /\ t # NULL
    /\ status' = [status EXCEPT ![t] = "DONE"]
    /\ called' = NULL /\ walk' = next[t]
    /\ UNCHANGED <<list, count, starts, inTick, clock>>

FunctionDone(t) ==
    /\ called = t /\ t # NULL
    /\ called' = NULL /\ walk' = next[t]
    /\ UNCHANGED <<list, states, inTick, clock>>

TickDone ==
    /\ inTick /\ called = NULL /\ walk = NULL
    /\ inTick' = FALSE
    /\ UNCHANGED <<list, states, walk, called, clock>>

-----------------------------------------------------------------------------
Next ==
    \/ clockTick \/ TickDone \/ removeTimer
    \/ \E p \in Periods : installTimer(p)
    \/ \E t \in Timers : \/ newTimer(t) \/ stopTimer(t) \/ deleteTimer(t) \/ Unlink(t)
                         \/ Skip(t) \/ CountDown(t) \/ Fire(t) \/ FunctionDone(t)
                         \/ \E d \in Delays : startTimer(t, d)

Spec == Init /\ [][Next]_vars

-----------------------------------------------------------------------------
TypeOK ==
    /\ timerList \in Ptr /\ next \in [Timers -> Ptr]
    /\ allocated \subseteq Timers /\ deleting \subseteq allocated
    /\ status \in [Timers -> {"DONE", "ACTIVE"}]
    /\ count \in [Timers -> Int] /\ armed \subseteq Timers
    /\ asked \in [Timers -> Nat] /\ age \in [Timers -> Nat]
    /\ walk \in Ptr /\ called \in Ptr /\ inTick \in BOOLEAN
    /\ installed \in BOOLEAN /\ timerMax \in 0..(Wrap - 1) /\ timerCount \in 0..(Wrap - 1)
    /\ owed \in Int

\* The list holds the timers that exist, each once, and the tick stands on one
\* of them, whatever is made and deleted between ticks.
TimerListSound ==
    /\ From(timerList) = allocated
    /\ \A t, u \in allocated : next[t] = next[u] /\ next[t] # NULL => t = u
    /\ walk # NULL => walk \in allocated

\* A timer's function is called on its tick, neither sooner nor later: after as
\* many ticks as asked (at least one), also if its own function or another's
\* started it, and in the middle of a tick too.
Due(t) == IF asked[t] > 1 THEN asked[t] ELSE 1
FiresOnTick ==
    [][/\ \A t \in Timers : called = NULL /\ called' = t => t \in armed /\ age[t] = Due(t)
       /\ inTick /\ ~inTick' => \A t \in armed : age[t] < Due(t)]_vars

\* The BIOS, which counts one tick for every 65536 of the 8253, is told of each
\* of them on the tick it falls in, whatever periods are set on the way.
BiosShare == owed = timerCount
=============================================================================
