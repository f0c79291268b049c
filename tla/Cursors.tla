------------------------------ MODULE Cursors ------------------------------
(***************************************************************************)
(* The two measuring cursors of a plot (DropWidgets/Plots/PlotWidget.cpp): *)
(* who makes them active, who moves them, and the synchronisation that     *)
(* keeps their distance.  Positions are integers; what is drawn and        *)
(* measured at them is left out.                                           *)
(***************************************************************************)
EXTENDS Integers

CONSTANTS
    Ranges,     \* x ranges the user zooms to, the first one included
    Spacings,   \* distances the user enters (as a frequency or a time)
    Extent,     \* bound: positions of cursors
    None

Modes == {"Navigate", "BoxZoom", "DoubleCursor"}

CursorsAssumption ==
    /\ \A r \in Ranges : r \in [lower : Int, upper : Int] /\ r.lower < r.upper
    /\ Spacings \subseteq Nat \ {0} /\ \A s \in Spacings : s % 2 = 0
    /\ Extent \subseteq Int

VARIABLES
    at,         \* CursorA.x and CursorB.x
    active,     \* cursors that are active
    range,      \* of the x axis
    visible,    \* CursorsVisible
    synced,     \* CursorSynced
    mode,       \* CurrentToolMode
    dragged,    \* DraggedCursor, or None
    fft         \* __isFFT

cursorVars == <<at, active, range, visible, synced, mode, dragged, fft>>

Cursors == {"A", "B"}
Other(c) == IF c = "A" THEN "B" ELSE "A"
Abs(n) == IF n < 0 THEN -n ELSE n
Least(m, n) == IF m < n THEN m ELSE n
Both(a, b) == [c \in Cursors |-> IF c = "A" THEN a ELSE b]
Third(k, r) == r.lower + (k * (r.upper - r.lower)) \div 3

-----------------------------------------------------------------------------
(* Which cursors are active.                                               *)

\* What setCursorsVisible and setToolMode make of cursors [at, active] when they
\* are to be seen in mode m: both, when A is not active (initializeCursor-
\* Positions); B too, when both are to be moved.
MadeActive(cursors, m, r) ==
    IF "A" \notin cursors.active
    THEN [at |-> Both(Third(1, r), Third(2, r)), active |-> Cursors]
    ELSE IF m = "DoubleCursor" /\ "B" \notin cursors.active
    THEN [at |-> [cursors.at EXCEPT !["B"] = Third(2, r)], active |-> Cursors]
    ELSE cursors

Place(cursors) == at' = cursors.at /\ active' = cursors.active
Here == [at |-> at, active |-> active]

SetToolMode(m) ==
    /\ mode' = m /\ dragged' = None
    /\ Place(IF visible /\ m = "DoubleCursor" /\ "B" \notin active THEN MadeActive(Here, m, range) ELSE Here)
    /\ UNCHANGED <<range, visible, synced, fft>>

ToggleCursors(v) ==
    /\ visible' = v
    /\ Place(IF v THEN MadeActive(Here, mode, range) ELSE Here)
    /\ UNCHANGED <<range, synced, mode, dragged, fft>>

ClearScopeCursors ==
    /\ visible' = FALSE /\ dragged' = None
    /\ UNCHANGED <<at, active, range, synced, mode, fft>>

-----------------------------------------------------------------------------
(* Where they are.                                                         *)

\* A mutant: the cursors are not shifted back on the axis.
MutMoved(a, c, to, together) ==
    LET b == [a EXCEPT ![c] = to, ![Other(c)] = @ + to - a[c]]
    IN  [at |-> IF together /\ active = Cursors THEN b ELSE [a EXCEPT ![c] = to], range |-> range]

\* setCursorPosition: cursor c goes to position to; if they are synchronised,
\* so does the other, and both are shifted on the axis; or the axis is widened
\* to 1.1 times their distance.
Moved(a, c, to, together) ==
    IF ~together \/ active # Cursors THEN [at |-> [a EXCEPT ![c] = to], range |-> range]
    ELSE LET spacing == a["B"] - a["A"]
             b == [a EXCEPT ![c] = to, ![Other(c)] = @ + to - a[c]]
             low == Least(b["A"], b["B"])
             high == low + Abs(spacing)
             center == (low + high) \div 2
             reach == (11 * Abs(spacing)) \div 20 + 1
             up == IF low < range.lower THEN range.lower - low ELSE 0
             down == IF high > range.upper THEN high - range.upper ELSE 0
         IN  IF Abs(spacing) >= range.upper - range.lower
             THEN [at |-> b, range |-> [lower |-> center - reach, upper |-> center + reach]]
             ELSE [at |-> [k \in Cursors |-> b[k] + up - down], range |-> range]

Move(a, c, to, together) == /\ at' = Moved(a, c, to, together).at
                            /\ range' = Moved(a, c, to, together).range
                            /\ \A k \in Cursors : at'[k] \in Extent  \* bound

\* In the mode for two cursors a press takes the nearer one (placeOrMoveCursor),
\* and the mouse may drag it beside the axis.
Press(to) ==
    /\ mode = "DoubleCursor" /\ visible /\ ~fft /\ range.lower <= to /\ to <= range.upper
    /\ LET c == IF Abs(to - at["A"]) <= Abs(to - at["B"]) THEN "A" ELSE "B"
       IN  Move(at, c, to, synced) /\ dragged' = c
    /\ UNCHANGED <<active, visible, synced, mode, fft>>

Drag(to) ==
    /\ dragged # None
    /\ Move(at, dragged, to, synced)
    /\ UNCHANGED <<active, visible, synced, mode, dragged, fft>>

Release == /\ dragged # None /\ dragged' = None
           /\ UNCHANGED <<at, active, range, visible, synced, mode, fft>>

\* setCursorSpacingFromFrequency: the cursors are synchronised at distance s
\* about their middle, and then moved as if A went to where it is.
Space(s) ==
    /\ active = Cursors /\ at["A"] # at["B"]
    /\ LET center == (at["A"] + at["B"]) \div 2
           half == IF at["B"] >= at["A"] THEN s \div 2 ELSE -(s \div 2)
       IN  Move(Both(center - half, center + half), "A", center - half, TRUE)
    /\ synced' = TRUE
    /\ UNCHANGED <<active, visible, mode, dragged, fft>>

\* The tool button asks for the distance; the cell of the measured frequency
\* (measurementCellDoubleClicked) for another.
EnableSync(s) == ~synced /\ Space(s)
EnterFrequency(s) == visible /\ ~fft /\ Space(s)

DisableSync == /\ synced /\ synced' = FALSE
               /\ UNCHANGED <<at, active, range, visible, mode, dragged, fft>>

-----------------------------------------------------------------------------
(* The rest of the plot, as far as the cursors depend on it.               *)

Zoom(r) == /\ range' = r
           /\ UNCHANGED <<at, active, visible, synced, mode, dragged, fft>>

ToggleTimeFreq(r) ==
    /\ fft' = ~fft /\ range' = r
    /\ UNCHANGED <<at, active, visible, synced, mode, dragged>>

\* SaveToXML, and LoadFromXML into a new plot, whatever happened in between.
\* The loaded A is active or has no B.
Loaded == [at |-> at, active |-> IF "A" \in active THEN active ELSE {}]
Reload == /\ Place(IF visible THEN MadeActive(Loaded, mode, range) ELSE Loaded)
          /\ synced' = FALSE /\ dragged' = None
          /\ UNCHANGED <<range, visible, mode, fft>>

Init == /\ at = Both(0, 0) /\ active = {} /\ range \in Ranges
        /\ visible = FALSE /\ synced = FALSE /\ mode = "Navigate"
        /\ dragged = None /\ fft = FALSE

Next == \/ \E m \in Modes : SetToolMode(m)
        \/ \E v \in BOOLEAN : ToggleCursors(v)
        \/ ClearScopeCursors
        \/ \E to \in Extent : Press(to) \/ Drag(to)
        \/ Release
        \/ \E s \in Spacings : EnableSync(s) \/ EnterFrequency(s)
        \/ DisableSync
        \/ \E r \in Ranges : Zoom(r) \/ ToggleTimeFreq(r)
        \/ Reload

Spec == Init /\ [][Next]_cursorVars

-----------------------------------------------------------------------------
(* Properties.                                                             *)

\* Cursors that are to be seen are active: a press takes the nearer one without
\* asking whether it is.
There == /\ visible => "A" \in active
         /\ visible /\ mode = "DoubleCursor" => active = Cursors
         /\ synced => active = Cursors

OnAxis(p, r) == \A c \in Cursors : p[c] \in r.lower..r.upper

\* "Keep the cursor distance synchronized" (PlotWidget.cpp:538): synchronised
\* cursors keep their distance and their order until another is entered, and a
\* move leaves both on the axis.  A saved plot brings back its cursors.
CursorsKeep ==
    /\ []There
    /\ [][/\ (synced /\ synced' /\ ~\E s \in Spacings : EnterFrequency(s))
               => at'["B"] - at'["A"] = at["B"] - at["A"]
          /\ (synced' /\ at' # at) => OnAxis(at', range')
          /\ Reload => (at' = at /\ active' = active)]_cursorVars
=============================================================================
