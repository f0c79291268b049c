--------------------------- MODULE NumberWidgets ---------------------------
(***************************************************************************)
(* One integer parameter with its limits, and the widgets that show it     *)
(* within limits: sliders, spin boxes, and displays (progress bars, LCDs). *)
(* The limits belong to the container; the user changes them in the        *)
(* explorer, a slider asks for them when it is dropped and there are none, *)
(* and a load sets them.  A change of the limits tells no widget: the      *)
(* device is asked for the value (RequestUpdate, UpdateRequest), and its   *)
(* answer makes them look.  The device may set any number at any time;     *)
(* ParameterValue is about what is under way between it and the container. *)
(***************************************************************************)
EXTENDS Integers

CONSTANTS
    Sliders,    \* QSliderD
    Spins,      \* QSpinBoxD, QDoubleSpinBoxD
    Displays,   \* QProgressBarD, QLCDNumberD
    FormRange,  \* spin or display |-> the range its form gives it
    Numbers,    \* the values the device takes
    Limits,     \* the limits the user gives; lo > hi is accepted
    Steps,      \* a slider has the positions 0..Steps; 100 in the code
    Nobody      \* no slider

Editors == Sliders \cup Spins
Widgets == Editors \cup Displays
Unset == [lo |-> 0, hi |-> 0]

NumberAssumption ==
    /\ Sliders \cap Spins = {} /\ Editors \cap Displays = {}
    /\ Nobody \notin Widgets
    /\ Numbers \subseteq Nat /\ Numbers # {}
    /\ Limits \subseteq [lo : Nat, hi : Nat] /\ Unset \in Limits
    /\ FormRange \in [Spins \cup Displays -> {r \in [lo : Nat, hi : Nat] : r.lo <= r.hi}]
    /\ Steps \in Nat \ {0}

VARIABLES
    number,     \* the value in the container
    limits,     \* ToFormMapper::MinValue, MaxValue
    bound,      \* widgets among the container's Objects
    connected,  \* widgets whose valueChanged is connected with SendNewValue
    shown,      \* widget |-> QSlider::value, QSpinBox::value, ...
    range,      \* spin or display |-> its range
    asking,     \* the slider that was dropped and asks for the limits
    \* history
    stale       \* widgets bound, or whose limits changed, since the number
                \* was last set

numberVars == <<number, limits, bound, connected, shown, range, asking, stale>>

\* QSpinBox::setValue, which QSpinBoxD::SetVariantData calls.
Clamp(v, r) == IF v < r.lo THEN r.lo ELSE IF v > r.hi THEN r.hi ELSE v

-----------------------------------------------------------------------------
(* Numbers and positions.                                                  *)

\* The lower limit is not subtracted.
MutPosition(n, l) ==
    LET scale == IF l.hi < l.lo THEN l.lo - l.hi ELSE l.hi - l.lo
        up == IF l.hi < l.lo THEN l.lo - n ELSE n
    IN  Clamp((2 * up * Steps + scale) \div (2 * scale), [lo |-> 0, hi |-> Steps])

\* QSliderD::SetVariantData: the nearest position of a number between the
\* limits; QSlider keeps it between its ends.
Position(n, l) ==
    LET scale == IF l.hi < l.lo THEN l.lo - l.hi ELSE l.hi - l.lo
        up == IF l.hi < l.lo THEN l.lo - n ELSE n - l.lo
    IN  Clamp((2 * up * Steps + scale) \div (2 * scale), [lo |-> 0, hi |-> Steps])

\* QSliderD::GetVariantData: the number at a position, cut off to an integer;
\* where it is one, the floating-point product may be less.
AtPosition(p, l) ==
    LET scaled == p * (l.hi - l.lo) + l.lo * Steps
        exact == scaled % Steps = 0
    IN  {scaled \div Steps} \cup
        (IF exact /\ p \in 1..Steps - 1 /\ l.hi # l.lo THEN {scaled \div Steps - 1} ELSE {})

\* What the user can enter.
Choices(w) == IF w \in Sliders THEN 0..Steps ELSE range[w].lo..range[w].hi

\* QProgressBarD::SetVariantData: QProgressBar keeps to numbers in its range.
Displayed(w, n) == IF n \in range[w].lo..range[w].hi THEN n ELSE shown[w]

\* What an editor makes of the value it shows.
Entered(w, v) == IF w \in Sliders THEN AtPosition(v, limits) ELSE {v}

\* Limits are equal as long as nobody has given them: a slider stays where it
\* is.  A spin box takes the nearest of its values, and a display what is in
\* its range.
SetVariantData(w, n) ==
    CASE w \in Sliders -> IF limits.lo = limits.hi THEN shown[w] ELSE Position(n, limits)
      [] w \in Spins -> Clamp(n, range[w])
      [] w \in Displays -> Displayed(w, n)

-----------------------------------------------------------------------------
Fresh(w) == IF w \in Sliders THEN 0 ELSE Clamp(0, FormRange[w])

Init == /\ number \in Numbers
        /\ limits = Unset
        /\ bound = {} /\ connected = {} /\ stale = {}
        /\ shown = [w \in Widgets |-> Fresh(w)]
        /\ range = FormRange
        /\ asking = Nobody

\* The dialogs of a slider's drop are modal.
UserInput == asking = Nobody

\* The editor that the value comes from is left as it is.
MutReceive(n) ==
    /\ number' = n
    /\ shown' = [w \in Widgets |-> IF w \in bound /\ (w \in Editors => n # number)
                                  THEN SetVariantData(w, n) ELSE shown[w]]
    /\ stale' = {}

\* The container gets a value, and all its widgets look at it; their signals
\* are blocked.
Receive(n) ==
    /\ number' = n
    /\ shown' = [w \in Widgets |-> IF w \in bound THEN SetVariantData(w, n) ELSE shown[w]]
    /\ stale' = {}

\* The user moves a slider or changes a spin box: SendNewValue, which does
\* nothing for a widget that is not bound.
Enter(w, v) ==
    /\ UserInput
    /\ v \in Choices(w) \ {shown[w]}
    /\ IF w \in bound \cap connected
       THEN \E n \in Entered(w, v) : Receive(n)
       ELSE shown' = [shown EXCEPT ![w] = v] /\ UNCHANGED <<number, stale>>
    /\ UNCHANGED <<limits, bound, connected, range, asking>>

-----------------------------------------------------------------------------
(* Binding.                                                                *)

\* Register and the connection of the signal.
Register(w) ==
    /\ bound' = bound \cup {w}
    /\ stale' = stale \cup {w}
    /\ connected' = IF w \in Editors THEN connected \cup {w} ELSE connected

\* QSpinBoxD::dropEvent: the range becomes the limits, the maximum after the
\* minimum, while no signal is connected.
DropSpin(w) ==
    LET raised == [lo |-> limits.lo,
                   hi |-> IF range[w].hi < limits.lo THEN limits.lo ELSE range[w].hi]
        final == [lo |-> IF limits.lo < limits.hi THEN limits.lo ELSE limits.hi,
                  hi |-> limits.hi]
    IN  /\ UserInput
        /\ range' = [range EXCEPT ![w] = final]
        /\ shown' = [shown EXCEPT ![w] = Clamp(Clamp(@, raised), final)]
        /\ Register(w)
        /\ UNCHANGED <<number, limits, asking>>

DropDisplay(w) ==
    /\ UserInput
    /\ Register(w)
    /\ UNCHANGED <<number, limits, shown, range, asking>>

\* QSliderD::dropEvent: unbound and disconnected, the slider asks for limits
\* if there are none, in two dialogs with an event loop.
DropSlider(w) ==
    /\ UserInput
    /\ IF limits.lo = limits.hi
       THEN /\ asking' = w
            /\ bound' = bound \ {w} /\ connected' = connected \ {w} /\ stale' = stale \ {w}
       ELSE Register(w) /\ UNCHANGED asking
    /\ UNCHANGED <<number, limits, shown, range>>

\* The dialogs are answered; one that is cancelled gives a zero.
Answer(l) ==
    /\ asking # Nobody
    /\ limits' = l
    /\ asking' = Nobody
    /\ bound' = bound \cup {asking} /\ connected' = connected \cup {asking}
    /\ stale' = stale \cup (bound \cap Sliders) \cup {asking}
    /\ UNCHANGED <<number, shown, range>>

\* RemoveConnection: unbound first, and reset then; the signal stays connected,
\* and finds no id.  A display is not reset.
RemoveConnection(w) ==
    /\ UserInput
    /\ w \in bound
    /\ bound' = bound \ {w}
    /\ stale' = stale \ {w}
    /\ shown' = [shown EXCEPT ![w] = CASE w \in Sliders -> 0
                                       [] w \in Spins -> Clamp(0, range[w])
                                       [] OTHER -> @]
    /\ UNCHANGED <<number, limits, connected, range, asking>>

\* ChangeMinMaxValue in the explorer: the limits, and UpdateRequest.
ChangeMinMaxValue(l) ==
    /\ UserInput
    /\ limits' = l
    /\ stale' = stale \cup (bound \cap Sliders)
    /\ UNCHANGED <<number, bound, connected, shown, range, asking>>

-----------------------------------------------------------------------------
(* Experiments.                                                            *)

\* CreateConnection for the widgets in an experiment, after its forms were
\* loaded and the device published its value: a display's ConnectToID does
\* nothing, and a spin box keeps the form's range.
LoadExperiment(l, W) ==
    /\ UserInput
    /\ limits' = l
    /\ bound' = W /\ stale' = W
    /\ connected' = W \cap Editors
    /\ shown' = [w \in Widgets |-> Fresh(w)]
    /\ range' = FormRange
    /\ number' \in Numbers
    /\ UNCHANGED asking

\* The device sets the number or answers, in the dialogs' event loop, too.
DeviceSets(n) ==
    /\ Receive(n)
    /\ UNCHANGED <<limits, bound, connected, range, asking>>

Next == \/ \E w \in Editors : \E v \in Choices(w) : Enter(w, v)
        \/ \E w \in Spins : DropSpin(w)
        \/ \E w \in Displays : DropDisplay(w)
        \/ \E w \in Sliders : DropSlider(w)
        \/ \E w \in Widgets : RemoveConnection(w)
        \/ \E l \in Limits : Answer(l) \/ ChangeMinMaxValue(l)
        \/ \E l \in Limits, W \in SUBSET Widgets : LoadExperiment(l, W)
        \/ \E n \in Numbers : DeviceSets(n)

Spec == Init /\ [][Next]_numberVars

-----------------------------------------------------------------------------
(* Properties.                                                             *)

TypeOK ==
    /\ number \in Nat /\ limits \in Limits
    /\ asking \in Sliders \cup {Nobody} /\ asking \notin bound
    /\ bound \cap Editors \subseteq connected /\ connected \subseteq Editors
    /\ stale \subseteq bound
    /\ \A w \in Widgets : shown[w] \in (IF w \in Sliders THEN 0..Steps
                                       ELSE range[w].lo..range[w].hi)

\* A bound widget shows what it makes of the container's number, under the
\* container's limits and its own range, once the number was set after it was
\* bound and the limits were changed (SetVariantData, GetVariantData).
ShowsNumber == \A w \in bound \ stale : shown[w] = SetVariantData(w, number)

\* A step in which the user moves a widget takes the number the same way.
FollowsHand ==
    \A w \in (bound \cap Editors) \ stale : \A v \in Choices(w) :
        Enter(w, v) /\ (w \in Sliders => limits.lo # limits.hi)
            => IF (v > shown[w]) = (w \in Sliders => limits.lo < limits.hi)
               THEN number' >= number
               ELSE number' < number

\* The number goes the way the user goes: up it never falls, and down it
\* falls, for every rounding of positions and every number outside of the
\* limits; only before a widget has seen the number and the limits it may
\* jump, and while the limits are equal (QSliderD::GetVariantData).
EditsFollowHand == [][FollowsHand]_numberVars
=============================================================================
