--------------------------- MODULE ParameterValue ---------------------------
(***************************************************************************)
(* The value of one parameter, a number whose bits are switches: in its    *)
(* container, in the widgets bound to it (check boxes for one bit each,    *)
(* fields such as line edits for the number) and in the device that owns   *)
(* it (DataManagementSetClass, DataMessengerClass, the widgets'            *)
(* SetVariantData and GetVariantData).                                     *)
(*                                                                         *)
(* The device lives in a thread of its own; messages are queued both ways. *)
(* A device in the GUI thread behaves like one that is never delayed.  A   *)
(* device may answer a set with the value it has then.                     *)
(***************************************************************************)
EXTENDS Naturals, Sequences, FiniteSets

CONSTANTS
    Bits,       \* a value is the set of its bits that are 1
    Boxes,      \* QCheckBoxD
    BitOf,      \* check box |-> bit
    Fields,     \* QLineEditD, ...
    Ask,        \* the message "get"
    MaxQueue    \* bound: messages under way, in each direction

Widgets == Boxes \cup Fields
Values == SUBSET Bits

ASSUME ValueAssumption ==
    /\ BitOf \in [Boxes -> Bits]
    /\ Boxes \cap Fields = {}
    /\ \A v \in Values : v # Ask
    /\ MaxQueue \in Nat \ {0}

VARIABLES
    container,  \* the value in the mapper
    shown,      \* widget |-> the value it shows; a box shows its bit only
    bound,      \* widgets among the mapper's Objects
    conns,      \* widget |-> connections of its signal with SendNewValue
    toDevice,   \* queued messages: values to be set, and Ask
    fromDevice, \* queued values
    device,     \* the value in the device
    answers,    \* the device answers a set
    \* history
    wish,       \* each bit as the user or the device last wanted it
    raced,      \* the user changed the value while one of the device was
                \* expected, or the device while one of the user was under way,
                \* or the device was not told of a change
    untold,     \* the container was set without telling the device
    awaiting    \* widgets bound since the container was last set

valueVars == <<container, shown, bound, conns, toDevice, fromDevice, device,
               answers, wish, raced, untold, awaiting>>

\* A number as widget w shows it, and what w makes of the number in v.
Seen(w, v) == IF w \in Boxes THEN v \cap {BitOf[w]} ELSE v
GetVariantData(w, v, s) == IF w \in Boxes THEN (v \ {BitOf[w]}) \cup s ELSE s

Init == /\ container = {} /\ device = {} /\ wish = {}
        /\ shown = [w \in Widgets |-> {}]
        /\ bound = {} /\ awaiting = {}
        /\ conns = [w \in Widgets |-> 0]
        /\ toDevice = <<>> /\ fromDevice = <<>>
        /\ answers \in BOOLEAN
        /\ raced = FALSE /\ untold = FALSE

-----------------------------------------------------------------------------
\* SetData and NewDataReceived: every bound widget shows the value.  A box
\* drops its connections and makes one, so that it sends nothing.
Receive(v) ==
    /\ container' = v
    /\ shown' = [w \in Widgets |-> IF w \in bound THEN Seen(w, v) ELSE shown[w]]
    /\ conns' = [w \in Widgets |-> IF w \in bound \cap Boxes THEN 1 ELSE conns[w]]
    /\ awaiting' = {}

\* The other bits are lost.
MutSendNewValue(w, s) ==
    LET v == s
        times == IF w \in Boxes THEN 1 ELSE conns[w]
    IN  /\ Len(toDevice) + times <= MaxQueue
        /\ toDevice' = toDevice \o [i \in 1..times |-> v]
        /\ Receive(v)
        /\ untold' = FALSE

\* SendNewValue, once for each connection; a box has lost its others after the
\* first.  The transmitter updates all widgets and then tells the device.
SendNewValue(w, s) ==
    LET v == GetVariantData(w, container, s)
        times == IF w \in Boxes THEN 1 ELSE conns[w]
    IN  /\ Len(toDevice) + times <= MaxQueue  \* bound
        /\ toDevice' = toDevice \o [i \in 1..times |-> v]
        /\ Receive(v)
        /\ untold' = FALSE

\* A value of the device is under way, or will be.
Expected == \/ fromDevice # <<>>
            \/ \E i \in DOMAIN toDevice : answers \/ toDevice[i] = Ask

\* The user clicks a box, or enters a value in a field.
Enter(w, s) ==
    /\ w \in bound /\ conns[w] > 0
    /\ IF w \in Boxes THEN s = {BitOf[w]} \ shown[w] ELSE s # shown[w]
    /\ SendNewValue(w, s)
    /\ wish' = IF w \in Boxes THEN (wish \ {BitOf[w]}) \cup s ELSE s
    /\ raced' = (raced \/ Expected)
    /\ UNCHANGED <<bound, fromDevice, device, answers>>

\* dropEvent: a box looks at the container and adds a connection; a field has
\* the old ones removed, and asks the device for the value.
Bind(w) ==
    /\ bound' = bound \cup {w}
    /\ IF w \in Boxes
       THEN /\ shown' = [shown EXCEPT ![w] = Seen(w, container)]
            /\ conns[w] < 2  \* bound
            /\ conns' = [conns EXCEPT ![w] = @ + 1]
            /\ UNCHANGED <<toDevice, awaiting>>
       ELSE /\ conns' = [conns EXCEPT ![w] = 1]
            /\ Len(toDevice) < MaxQueue  \* bound
            /\ toDevice' = Append(toDevice, Ask)
            /\ awaiting' = awaiting \cup {w}
            /\ UNCHANGED shown
    /\ UNCHANGED <<container, fromDevice, device, answers, wish, raced, untold>>

\* CreateConnection of an experiment, and ConnectToID: one connection more.
ConnectToID(w) ==
    /\ bound' = bound \cup {w}
    /\ conns[w] < 2  \* bound
    /\ conns' = [conns EXCEPT ![w] = @ + 1]
    /\ Len(toDevice) < MaxQueue  \* bound
    /\ toDevice' = Append(toDevice, Ask)
    /\ awaiting' = awaiting \cup {w}
    /\ UNCHANGED <<container, shown, fromDevice, device, answers, wish, raced, untold>>

\* The widget is reset before it is unbound, and a field sends its reset.
MutRemoveConnection(w) ==
    /\ w \in bound
    /\ LET new == GetVariantData(w, container, {})
       IN  IF w \in Fields /\ conns[w] > 0 /\ shown[w] # {}
           THEN /\ Len(toDevice) < MaxQueue
                /\ toDevice' = Append(toDevice, new)
                /\ container' = new
                /\ shown' = [v \in Widgets |-> IF v \in bound THEN Seen(v, new) ELSE shown[v]]
           ELSE shown' = [shown EXCEPT ![w] = {}] /\ UNCHANGED <<toDevice, container>>
    /\ bound' = bound \ {w}
    /\ awaiting' = awaiting \ {w}
    /\ UNCHANGED <<conns, fromDevice, device, answers, wish, raced, untold>>

\* RemoveConnection: unbound first and reset then; the reset emits the signal
\* of a field, and SendNewValue finds no id for it.
RemoveConnection(w) ==
    /\ w \in bound
    /\ bound' = bound \ {w}
    /\ shown' = [shown EXCEPT ![w] = {}]
    /\ awaiting' = awaiting \ {w}
    /\ UNCHANGED <<container, conns, toDevice, fromDevice, device, answers, wish, raced, untold>>

\* EditParameterValue in the explorer: the messenger receives the value and
\* does not transmit it.
EditParameterValue(v) ==
    /\ v # container
    /\ Receive(v)
    /\ untold' = TRUE
    /\ raced' = TRUE
    /\ UNCHANGED <<bound, toDevice, fromDevice, device, answers, wish>>

\* The next message from the device; it is not sent back.
Deliver ==
    /\ fromDevice # <<>>
    /\ Receive(Head(fromDevice))
    /\ fromDevice' = Tail(fromDevice)
    /\ untold' = FALSE
    /\ LET settled == raced /\ fromDevice' = <<>> /\ toDevice = <<>> /\ device = container'
       IN  /\ raced' = (raced /\ ~settled)
           /\ wish' = IF settled THEN device ELSE wish
    /\ UNCHANGED <<bound, toDevice, device, answers>>

\* The device handles a message.
DeviceReceives ==
    /\ toDevice # <<>>
    /\ Len(fromDevice) < MaxQueue  \* bound
    /\ toDevice' = Tail(toDevice)
    /\ IF Head(toDevice) = Ask
       THEN fromDevice' = Append(fromDevice, device) /\ UNCHANGED device
       ELSE /\ device' = Head(toDevice)
            /\ fromDevice' = IF answers THEN Append(fromDevice, device') ELSE fromDevice
    /\ UNCHANGED <<container, shown, bound, conns, answers, wish, raced, untold, awaiting>>

\* The device changes one bit of its own accord, and reports the value.
DeviceChanges(b) ==
    /\ Len(fromDevice) < MaxQueue  \* bound
    /\ LET on == {b} \ device
       IN  device' = (device \ {b}) \cup on /\ wish' = (wish \ {b}) \cup on
    /\ fromDevice' = Append(fromDevice, device')
    /\ raced' = (raced \/ toDevice # <<>>)
    /\ UNCHANGED <<container, shown, bound, conns, toDevice, answers, untold, awaiting>>

Next == \/ \E w \in Widgets, s \in Values : Enter(w, s)
        \/ \E w \in Widgets : Bind(w) \/ ConnectToID(w) \/ RemoveConnection(w)
        \/ \E v \in Values : EditParameterValue(v)
        \/ \E b \in Bits : DeviceChanges(b)
        \/ Deliver \/ DeviceReceives

Spec == Init /\ [][Next]_valueVars

-----------------------------------------------------------------------------
(* Properties.                                                             *)

Quiet == toDevice = <<>> /\ fromDevice = <<>>

\* Every bound widget shows the container's value, once it was set after the
\* widget was bound; a box does so at once when it is dropped on.
ShownIsContainer ==
    \A w \in bound \ awaiting : shown[w] = Seen(w, container)

\* When nothing is under way, the container has the device's value: always if
\* the device answers each set, and else unless the user changed the value
\* while one of the device was expected or the device did the like; but the
\* explorer's edit tells nobody.
ContainerIsDevice ==
    Quiet => container = device \/ untold \/ (raced /\ ~answers)

\* Nobody's change of a bit is undone by a change of another bit: all bits of
\* the device are as they were last wanted, unless one side changed the value
\* while one of the other was expected.
NoLostBit == Quiet /\ ~raced => device = wish
=============================================================================
