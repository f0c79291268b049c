---------------------------- MODULE ComboBoxes ----------------------------
(***************************************************************************)
(* Combo boxes (DropWidgets/QComboBox.cpp) and the selections they show: a *)
(* selection is the texts that are offered and the one that is selected.   *)
(*                                                                         *)
(* The signal of a combo box says that the index has changed, whoever      *)
(* changed it: taking the items away changes it, too.  What is connected   *)
(* and bound at that moment decides whether that becomes the selection.    *)
(* The device may set its selection at any time.                           *)
(***************************************************************************)
EXTENDS Sequences, SequencesExt

CONSTANTS
    Combos,     \* QComboBoxD
    Ids,        \* the selections of the devices
    Editable,   \* those that are parameters; the others are states
    Texts,
    Offers,     \* the sequences of texts that devices offer
    FormItems,  \* combo box |-> the items its form gives it
    Nothing,    \* the text of no item
    None        \* no binding

ComboAssumption == /\ Editable \subseteq Ids /\ None \notin Ids /\ Nothing \notin Texts
                   /\ Offers \subseteq Seq(Texts) \ {<<>>}
                   /\ FormItems \in [Combos -> Seq(Texts)]

VARIABLES
    selection,  \* id |-> [first, list]: what is selected, and what is offered
    items,      \* combo box |-> its items
    current,    \* combo box |-> currentText
    bound,      \* combo box |-> WidgetBindingRegistry: id or None
    connected,  \* combo boxes whose signal is connected with SendNewValue
    \* history
    unseen,     \* bound by a load, and not updated since
    foreign     \* ids whose selected text came from a file, or from a combo box
                \* that had not seen the selection, and may not be offered

comboVars == <<selection, items, current, bound, connected, unseen, foreign>>

World == [selection |-> selection, items |-> items, current |-> current,
          bound |-> bound, connected |-> connected, unseen |-> unseen, foreign |-> foreign]

Become(w) == /\ selection' = w.selection /\ items' = w.items /\ current' = w.current
             /\ bound' = w.bound /\ connected' = w.connected /\ unseen' = w.unseen
             /\ foreign' = w.foreign

\* A QComboBox has a current item as soon as it has items.
FirstOf(list) == IF list = <<>> THEN Nothing ELSE Head(list)

\* setCurrentText after the items were added: an item, or the first stays.
TextShown(s) == IF s.first \in ToSet(s.list) THEN s.first ELSE FirstOf(s.list)

DeviceSelections == {[first |-> t, list |-> o] : t \in Texts, o \in Offers}
IsOffered(s) == s.first \in ToSet(s.list)
Published == {s \in DeviceSelections : IsOffered(s)}

Init == /\ selection \in [Ids -> Published]
        /\ items = FormItems
        /\ current = [c \in Combos |-> FirstOf(FormItems[c])]
        /\ bound = [c \in Combos |-> None]
        /\ connected = {} /\ unseen = {} /\ foreign = {}

-----------------------------------------------------------------------------
\* The container has a new selection: SetVariantData of the bound combo boxes,
\* with signals blocked; it ignores a state.
Received(w, id) ==
    LET to == IF id \in Editable THEN {c \in Combos : w.bound[c] = id} ELSE {}
        s == w.selection[id]
    IN  [w EXCEPT !.items = [c \in Combos |-> IF c \in to THEN s.list ELSE @[c]],
                  !.current = [c \in Combos |-> IF c \in to THEN TextShown(s) ELSE @[c]],
                  !.unseen = @ \ to]

\* currentIndexChanged: SendNewValue and GetVariantData.
IndexChanged(w, c) ==
    LET id == w.bound[c]
    IN  IF c \notin w.connected \/ id = None THEN w
        ELSE Received([w EXCEPT !.selection[id].first = w.current[c],
                                !.foreign = IF c \in w.unseen THEN @ \cup {id} ELSE @ \ {id}], id)

\* clear(), and removeItem in a loop.
Clear(w, c) == IF w.items[c] = <<>> THEN w
               ELSE IndexChanged([w EXCEPT !.items[c] = <<>>, !.current[c] = Nothing], c)

\* The old connection is there while the items are taken away.
MutDrop(c, id) ==
    LET cleared == Clear(World, c)
        s == cleared.selection[id]
    IN  Become([cleared EXCEPT !.items[c] = s.list, !.current[c] = TextShown(s),
                               !.bound[c] = id, !.connected = @ \cup {c}, !.unseen = @ \ {c}])

\* dropEvent: disconnected, filled, then bound and connected.
Drop(c, id) ==
    LET cleared == Clear([World EXCEPT !.connected = @ \ {c}], c)
        s == selection[id]
    IN  Become([cleared EXCEPT !.items[c] = s.list, !.current[c] = TextShown(s),
                               !.bound[c] = id, !.connected = @ \cup {c}, !.unseen = @ \ {c}])

\* The binding goes first; the signal stays connected.
RemoveConnection(c) ==
    /\ bound[c] # None
    /\ Become(Clear([World EXCEPT !.bound[c] = None, !.unseen = @ \ {c}], c))

\* The user picks an item; to pick the current one again is no change.
Pick(c, t) ==
    /\ t \in ToSet(items[c]) \ {current[c]}
    /\ Become(IndexChanged([World EXCEPT !.current[c] = t], c))

DeviceSets(id, s) ==
    Become(Received([World EXCEPT !.selection[id] = s, !.foreign = @ \ {id}], id))

\* The remote control sets a text that is offered.
RemoteSets(id, t) ==
    /\ t \in ToSet(selection[id].list)
    /\ Become(Received([World EXCEPT !.selection[id].first = t, !.foreign = @ \ {id}], id))

\* A parameter file sets any text.
FileSets(id, t) ==
    /\ id \in Editable
    /\ Become(Received([World EXCEPT !.selection[id].first = t, !.foreign = @ \cup {id}], id))

\* The experiment is saved and loaded: devices publish again, and the combo boxes
\* of the form, with the form's items, are bound as before (ConnectToID).
Reload(new) ==
    LET again == {c \in Combos : bound[c] # None}
    IN  Become([World EXCEPT !.selection = new,
                             !.items = FormItems,
                             !.current = [c \in Combos |-> FirstOf(FormItems[c])],
                             !.connected = again, !.unseen = again, !.foreign = {}])

Next == \/ \E c \in Combos, id \in Ids : Drop(c, id)
        \/ \E c \in Combos : RemoveConnection(c)
        \/ \E c \in Combos, t \in Texts : Pick(c, t)
        \/ \E id \in Ids, s \in Published : DeviceSets(id, s)
        \/ \E id \in Ids, t \in Texts : RemoteSets(id, t) \/ FileSets(id, t)
        \/ \E new \in [Ids -> Published] : Reload(new)

Spec == Init /\ [][Next]_comboVars

-----------------------------------------------------------------------------
(* Properties.                                                             *)

TypeOK == /\ bound \in [Combos -> Ids \cup {None}]
          /\ unseen \subseteq {c \in connected : bound[c] # None}
          /\ \A id \in Ids : selection[id] \in DeviceSelections
          /\ \A c \in Combos : current[c] \in ToSet(items[c]) \cup {Nothing}

\* A combo box that is bound to a parameter offers what the container offers and
\* shows what is selected, or the first text if that is not offered, once it
\* was updated after a load.
ComboShowsSelection ==
    \A c \in Combos : bound[c] \in Editable /\ c \notin unseen =>
        /\ items[c] = selection[bound[c]].list
        /\ current[c] = TextShown(selection[bound[c]])

\* What is selected is offered, unless a parameter file brought another text, or
\* the user picked an item of the form before the combo box had seen what the
\* device offers; binding and unbinding, which empty the combo box, never take a
\* selection away.
SelectedIsOffered ==
    \A id \in Editable \ foreign : IsOffered(selection[id])
=============================================================================
