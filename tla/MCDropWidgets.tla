---------------------------- MODULE MCDropWidgets ----------------------------
(***************************************************************************)
(* Instances for TLC of the components in which values meet their widgets: *)
(* a parameter in boxes and fields, a number in sliders and spin boxes,    *)
(* lists and selections in their views, a table of cells, and a plot's     *)
(* cursors.  Each behaviour is one of the component that part names; the   *)
(* others stay where they start.                                           *)
(***************************************************************************)
EXTENDS ParameterValue, Integers

CONSTANTS None,
    Labels, Elements, Shown, MaxRows,
    Ranges, Spacings, Extent,
    Sliders, Spins, Displays, FormRange, Numbers, Limits, Steps, Nobody,
    Views, Lists, Scalars, Signals, Branch, DeviceLists, Number, Blank, MaxList,
    Combos, Selections, Editable, Texts, Offers, FormItems, Nothing

\* A number of two bits, with a check box for the lower one, and a field.
MCBitOf == [w \in Boxes |-> 0]

MCElements == {<<"a", 0>>, <<"a", 1>>, <<"b", 0>>}

MCRanges == {[lower |-> 0, upper |-> 6], [lower |-> 2, upper |-> 5]}
MCExtent == -1..7

MCFormRange == [w \in {"spin", "bar"} |-> [lo |-> 0, hi |-> 1]]
MCLimits == {[lo |-> 0, hi |-> 0], [lo |-> 1, hi |-> 4], [lo |-> 3, hi |-> 0]}

MCDeviceLists == {<<"a">>}

\* One of the combo boxes has items in its form.
MCOffers == {<<"x", "y">>, <<"y", "z">>}
MCFormItems == [c \in Combos |-> IF c = "filled" THEN <<"x", "z">> ELSE <<>>]

VARIABLE part

VARIABLES published, rows, binding, objects, pending, table, robbed, wanted, whole, faithful
T == INSTANCE TableCells WITH file <- table

VARIABLES at, active, range, visible, synced, mode, dragged, fft
C == INSTANCE Cursors

VARIABLES number, limits, numberBound, connected, position, spinRange, asking, stale
N == INSTANCE NumberWidgets WITH bound <- numberBound, shown <- position, range <- spinRange

VARIABLES listOf, entries, viewBound, viewConnected, crashed, viewUnseen
L == INSTANCE ListViews WITH Numbers <- Scalars, value <- listOf, rows <- entries,
         bound <- viewBound, connected <- viewConnected, unseen <- viewUnseen

VARIABLES selection, items, current, comboBound, comboConnected, unseen, foreign
S == INSTANCE ComboBoxes WITH Ids <- Selections, bound <- comboBound,
         connected <- comboConnected

ASSUME Assumptions == /\ T!TableAssumption /\ C!CursorsAssumption
                      /\ N!NumberAssumption
                      /\ L!ListAssumption /\ S!ComboAssumption

tableVars == <<published, rows, binding, objects, pending, table, robbed, wanted, whole, faithful>>
cursorVars == <<at, active, range, visible, synced, mode, dragged, fft>>
numberVars == <<number, limits, numberBound, connected, position, spinRange, asking, stale>>
listVars == <<listOf, entries, viewBound, viewConnected, crashed, viewUnseen>>
comboVars == <<selection, items, current, comboBound, comboConnected, unseen, foreign>>
choiceVars == <<listVars, comboVars>>
mcVars == <<part, valueVars, tableVars, cursorVars, numberVars, choiceVars>>

MCInit == /\ part \in {"value", "table", "cursors", "numbers", "lists", "combos"}
          /\ Init /\ T!Init /\ C!Init /\ N!Init /\ L!Init /\ S!Init
          /\ part # "value" => ~answers
          /\ part # "numbers" => number = 0
          /\ part # "combos" => \A id \in Selections :
                                 selection[id] = [first |-> "x", list |-> <<"x", "y">>]
          /\ part # "cursors" => range = [lower |-> 0, upper |-> 6]

MCNext ==
    \/ part = "value" /\ Next
       /\ UNCHANGED <<part, tableVars, cursorVars, numberVars, choiceVars>>
    \/ part = "table" /\ T!Next
       /\ UNCHANGED <<part, valueVars, cursorVars, numberVars, choiceVars>>
    \/ part = "cursors" /\ C!Next
       /\ UNCHANGED <<part, valueVars, tableVars, numberVars, choiceVars>>
    \/ part = "numbers" /\ N!Next
       /\ UNCHANGED <<part, valueVars, tableVars, cursorVars, choiceVars>>
    \/ part = "lists" /\ L!Next
       /\ UNCHANGED <<part, valueVars, tableVars, cursorVars, numberVars, comboVars>>
    \/ part = "combos" /\ S!Next
       /\ UNCHANGED <<part, valueVars, tableVars, cursorVars, numberVars, listVars>>

MCSpec == MCInit /\ [][MCNext]_mcVars

-----------------------------------------------------------------------------
(* Properties: those of the modules, under names of their own.             *)

\* The type invariants of the modules that have one.
TypeOK == /\ part = "table" => T!TypeOK
          /\ part = "numbers" => N!TypeOK
          /\ part = "lists" => L!TypeOK
          /\ part = "combos" => S!TypeOK

\* Every bound widget shows the container's value, of boxes, fields, sliders,
\* spin boxes, displays, list views and combo boxes, once it was set after the widget was bound
\* (SetVariantData of the widgets, DataManagementSetClass::SetData).
ShowsContainer == /\ part = "value" => ShownIsContainer
                  /\ part = "numbers" => N!ShowsNumber
                  /\ part = "lists" => L!ViewShowsList
                  /\ part = "combos" => S!ComboShowsSelection

\* What the user does is what happens to the container: its number goes the way a
\* slider or a spin box is moved (QSliderD::GetVariantData), and its list loses
\* or gains the entry that is deleted or dropped (QListViewD::DeleteEntry, dropEvent).
EditsFollowHand == N!EditsFollowHand /\ L!EditsOnlyEdit

\* Binding and unbinding take no selection away (QComboBoxD::dropEvent,
\* RemoveConnection): what is selected is offered.
SelectedIsOffered == part = "combos" => S!SelectedIsOffered

\* Of the run that shows what dropEvent does: a list view is bound to list
\* parameters only.
OnlyListsBound == L!OnlyListsBound

\* Cells that a container calls back exist; and every cell of the table is
\* updated, unless it got the name of another (DropWidgetTableCells names
\* cells by the number of rows).
CellsAreUpdated == part = "table" => T!CellsAreUpdated

\* A table that was saved when complete and loaded is the same, bottom up,
\* when its timers have fired (QTableWidgeD::LoadFromXML).
RowsComeBack == part = "table" => T!RowsComeBack

\* Synchronised cursors keep their distance, and are there to be moved.
CursorsKeep == C!CursorsKeep
=============================================================================
