----------------------------- MODULE TableCells -----------------------------
(***************************************************************************)
(* The table widget (DropWidgets/QTableWidgeD.cpp): a row shows the        *)
(* elements L::0, L::1, ... of one label L, each in a cell with an editor  *)
(* of its own that subscribes with the data manager.                       *)
(*                                                                         *)
(* The editors are named after the number of rows at the time of their     *)
(* creation, and the manager knows widgets by name.  An experiment file    *)
(* keeps the labels of the rows; when it is loaded, each row is created by *)
(* a timer of 2 seconds, from the elements that are published then.        *)
(***************************************************************************)
EXTENDS Naturals, Sequences, SequencesExt, FiniteSets

CONSTANTS
    Labels,     \* "Device::Group"
    Elements,   \* the elements <<label, n>> that the devices publish
    Shown,      \* those that are numbers or switches
    None,       \* no binding
    MaxRows     \* bound: rows, on the screen and to be created

TableAssumption ==
    /\ Elements \subseteq Labels \X Nat
    /\ Shown \subseteq Elements
    /\ None \notin Elements
    /\ MaxRows \in Nat \ {0}

VARIABLES
    published,  \* elements that have a container
    rows,       \* the rows on the screen, from the top: [label, number, serial,
                \* cells]; number is part of the editors' names, serial tells
                \* the row from others, cells are the columns with an editor
    binding,    \* WidgetBindingRegistry: <<number, column>> |-> element or None
    objects,    \* entries of the containers: [element, name, serial]
    pending,    \* labels whose row a timer will create
    file,       \* the saved experiment: the rows' labels, and the elements
                \* that have connections
    \* history
    robbed,     \* serials of rows that shared their number with another row
    wanted,     \* labels of the file's table when it was saved, from the top
    whole,      \* no row was pending when the file was saved
    faithful    \* the table is the file's: loaded from a whole file, and not
                \* edited since; no row was created before all its elements
                \* were published

tableVars == <<published, rows, binding, objects, pending, file, robbed, wanted, whole, faithful>>

Serials == 1..MaxRows
Columns == {e[2] : e \in Elements}
CellNames == Serials \X Columns

\* The elements of a label that a row finds: those before the first gap.
Found(label) == {n \in Columns : \A k \in 0..n : <<label, k>> \in published}
All(label) == {n \in Columns : <<label, n>> \in Elements}

Init == /\ published = {}
        /\ rows = <<>> /\ pending = <<>>
        /\ binding = [n \in CellNames |-> None] /\ objects = {}
        /\ file = [labels |-> <<>>, connected |-> {}]
        /\ robbed = {} /\ wanted = <<>> /\ whole = TRUE /\ faithful = FALSE

Publish(e) == /\ published' = published \cup {e}
              /\ UNCHANGED <<rows, binding, objects, pending, file, robbed, wanted, whole, faithful>>

\* RemoveBindingsInRow: every editor is looked up by its name, and whatever
\* is subscribed under that name is erased where the name is bound.
Unbound(names, entries) ==
    {o \in entries : ~(o.name \in names /\ binding[o.name] = o.element)}
NamesOf(row) == {<<row.number, c>> : c \in row.cells}

\* The name's former subscription stays.
MutBound(row) ==
    objects \cup {[element |-> <<row.label, c>>, name |-> <<row.number, c>>,
                   serial |-> row.serial] : c \in row.cells}

\* AddElementToContainerEntry of every cell: the name's former subscription is
\* taken away.
Bound(row) ==
    Unbound(NamesOf(row), objects)
        \cup {[element |-> <<row.label, c>>, name |-> <<row.number, c>>,
               serial |-> row.serial] : c \in row.cells}

\* CreateRow: above row `at`, or at the bottom; nothing without elements.
CreateRow(label, at) ==
    IF Found(label) = {} THEN UNCHANGED <<rows, binding, objects, robbed>>
    ELSE LET used == {rows[i].serial : i \in DOMAIN rows}
             new == [label |-> label, number |-> Len(rows) + 1,
                     serial |-> CHOOSE s \in Serials : s \notin used,
                     cells |-> {n \in Found(label) : <<label, n>> \in Shown}]
             twins == {rows[i].serial : i \in {j \in DOMAIN rows : rows[j].number = new.number}}
         IN  /\ Len(rows) < MaxRows  \* bound
             /\ rows' = InsertAt(rows, at, new)
             /\ objects' = Bound(new)
             /\ binding' = [n \in CellNames |->
                    IF n \in NamesOf(new) THEN <<label, n[2]>> ELSE binding[n]]
             /\ robbed' = IF twins = {} THEN robbed \ {new.serial}
                          ELSE robbed \cup twins \cup {new.serial}

\* dropEvent
Drop(label, at) ==
    /\ \E n \in Columns : <<label, n>> \in published \cap Shown
    /\ CreateRow(label, at)
    /\ faithful' = FALSE
    /\ UNCHANGED <<published, pending, file, wanted, whole>>

\* A row's timer fires; the timers fire in the order of their start.
Fire ==
    /\ pending # <<>>
    /\ CreateRow(Head(pending), Len(rows) + 1)
    /\ pending' = Tail(pending)
    /\ faithful' = (faithful /\ Found(Head(pending)) = All(Head(pending)))
    /\ UNCHANGED <<published, file, wanted, whole>>

\* The rows that are not in S, in their order.
Kept(S) == FoldLeftDomain(LAMBDA kept, i : IF i \in S THEN kept ELSE Append(kept, rows[i]),
                          <<>>, rows)

\* The subscriptions are looked for after the rows above have gone.
MutWithout(S) ==
    LET names == UNION {NamesOf(rows[i]) : i \in {k \in DOMAIN rows : k - 1 \in S}}
    IN  /\ rows' = Kept(S)
        /\ objects' = Unbound(names, objects)
        /\ binding' = [n \in CellNames |-> IF n \in names THEN None ELSE binding[n]]

\* The rows of S go, with the subscriptions of the names of their editors.
Without(S) ==
    LET names == UNION {NamesOf(rows[i]) : i \in S}
    IN  /\ rows' = Kept(S)
        /\ objects' = Unbound(names, objects)
        /\ binding' = [n \in CellNames |-> IF n \in names THEN None ELSE binding[n]]

RemoveSelectedRows(S) ==
    /\ S # {}
    /\ Without(S)
    /\ faithful' = FALSE
    /\ UNCHANGED <<published, pending, file, robbed, wanted, whole>>

\* Clear Table; the timers stay.
RemoveConnection ==
    /\ Without(DOMAIN rows)
    /\ faithful' = FALSE
    /\ UNCHANGED <<published, pending, file, robbed, wanted, whole>>

LabelsOf(s) == [i \in DOMAIN s |-> s[i].label]

\* The row at the top is forgotten.
MutSaveToXML ==
    /\ file' = [labels |-> Reverse(LabelsOf(SubSeq(rows, 2, Len(rows)))),
                connected |-> {o.element : o \in objects}]
    /\ wanted' = LabelsOf(rows)
    /\ whole' = (pending = <<>>)
    /\ faithful' = FALSE
    /\ UNCHANGED <<published, rows, binding, objects, pending, robbed>>

\* SaveToXML writes the rows from the bottom; writeConnections writes the
\* elements with the type of their containers.
SaveToXML ==
    /\ file' = [labels |-> Reverse(LabelsOf(rows)),
                connected |-> {o.element : o \in objects}]
    /\ wanted' = LabelsOf(rows)
    /\ whole' = (pending = <<>>)
    /\ faithful' = FALSE
    /\ UNCHANGED <<published, rows, binding, objects, pending, robbed>>

\* The project is closed and the file loaded: a new table starts its timers,
\* and CreateConnection publishes the elements the file names.  No editor of
\* the table exists yet that it could connect.
LoadFromXML ==
    /\ rows' = <<>> /\ objects' = {} /\ robbed' = {}
    /\ binding' = [n \in CellNames |-> None]
    /\ published' = file.connected
    /\ pending' = file.labels
    /\ faithful' = whole
    /\ UNCHANGED <<file, wanted, whole>>

Next == \/ \E e \in Elements : Publish(e)
        \/ \E label \in Labels, at \in 1..Len(rows) + 1 : Drop(label, at)
        \/ \E S \in SUBSET DOMAIN rows : RemoveSelectedRows(S)
        \/ RemoveConnection \/ Fire \/ SaveToXML \/ LoadFromXML

Spec == Init /\ [][Next]_tableVars

-----------------------------------------------------------------------------
(* Properties.                                                             *)

\* The types; the registry of the bindings knows where each cell is.
TypeOK ==
    /\ published \subseteq Elements
    /\ \A i \in DOMAIN rows : /\ rows[i].label \in Labels /\ rows[i].number \in Serials
                              /\ rows[i].cells \subseteq Columns
    /\ \A i, j \in DOMAIN rows : rows[i].serial = rows[j].serial => i = j
    /\ binding \in [CellNames -> Elements \cup {None}]
    /\ \A o \in objects : o.name \in CellNames /\ binding[o.name] = o.element
    /\ pending \in Seq(Labels)
    /\ file.labels \in Seq(Labels) /\ file.connected \subseteq Elements

\* A cell that the containers will call back is on the screen and shows that
\* element, although rows are removed by the names of their cells only.
CellsExist ==
    \A o \in objects : \E i \in DOMAIN rows :
        /\ rows[i].serial = o.serial
        /\ o.name \in NamesOf(rows[i])
        /\ o.element = <<rows[i].label, o.name[2]>>

\* Every cell on the screen is updated, and once; but a row that was given
\* the number of a row on the screen takes away the updates of its cells, and
\* the removal of either leaves the other without.
CellsAreUpdated ==
    /\ CellsExist
    /\ \A i \in DOMAIN rows : rows[i].serial \notin robbed =>
          \A c \in rows[i].cells :
              \E o \in objects : o.serial = rows[i].serial /\ o.name = <<rows[i].number, c>>

\* Once its timers have fired, a table that was saved and loaded has all its
\* rows again, with all their elements, in the reverse order.
RowsComeBack ==
    faithful /\ pending = <<>> =>
        /\ LabelsOf(rows) = Reverse(wanted)
        /\ \A i \in DOMAIN rows :
              rows[i].cells = {n \in All(rows[i].label) : <<rows[i].label, n>> \in Shown}
=============================================================================
