----------------------------- MODULE ListViews -----------------------------
(***************************************************************************)
(* List widgets (DropWidgets/QListView.cpp) and the parameters that are    *)
(* lists of texts.  A list is dropped on a view to bind it; anything else  *)
(* dropped on a bound view appends its name to the list.  A selection of   *)
(* several items in the explorer is dropped item by item, but the view is  *)
(* bound to the first of the selection.                                    *)
(*                                                                         *)
(* Each edit sends the whole list as the view shows it.  The device may    *)
(* set a list at any time; ParameterValue is about what is under way       *)
(* between it and the container.                                           *)
(***************************************************************************)
EXTENDS Sequences, SequencesExt

CONSTANTS
    Views,      \* QListViewD
    Lists,      \* parameters that are lists of texts
    Numbers,    \* other parameters
    Signals,    \* ids in another tree of the explorer
    Branch,     \* an item of the explorer that has children
    DeviceLists,\* the lists that devices set
    Number,     \* the value of a parameter that is no list
    Blank,      \* the empty text
    None,       \* no binding
    MaxList     \* bound: entries of a list

Parameters == Lists \cup Numbers

\* What lists hold: names that were dropped, and what devices put there.
Entries == Parameters \cup Signals \cup {Blank} \cup UNION {ToSet(list) : list \in DeviceLists}

ListAssumption == /\ Lists \cap Numbers = {} /\ Signals \cap Parameters = {}
                  /\ {Branch, Blank, None} \cap (Parameters \cup Signals) = {}
                  /\ DeviceLists \subseteq Seq(Entries) /\ Number \notin Seq(Entries)

VARIABLES
    value,      \* parameter |-> the list in its container, or Number
    rows,       \* view |-> the texts it shows
    bound,      \* view |-> WidgetBindingRegistry: parameter or None
    connected,  \* views whose NewEntry is connected with SendNewValue
    crashed,    \* AddElementToContainerEntry dereferenced a null mapper
    \* history
    unseen      \* views bound by a load, or to another parameter than the one
                \* they show, that were not updated since

listVars == <<value, rows, bound, connected, crashed, unseen>>

World == [value |-> value, rows |-> rows, bound |-> bound,
          connected |-> connected, crashed |-> crashed, unseen |-> unseen]

Become(w) == /\ \A id \in Parameters : w.value[id] # Number => Len(w.value[id]) <= MaxList  \* bound
             /\ \A v \in Views : Len(w.rows[v]) <= MaxList  \* bound
             /\ value' = w.value /\ rows' = w.rows /\ bound' = w.bound
             /\ connected' = w.connected /\ crashed' = w.crashed /\ unseen' = w.unseen

Init == /\ value \in [Parameters -> DeviceLists \cup {Number}]
        /\ \A id \in Parameters : (value[id] = Number) = (id \in Numbers)
        /\ rows = [v \in Views |-> <<>>]
        /\ bound = [v \in Views |-> None]
        /\ connected = {} /\ unseen = {} /\ crashed = FALSE

-----------------------------------------------------------------------------
\* The container has a new value: the views bound to it take it if it is a list.
Received(w, id) ==
    LET to == {v \in Views : w.bound[v] = id}
    IN  IF w.value[id] = Number THEN w
        ELSE [w EXCEPT !.rows = [v \in Views |-> IF v \in to THEN w.value[id] ELSE @[v]],
                       !.unseen = @ \ to]

\* GetVariantData: a list without entries is sent as one blank entry.
SentList(list) == IF list = <<>> THEN <<Blank>> ELSE list

\* NewEntry: SendNewValue makes the container a list, whatever it was.
NewEntry(w, v) ==
    IF v \notin w.connected THEN w
    ELSE Received([w EXCEPT !.value[w.bound[v]] = SentList(w.rows[v])], w.bound[v])

\* SupportsParameterList
Supports(w, item) == item \in Parameters /\ w.value[item] # Number

\* The loop of dropEvent, one item of a selection that begins with `first`:
\* CreateID of the tree has no name for a branch, and the container of no name
\* is null.
DropItem(w, v, first, item) ==
    IF w.crashed \/ item = Branch THEN w
    ELSE IF ~Supports(w, item) THEN NewEntry([w EXCEPT !.rows[v] = Append(@, item)], v)
    ELSE IF first = Branch THEN [w EXCEPT !.crashed = TRUE]
    ELSE [w EXCEPT !.rows[v] = w.value[item],
                   !.bound[v] = first,
                   !.connected = @ \cup {v},
                   !.unseen = IF first = item THEN @ \ {v} ELSE @ \cup {v}]

\* dragEnterEvent: anything on a bound view, one list on another.
Accepts(v, items) == bound[v] # None \/ (Len(items) = 1 /\ Supports(World, items[1]))

Drop(v, items) ==
    /\ ~crashed
    /\ Accepts(v, items)
    /\ Become(FoldLeft(LAMBDA w, item : DropItem(w, v, items[1], item), World, items))

\* The context menu.
DeleteEntry(v, r) ==
    /\ ~crashed
    /\ r \in DOMAIN rows[v]
    /\ Become(NewEntry([World EXCEPT !.rows[v] = RemoveAt(@, r)], v))

DeleteAllEntries(v) ==
    /\ ~crashed
    /\ rows[v] # <<>>
    /\ Become(NewEntry([World EXCEPT !.rows[v] = <<>>], v))

\* A device sets one of its parameters; what it makes of a list that was sent
\* for a number is a number.
DeviceSets(id, new) ==
    /\ ~crashed
    /\ (new = Number) = (id \in Numbers)
    /\ Become(Received([World EXCEPT !.value[id] = new], id))

\* The experiment is saved and loaded: devices publish their parameters again
\* and new views are bound as before (ConnectToID); each shows nothing until
\* the device answers.
Reload(new) ==
    /\ ~crashed
    /\ \A id \in Parameters : (new[id] = Number) = (id \in Numbers)
    /\ Become([World EXCEPT !.value = new,
                            !.rows = [v \in Views |-> <<>>],
                            !.connected = {v \in Views : bound[v] # None},
                            !.unseen = {v \in Views : bound[v] # None}])

\* What may be selected in one tree of the explorer, in the order of selection.
SelectedItems == UNION {{s \in [1..n -> tree] : IsInjective(s)} :
                       n \in 1..2, tree \in {Parameters \cup {Branch}, Signals \cup {Branch}}}

Next == \/ \E v \in Views, items \in SelectedItems : Drop(v, items)
        \/ \E v \in Views, r \in 1..MaxList : DeleteEntry(v, r)
        \/ \E v \in Views : DeleteAllEntries(v)
        \/ \E id \in Parameters, new \in DeviceLists \cup {Number} : DeviceSets(id, new)
        \/ \E new \in [Parameters -> DeviceLists \cup {Number}] : Reload(new)

Spec == Init /\ [][Next]_listVars

-----------------------------------------------------------------------------
(* Properties.                                                             *)

Bound == {v \in Views : bound[v] # None}

TypeOK == /\ bound \in [Views -> Parameters \cup {None}]
          /\ connected = Bound /\ unseen \subseteq Bound
          /\ \A id \in Lists : value[id] # Number

\* Every bound view shows the list in its container, once it was updated after
\* a load or after a drop that bound it to another parameter than it shows.
ViewShowsList == \A v \in Bound \ unseen : rows[v] = value[bound[v]] \/ value[bound[v]] = Number

\* What the container is when `list` is what the user has left of it.
Only(id, list) == value' = [value EXCEPT ![id] = SentList(list)]

\* A step in which the user edits the list that v shows changes that entry only.
OnlyEdits ==
    \A v \in Bound \ unseen :
        LET id == bound[v]
            list == value[id]
        IN  list # Number =>
            /\ \A r \in DOMAIN rows[v] : DeleteEntry(v, r) => Only(id, RemoveAt(list, r))
            /\ DeleteAllEntries(v) => Only(id, <<>>)
            /\ \A s \in Signals : Drop(v, <<s>>) => Only(id, Append(list, s))

\* The user changes the lists by the entry that is added or deleted and not
\* otherwise, as every edit sends the whole list of one view: unless the view
\* has not seen the list it is bound to.  A list that loses its last entry has
\* a blank one instead.
EditsOnlyEdit == [][OnlyEdits]_listVars

\* "binding is limited to `Parameter` containers holding `QStringList`;
\* missing, state-list and scalar containers are not list-binding candidates"
\* (docs/modernization/BEHAVIOR_INVENTORY.md:1272): no view is bound to another
\* parameter.
OnlyListsBound == \A v \in Bound : bound[v] \in Lists
=============================================================================
