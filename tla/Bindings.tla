------------------------------ MODULE Bindings ------------------------------
(***************************************************************************)
(* What the data manager promises about the widgets and plots that show a  *)
(* parameter (DataManagement/DataManagementClass.cpp and its callers): who *)
(* is subscribed to which parameter id, and that nobody who is subscribed  *)
(* has been destroyed.                                                     *)
(*                                                                         *)
(* ContainerStore keeps one mapper per id; a mapper's vector Objects names *)
(* the widgets that SetData will call back.  The order of that vector is   *)
(* abstracted here: entries[id][o] is the number of its elements that      *)
(* point to o.  DataManagement.tla keeps the vector itself, and the erase  *)
(* loop over it, and implements this module.                               *)
(*                                                                         *)
(* The code identifies a widget by its objectName, not by its address: two *)
(* objects with one name share one slot of WidgetBindingRegistry, and an   *)
(* erase for one of them erases the entries of both.                       *)
(***************************************************************************)
EXTENDS Naturals

CONSTANTS
    Ids,        \* parameter, data and state ids ("Device::Group::Name")
    Widgets,    \* the objects of every bindable class but PlotWidget
    Plots,      \* the PlotWidget objects
    Names,      \* object names
    NameOf,     \* the objectName of each object
    None,       \* no binding
    MaxGraphs   \* bound: graphs, and entries, of one id in one plot

Objects == Widgets \cup Plots

\* One name never belongs to a PlotWidget and to an object of another class:
\* figure plots are called "Plot#n", the objects of a form end in the form's
\* name and are distinguished by their class in the form file.
ASSUME NamesAssumption ==
    /\ NameOf \in [Objects -> Names]
    /\ \A w \in Widgets, p \in Plots : NameOf[w] # NameOf[p]
    /\ None \notin Ids
    /\ MaxGraphs \in Nat \ {0}

VARIABLES
    stored,     \* ids that have a mapper in ContainerStore
    life,       \* "open"; "dying": its figure is closed, the deferred delete
                \* is pending; "gone": destroyed, or not created yet
    binding,    \* WidgetBindingRegistry: name |-> id or None
    entries,    \* id |-> object |-> number of elements of mapper->Objects
    graphs,     \* plot |-> id |-> number of graphs the plot draws for id
    adopted     \* history: names of the plots that an experiment load has
                \* connected while they were dying

vars == <<stored, life, binding, entries, graphs, adopted>>

Namesakes(S) == {q \in Objects : \E o \in S : NameOf[q] = NameOf[o]}
NamesOf(S) == {NameOf[o] : o \in S}

NoGraphs == [id \in Ids |-> 0]
NoEntries == [id \in Ids |-> [o \in Objects |-> 0]]

-----------------------------------------------------------------------------
Init == /\ stored = {}
        /\ life = [o \in Objects |-> "gone"]
        /\ binding = [n \in Names |-> None]
        /\ entries = NoEntries
        /\ graphs = [p \in Plots |-> NoGraphs]
        /\ adopted = {}

\* AddContainerElement: a plugin publishes id, for the first time or again.
\* The new mapper takes over the Objects of the one it replaces.
Publish(id) == /\ stored' = stored \cup {id}
               /\ UNCHANGED <<life, binding, entries, graphs, adopted>>

\* A form or a figure is created.  Open plots have distinct names
\* (PlotRegistry!NamesDistinct).  Nothing is subscribed yet.
Create(S) ==
    /\ \A o \in S : life[o] = "gone" /\ \A id \in Ids : entries[id][o] = 0
    /\ \A p \in S \cap Plots : \A q \in Plots :
          NameOf[q] = NameOf[p] /\ (q \in S \/ life[q] = "open") => q = p
    /\ life' = [o \in Objects |-> IF o \in S THEN "open" ELSE life[o]]
    /\ UNCHANGED <<stored, binding, entries, graphs, adopted>>

\* DeleteEntryOfObject(object): takes the binding of the name and erases the
\* entries of that name from the container it was bound to.
Detached(S) ==
    [id \in Ids |-> [o \in Objects |->
        IF o \in Namesakes(S) /\ binding[NameOf[o]] = id THEN 0 ELSE entries[id][o]]]

Unbind(w) == /\ life[w] = "open"
             /\ entries' = Detached({w})
             /\ binding' = [binding EXCEPT ![NameOf[w]] = None]
             /\ UNCHANGED <<stored, life, graphs, adopted>>

\* A widget is bound again without being taken from its old container.
MutBind(w, id) ==
    /\ life[w] = "open"
    /\ id \in stored
    /\ entries' = [entries EXCEPT ![id][w] = @ + 1]
    /\ binding' = [binding EXCEPT ![NameOf[w]] = id]
    /\ UNCHANGED <<stored, life, graphs, adopted>>

\* AddElementToContainerEntry for any class but PlotWidget.
Bind(w, id) ==
    /\ life[w] = "open"
    /\ id \in stored
    /\ entries' = [Detached({w}) EXCEPT ![id][w] = @ + 1]
    /\ binding' = [binding EXCEPT ![NameOf[w]] = id]
    /\ UNCHANGED <<stored, life, graphs, adopted>>

\* AddCustomGraph: a plot subscribes once more and draws one more graph.  An
\* experiment load finds plots by name, and may find one that is dying.
AddGraph(p, id) ==
    /\ life[p] # "gone"
    /\ id \in stored
    /\ graphs[p][id] < MaxGraphs
    /\ entries[id][p] < MaxGraphs
    /\ entries' = [entries EXCEPT ![id][p] = @ + 1]
    /\ graphs' = [graphs EXCEPT ![p][id] = @ + 1]
    /\ binding' = [binding EXCEPT ![NameOf[p]] = id]
    /\ adopted' = IF life[p] = "dying" THEN adopted \cup {NameOf[p]} ELSE adopted
    /\ UNCHANGED <<stored, life>>

\* DeleteEntryOfObject(id, plot), called calls[id] times for each id.  A call
\* erases entries of the plot's name, at least one if there is any; with a
\* namesake subscribed to the same id it need not be one of this plot's.
Erased(p, calls) ==
    \A id \in Ids :
        /\ \A q \in Namesakes({p}) : entries'[id][q] <= entries[id][q]
        /\ (\A q \in Namesakes({p}) \ {p} : entries[id][q] = 0) =>
              \/ entries'[id][p] = 0
              \/ entries'[id][p] + calls[id] <= entries[id][p]

SomeEntries == [Ids -> [Objects -> 0..MaxGraphs]]
SomeGraphs == [Plots -> [Ids -> 0..MaxGraphs]]

\* The tables of entries that differ from the given one for the objects of N
\* only.
Redrawn(N, table) ==
    {[id \in Ids |-> [o \in Objects |-> IF o \in N THEN e[id][o] ELSE table[id][o]]] :
        e \in [Ids -> [N -> 0..MaxGraphs]]}

\* removeSelectedGraph and removeAllGraphs: one call for each graph removed.
DropGraphs(p) ==
    /\ life[p] = "open"
    /\ UNCHANGED <<stored, life, binding, adopted>>
    /\ \E kept \in [Ids -> 0..MaxGraphs] :
          /\ \A id \in Ids : kept[id] <= graphs[p][id]
          /\ graphs' = [graphs EXCEPT ![p] = kept]
    /\ entries' \in Redrawn(Namesakes({p}), entries)
    /\ Erased(p, [id \in Ids |-> graphs[p][id] - graphs'[p][id]])

\* ClearAllGraphs of every plot of S, one erasing call for every graph the
\* plot draws, and DeleteEntryOfObject of every other object of S.
Cleared(S) ==
    LET T == S \cap Plots
    IN  /\ entries' \in Redrawn(Namesakes(T), Detached(S \ T))
        /\ \A p \in T : Erased(p, graphs[p])

\* The figure closes without ClearAllGraphs.
MutCloseFigure(S) ==
    /\ \A p \in S : life[p] = "open"
    /\ life' = [o \in Objects |-> IF o \in S THEN "dying" ELSE life[o]]
    /\ UNCHANGED <<stored, binding, entries, graphs, adopted>>

\* SubPlotMainWindow::closeEvent: its plots unsubscribe and are dying.  The
\* bindings of their names stay.
CloseFigure(S) ==
    /\ \A p \in S : life[p] = "open"
    /\ life' = [o \in Objects |-> IF o \in S THEN "dying" ELSE life[o]]
    /\ Cleared(S)
    /\ UNCHANGED <<stored, binding, graphs, adopted>>

\* The deferred delete of a closed figure.
DeleteFigure(S) ==
    /\ \A p \in S : life[p] = "dying"
    /\ life' = [o \in Objects |-> IF o \in S THEN "gone" ELSE life[o]]
    /\ graphs' = [p \in Plots |-> IF p \in S THEN NoGraphs ELSE graphs[p]]
    /\ UNCHANGED <<stored, binding, entries, adopted>>

\* dockWidget_destroyed: everything in the form unsubscribes and is destroyed.
CloseForm(S) ==
    /\ \A o \in S : life[o] = "open"
    /\ life' = [o \in Objects |-> IF o \in S THEN "gone" ELSE life[o]]
    /\ binding' = [n \in Names |-> IF n \in NamesOf(S) THEN None ELSE binding[n]]
    /\ Cleared(S)
    /\ graphs' = [p \in Plots |-> IF p \in S THEN NoGraphs ELSE graphs[p]]
    /\ UNCHANGED <<stored, adopted>>

\* MainWindowProjectCleanup::Close: the figures close (S are their plots), the
\* forms are destroyed, CloseProjectLogic clears containers and bindings.
CloseProject(S) ==
    /\ life' = [o \in Objects |-> IF life[o] # "open" THEN life[o]
                                  ELSE IF o \in S THEN "dying" ELSE "gone"]
    /\ graphs' = [p \in Plots |-> IF life[p] = "open" /\ p \notin S
                                  THEN NoGraphs ELSE graphs[p]]
    /\ stored' = {}
    /\ binding' = [n \in Names |-> None]
    /\ entries' = NoEntries
    /\ adopted' = {}

Next == \/ \E id \in Ids : Publish(id)
        \/ \E S \in SUBSET Objects : Create(S)
        \/ \E w \in Widgets : Unbind(w)
        \/ \E w \in Widgets, id \in Ids : Bind(w, id)
        \/ \E p \in Plots, id \in Ids : AddGraph(p, id)
        \/ \E p \in Plots : DropGraphs(p)
        \/ \E S \in SUBSET Plots : CloseFigure(S)
        \/ \E S \in SUBSET Plots : DeleteFigure(S)
        \/ \E S \in SUBSET Objects : CloseForm(S)
        \/ \E S \in SUBSET Plots : CloseProject(S)

Spec == Init /\ [][Next]_vars

-----------------------------------------------------------------------------
(* Properties.                                                             *)

\* Every variable has its type; no object is subscribed to one id, and no plot
\* draws it, more than MaxGraphs times.
TypeOK ==
    /\ stored \in SUBSET Ids
    /\ life \in [Objects -> {"open", "dying", "gone"}]
    /\ binding \in [Names -> Ids \cup {None}]
    /\ entries \in SomeEntries
    /\ graphs \in SomeGraphs
    /\ adopted \in SUBSET Names

\* A lookup through a binding, or through an entry, finds a mapper: the
\* container is never created by the lookup (ContainerStore::LookupOrInsert
\* would insert a null one and AddElementToContainerEntry dereference it).
MapperExists ==
    /\ \A n \in Names : binding[n] # None => binding[n] \in stored
    /\ \A id \in Ids : (\E o \in Objects : entries[id][o] > 0) => id \in stored

\* An object name outside the plots is subscribed at most once, and where the
\* registry says it is: SetData updates a widget once and for one id, and
\* RemoveConnection really disconnects it.  Two widgets that share a name do
\* not break this: the later one takes the subscription of the earlier.
HomeByName ==
    \A id \in Ids, w \in Widgets :
        entries[id][w] > 0 =>
            /\ entries[id][w] = 1
            /\ binding[NameOf[w]] = id
            /\ \A q \in Namesakes({w}) \ {w} : entries[id][q] = 0

\* A plot never holds more entries for an id than it draws graphs for it,
\* although one erase may delete several: what ClearAllGraphs relies on, which
\* erases once for each graph.
Covered ==
    \A id \in Ids, p \in Plots :
        NameOf[p] \notin adopted => entries[id][p] <= graphs[p][id]

\* SetData follows no pointer to a destroyed object: it calls back every
\* element of the mapper without being able to tell whether it still exists.
\* The one exception is a plot name that an experiment load has connected
\* while the closed figure of the previous project was waiting for its
\* deferred delete.
NoDangling ==
    \A id \in Ids, o \in Objects :
        entries[id][o] > 0 => life[o] # "gone" \/ NameOf[o] \in adopted
=============================================================================
