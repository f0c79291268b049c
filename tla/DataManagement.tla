--------------------------- MODULE DataManagement ---------------------------
(***************************************************************************)
(* The data manager as the code has it: the mappers of ContainerStore with *)
(* their vectors Objects, the name-keyed WidgetBindingRegistry, the forms, *)
(* figures, push-button timers and modal dialogs of the GUI that call it,  *)
(* and the experiment load.  It implements Bindings.                       *)
(*                                                                         *)
(* All of this runs in the GUI thread.  An action is one event handler, or *)
(* one piece of it where the handler gives control back: a drop that asks  *)
(* the user something runs a nested event loop, in which messages of the   *)
(* plugins and timers are handled, until it resumes.  A load of an         *)
(* experiment is one handler too, but after each form it has created it    *)
(* calls processEvents: whatever is queued, input of the user included,    *)
(* is handled there, even another load.                                    *)
(***************************************************************************)
EXTENDS Naturals, Sequences, SequencesExt, FiniteSets

CONSTANTS
    Ids, Widgets, Plots, Names, NameOf, None, MaxGraphs, \* as in Bindings
    NoId,           \* the empty string as an id
    Sliders,        \* widgets whose drop may ask for the limits of the id
    Indicators,     \* widgets whose drop may ask for a bit of the id (LEDs)
    Buttons,        \* QPushButtonD
    Forms,          \* dock windows with a loaded form
    Figures,        \* figure windows
    Content,        \* the bindable objects of each window, in child order
    Experiments,    \* the files a load may read: [windows, connections]
    MaxDrops,       \* bound: graphs of all plots, when the user drops one more
    MaxLoads        \* bound: loads, one inside the other

Objects == Widgets \cup Plots
Windows == Forms \cup Figures

\* Names are as in Bindings; the plots of one window have names of their own
\* (PlotRegistry!NamesDistinct), and a file connects ids to names.
ASSUME WindowsAssumption ==
    /\ NameOf \in [Objects -> Names]
    /\ \A w \in Widgets, p \in Plots : NameOf[w] # NameOf[p]
    /\ Sliders \cup Indicators \cup Buttons \subseteq Widgets
    /\ Content \in [Windows -> Seq(Objects)]
    /\ \A f \in Figures : ToSet(Content[f]) \subseteq Plots
    /\ \A w \in Windows : \A p, q \in ToSet(Content[w]) \cap Plots :
          NameOf[p] = NameOf[q] => p = q
    /\ Experiments \subseteq [windows : Seq(Windows),
                              connections : Seq([id : Ids, name : Names])]
    /\ NoId \notin Ids /\ None \notin Ids \cup {NoId}
    /\ MaxGraphs \in Nat \ {0}

VARIABLES
    mapper,     \* ContainerStore: id |-> "absent", "null" (inserted by a
                \* lookup) or "mapper"
    objects,    \* id |-> the vector Objects of its mapper
    binding,    \* WidgetBindingRegistry: name |-> id, NoId or None
    life,       \* object |-> "open", "dying" or "gone", as in Bindings
    graphs,     \* plot |-> the ids of its graphs, in order
    adopted,    \* history, as in Bindings
    wired,      \* buttons whose pressed() starts the time-out
    timer,      \* buttons with a pending time-out
    dialog,     \* the drop waiting for the user's answer, or NoDialog
    loads,      \* stack of loads: what is left of each file, and held, the
                \* objects whose deferred delete waits for the load's end
    pumping,    \* the load on top is in the processEvents after a form
    isloading,  \* MainWindow::isloading
    fault       \* "none", or how the process crashed

manager == <<mapper, objects, binding>>
vars == <<mapper, objects, binding, life, graphs, adopted, wired, timer,
          dialog, loads, pumping, isloading, fault>>

load == <<loads, pumping, isloading>>

AllIds == Ids \cup {NoId}
NoDialog == [widget |-> None, id |-> NoId, container |-> "none"]

\* How often o occurs in a vector.
Count(vector, o) == Cardinality({i \in DOMAIN vector : vector[i] = o})

-----------------------------------------------------------------------------
(* Calls on the manager, as functions of its state.                        *)

Manager == [mapper |-> mapper, objects |-> objects, binding |-> binding]

Becomes(m) == /\ mapper' = m.mapper
              /\ objects' = m.objects
              /\ binding' = m.binding

\* The loop erases the element at i and then increments i: the element that
\* moved up to i is not looked at.  An element matches by pointer or by name;
\* the pointer adds nothing, an object has one name.
EraseMatching(vector, name) ==
    LET Visit(r, o) == IF NameOf[o] = name /\ ~r.skip
                       THEN [kept |-> r.kept, skip |-> TRUE]
                       ELSE [kept |-> Append(r.kept, o), skip |-> FALSE]
    IN  FoldLeft(Visit, [kept |-> <<>>, skip |-> FALSE], vector).kept

\* Containers->LookupOrInsert(id)
LookupOrInsert(m, id) ==
    IF m.mapper[id] = "absent" THEN [m EXCEPT !.mapper[id] = "null"] ELSE m

\* DeleteEntryOfObject(id, object)
DeleteEntryIn(m, id, name) ==
    [LookupOrInsert(m, id) EXCEPT !.objects[id] = EraseMatching(@, name)]

\* DeleteEntryOfObject(object)
DeleteEntry(m, name) ==
    IF m.binding[name] = None THEN m
    ELSE DeleteEntryIn([m EXCEPT !.binding[name] = None], m.binding[name], name)

\* The widget is not taken from its old container.
MutAddElement(m, o, id) ==
    [m EXCEPT !.binding[NameOf[o]] = id, !.objects[id] = Append(@, o)]

\* AddElementToContainerEntry; its first loop compares with the manager
\* itself and never matches.
AddElement(m, o, id) ==
    LET name == NameOf[o]
        freed == IF o \in Plots THEN m ELSE DeleteEntry(m, name)
    IN  [freed EXCEPT !.binding[name] = id, !.objects[id] = Append(@, o)]

\* ContainerStore::AddOrReplace keeps the Objects of the replaced mapper.
AddContainer(m, id) == [m EXCEPT !.mapper[id] = "mapper"]

\* GetContainer(QObject*) of an unbound widget inserts the empty binding and
\* a null mapper for the empty id.
GetContainerOf(m, name) ==
    IF m.binding[name] # None THEN LookupOrInsert(m, m.binding[name])
    ELSE LookupOrInsert([m EXCEPT !.binding[name] = NoId], NoId)

\* One erasing call for each id the plot draws, not for each of its graphs.
MutClearAllGraphs(m, p) ==
    LET Delete(n, id) == DeleteEntryIn(n, id, NameOf[p])
    IN  FoldLeft(Delete, m, SetToSeq(ToSet(graphs[p])))

\* PlotWidget::ClearAllGraphs, the manager's side.
ClearAllGraphs(m, p) ==
    LET Delete(n, id) == DeleteEntryIn(n, id, NameOf[p])
    IN  FoldLeft(Delete, m, graphs[p])

\* What a closing window does: ClearAllGraphs of each of its plots, and
\* DeleteEntryOfObject of each of its objects.
ClearPlots(m, content) ==
    LET Clear(n, o) == IF o \in Plots THEN ClearAllGraphs(n, o) ELSE n
    IN  FoldLeft(Clear, m, content)

DeleteEntries(m, content) ==
    LET Delete(n, o) == DeleteEntry(n, NameOf[o])
    IN  FoldLeft(Delete, m, content)

\* CloseProjectLogic
EmptyManager == [mapper |-> [id \in AllIds |-> "absent"],
                 objects |-> [id \in AllIds |-> <<>>],
                 binding |-> [n \in Names |-> None]]

-----------------------------------------------------------------------------
Init == /\ mapper = EmptyManager.mapper
        /\ objects = EmptyManager.objects
        /\ binding = EmptyManager.binding
        /\ life = [o \in Objects |-> "gone"]
        /\ graphs = [p \in Plots |-> <<>>]
        /\ adopted = {} /\ wired = {} /\ timer = {}
        /\ dialog = NoDialog
        /\ loads = <<>> /\ pumping = FALSE /\ isloading = FALSE
        /\ fault = "none"

\* The event loop handles timers and the messages of plugins; input of the
\* user too, unless a modal dialog is open or a deferred delete is pending,
\* which the loop carries out before it takes the next input event.  Within a
\* load, processEvents does not carry out the deletes that the load itself
\* deferred.
EventLoop == fault = "none" /\ (loads = <<>> \/ pumping)
Held == UNION {loads[i].held : i \in DOMAIN loads}
Idle == /\ EventLoop
        /\ dialog = NoDialog
        /\ \A o \in Objects : life[o] = "dying" => o \in Held

Live(S, state) == \A o \in S : life[o] = state
Relive(S, state) == life' = [o \in Objects |-> IF o \in S THEN state ELSE life[o]]
Members(window) == ToSet(Content[window])
OpenWindow(window) == Members(window) # {} /\ Live(Members(window), "open")
Unlisted(o) == \A id \in Ids : o \notin ToSet(objects[id])

-----------------------------------------------------------------------------
(* Plugins: messages handled by the event loop, dialogs included.          *)

\* A republished id gets a new mapper; the old one is deleted under whoever
\* holds a pointer to it.
Publish(id) ==
    /\ EventLoop
    /\ Becomes(AddContainer(Manager, id))
    /\ dialog' = IF dialog.id = id THEN [dialog EXCEPT !.container = "deleted"]
                 ELSE dialog
    /\ UNCHANGED <<life, graphs, adopted, wired, timer, load, fault>>

\* SetData(id) calls SetVariantData through every pointer of the vector; what
\* the widgets do with the value is not modelled here.
SetData(id) ==
    /\ EventLoop
    /\ mapper[id] = "mapper"
    /\ \E o \in ToSet(objects[id]) : life[o] = "gone"
    /\ fault' = "dangling pointer"
    /\ UNCHANGED <<manager, life, graphs, adopted, wired, timer, dialog, load>>

-----------------------------------------------------------------------------
(* Windows.                                                                *)

CanCreate(window) ==
    /\ Members(window) # {} /\ Live(Members(window), "gone")
    /\ \A o \in Members(window) : Unlisted(o)
    /\ \A p \in Members(window) \cap Plots, q \in Plots :
          life[q] = "open" => NameOf[q] # NameOf[p]

Create(window) ==
    /\ Idle
    /\ CanCreate(window)
    /\ Relive(Members(window), "open")
    /\ UNCHANGED <<manager, graphs, adopted, wired, timer, dialog, load, fault>>

\* closeEvent of a figure; the window is deleted when control is back in the
\* event loop.
CloseFigure(figure) ==
    /\ Idle
    /\ OpenWindow(figure)
    /\ Becomes(ClearPlots(Manager, Content[figure]))
    /\ Relive(Members(figure), "dying")
    /\ UNCHANGED <<graphs, adopted, wired, timer, dialog, load, fault>>

DeleteFigure(figure) ==
    /\ EventLoop
    /\ Members(figure) # {} /\ Live(Members(figure), "dying")
    /\ Members(figure) \cap Held = {}
    /\ Relive(Members(figure), "gone")
    /\ graphs' = [p \in Plots |-> IF p \in Members(figure) THEN <<>> ELSE graphs[p]]
    /\ UNCHANGED <<manager, adopted, wired, timer, dialog, load, fault>>

\* dockWidget_destroyed: first the plots, then every child.
CloseForm(form) ==
    /\ Idle
    /\ OpenWindow(form)
    /\ Becomes(DeleteEntries(ClearPlots(Manager, Content[form]), Content[form]))
    /\ Relive(Members(form), "gone")
    /\ graphs' = [p \in Plots |-> IF p \in Members(form) THEN <<>> ELSE graphs[p]]
    /\ wired' = wired \ Members(form)
    /\ timer' = timer \ Members(form)
    /\ UNCHANGED <<adopted, dialog, load, fault>>

\* MainWindowProjectCleanup::Close: figures are closed and wait for their
\* deferred delete, forms are deleted on the spot, the manager is emptied.
CloseEverything ==
    LET inForm(o) == \E form \in Forms : o \in Members(form)
    IN  /\ Becomes(EmptyManager)
        /\ life' = [o \in Objects |-> IF life[o] # "open" THEN life[o]
                                      ELSE IF inForm(o) THEN "gone" ELSE "dying"]
        /\ graphs' = [p \in Plots |-> IF life'[p] = "gone" THEN <<>> ELSE graphs[p]]
        /\ adopted' = {} /\ wired' = {} /\ timer' = {}
        /\ UNCHANGED fault

\* The windows are left to a deferred delete, which a modal dialog holds up.
MutCloseProject ==
    /\ EventLoop
    /\ ~isloading
    /\ Becomes(EmptyManager)
    /\ dialog' = IF dialog = NoDialog THEN NoDialog
                 ELSE [dialog EXCEPT !.container = "deleted"]
    /\ UNCHANGED <<life, graphs, adopted, wired, timer, load, fault>>

\* From the menu, or as a message of a plugin: also below a modal dialog.
\* While a load is going on it is put off (module Project has its timer).
CloseProject ==
    /\ EventLoop
    /\ ~isloading
    /\ CloseEverything
    /\ dialog' = IF dialog = NoDialog THEN NoDialog
                 ELSE [dialog EXCEPT !.container = "deleted"]
    /\ UNCHANGED load

-----------------------------------------------------------------------------
(* Drops and the context menu of the widgets.                              *)

CanDrop(o, id) == Idle /\ life[o] = "open" /\ mapper[id] = "mapper"

\* dropEvent of a widget that asks nothing: the class never asks, the slider's
\* id has limits, the indicator's id is a bool.
Drop(w, id) ==
    /\ CanDrop(w, id)
    /\ Becomes(AddElement(Manager, w, id))
    /\ wired' = IF w \in Buttons THEN wired \cup {w} ELSE wired
    /\ UNCHANGED <<life, graphs, adopted, timer, dialog, load, fault>>

\* The slider drops its old binding before it asks, the indicator does not.
DropAndAsk(w, id) ==
    /\ CanDrop(w, id)
    /\ w \in Sliders \cup Indicators
    /\ Becomes(IF w \in Sliders THEN DeleteEntry(Manager, NameOf[w]) ELSE Manager)
    /\ dialog' = [widget |-> w, id |-> id, container |-> "valid"]
    /\ UNCHANGED <<life, graphs, adopted, wired, timer, load, fault>>

\* The handler resumes in the widget, and the indicator goes on to read the
\* container it looked up before it asked.
Answerable == /\ life[dialog.widget] = "open"
              /\ dialog.widget \in Indicators => dialog.container = "valid"

Answer ==
    /\ EventLoop
    /\ dialog # NoDialog
    /\ Answerable
    /\ Becomes(AddElement(Manager, dialog.widget, dialog.id))
    /\ dialog' = NoDialog
    /\ UNCHANGED <<life, graphs, adopted, wired, timer, load, fault>>

AnswerTooLate ==
    /\ EventLoop
    /\ dialog # NoDialog
    /\ ~Answerable
    /\ fault' = "use after free"
    /\ UNCHANGED <<manager, life, graphs, adopted, wired, timer, dialog, load>>

\* RemoveConnection; it leaves pressed() of a button connected.
RemoveConnection(w) ==
    /\ Idle
    /\ life[w] = "open"
    /\ Becomes(DeleteEntry(Manager, NameOf[w]))
    /\ UNCHANGED <<life, graphs, adopted, wired, timer, dialog, load, fault>>

\* pressed() of a wired button: StartTimeOut.
Press(b) ==
    /\ Idle
    /\ life[b] = "open" /\ b \in wired
    /\ timer' = timer \cup {b}
    /\ UNCHANGED <<manager, life, graphs, adopted, wired, dialog, load, fault>>

\* TimeOut of a released button: with a mapper, its value decides whether the
\* timer is started again.
TimeOut(b) ==
    LET m == GetContainerOf(Manager, NameOf[b])
    IN  /\ EventLoop
        /\ b \in timer
        /\ Becomes(m)
        /\ \/ timer' = timer \ {b}
           \/ m.mapper[m.binding[NameOf[b]]] = "mapper" /\ UNCHANGED timer
        /\ UNCHANGED <<life, graphs, adopted, wired, dialog, load, fault>>

-----------------------------------------------------------------------------
(* Plots.                                                                  *)

Drawn == Cardinality({d \in Plots \X (1..MaxDrops) : d[2] \in DOMAIN graphs[d[1]]})

\* bound: graphs of one plot, and its entries for one id
RoomFor(p, id) == Len(graphs[p]) < MaxGraphs /\ Count(objects[id], p) < MaxGraphs

\* AddCustomGraph
DropOnPlot(p, id) ==
    /\ CanDrop(p, id)
    /\ Drawn < MaxDrops /\ RoomFor(p, id)
    /\ Becomes(AddElement(Manager, p, id))
    /\ graphs' = [graphs EXCEPT ![p] = Append(@, id)]
    /\ UNCHANGED <<life, adopted, wired, timer, dialog, load, fault>>

\* The loop of removeSelectedGraph indexes a list that shrinks with every
\* graph it removes: every second selected graph stays.
Reached(selected) ==
    {i \in selected : Cardinality({j \in selected : j < i}) % 2 = 0}

Indices(p) == [i \in DOMAIN graphs[p] |-> i]

\* The graphs that stay, and the erasing call for each of the others.
KeptGraphs(p, removed) ==
    LET Keep(kept, i) == IF i \in removed THEN kept ELSE Append(kept, graphs[p][i])
    IN  FoldLeft(Keep, <<>>, Indices(p))

DeleteRemoved(m, p, removed) ==
    LET Delete(n, i) == IF i \in removed
                        THEN DeleteEntryIn(n, graphs[p][i], NameOf[p]) ELSE n
    IN  FoldLeft(Delete, m, Indices(p))

RemoveGraphs(p, removed) ==
    /\ Becomes(DeleteRemoved(Manager, p, removed))
    /\ graphs' = [graphs EXCEPT ![p] = KeptGraphs(p, removed)]
    /\ UNCHANGED <<life, adopted, wired, timer, dialog, load, fault>>

RemoveSelectedGraph(p) ==
    /\ Idle
    /\ life[p] = "open"
    /\ \E selected \in SUBSET DOMAIN graphs[p] : RemoveGraphs(p, Reached(selected))

RemoveAllGraphs(p) ==
    /\ Idle
    /\ life[p] = "open"
    /\ RemoveGraphs(p, DOMAIN graphs[p])

-----------------------------------------------------------------------------
(* Experiments.                                                            *)

\* The writer visits every mapper of the map without looking for null; a save
\* that meets none changes nothing here.
SaveExperiment ==
    /\ Idle
    /\ \E id \in AllIds : mapper[id] = "null"
    /\ fault' = "null mapper"
    /\ UNCHANGED <<manager, life, graphs, adopted, wired, timer, dialog, load>>

SameWindow(v, w) == /\ v \in Forms <=> w \in Forms
                    /\ {NameOf[o] : o \in Members(v)} = {NameOf[o] : o \in Members(w)}

\* The project is closed and the file read in one handler: the figures that
\* were open are still dying when the file's connections are made.  Inside
\* another load the close is put off, and the file is read on top of it.
LoadExperiment(file) ==
    /\ Idle
    /\ Len(loads) < MaxLoads
    /\ IF isloading THEN UNCHANGED <<manager, life, graphs, adopted, wired, timer, fault>>
                    ELSE CloseEverything
    /\ loads' = <<[windows |-> file.windows, connections |-> file.connections,
                   held |-> {o \in Objects : life'[o] = "dying"}]>> \o loads
    /\ isloading' = TRUE
    /\ pumping' = FALSE
    /\ UNCHANGED dialog

\* Control is in the reader: no drop below it waits for an answer.
Reading == fault = "none" /\ loads # <<>> /\ dialog = NoDialog
File == Head(loads)
Continue(file) == loads' = <<file>> \o Tail(loads)

\* A form that is missing or corrupt is reported and passed over.
LoadWindow ==
    /\ Reading /\ File.windows # <<>>
    /\ \/ /\ Head(File.windows) \in Forms
          /\ pumping' = FALSE
          /\ UNCHANGED life
       \/ \E v \in Windows :
             /\ SameWindow(v, Head(File.windows))
             /\ CanCreate(v)
             /\ Relive(Members(v), "open")
             /\ pumping' = (v \in Forms)
    /\ Continue([File EXCEPT !.windows = Tail(@)])
    /\ UNCHANGED <<manager, graphs, adopted, wired, timer, dialog, isloading, fault>>

Connecting == Reading /\ File.windows = <<>> /\ File.connections # <<>>

\* CreateConnection, element ID: an id without a mapper is published, from the
\* device's symbol or from the type the file recorded.
LoadId ==
    /\ Connecting
    /\ mapper[Head(File.connections).id] # "mapper"
    /\ Becomes(AddContainer(Manager, Head(File.connections).id))
    /\ pumping' = FALSE
    /\ UNCHANGED <<life, graphs, adopted, wired, timer, dialog, loads, isloading, fault>>

\* MW->findChild(name) returns the oldest child of that name: a window that is
\* still dying comes before its successor.
FindChild(name) ==
    LET found == {o \in Objects : NameOf[o] = name /\ life[o] # "gone"}
        dying == {o \in found : life[o] = "dying"}
    IN  IF dying # {} THEN dying ELSE found

\* Element ObjectName: AddElementToContainerEntry and ConnectToID, which adds
\* the graph in a plot.
LoadConnection ==
    LET c == Head(File.connections)
    IN  /\ Connecting
        /\ mapper[c.id] = "mapper"
        /\ \/ FindChild(c.name) = {} /\ UNCHANGED <<manager, graphs, adopted>>
           \/ \E o \in FindChild(c.name) :
                 /\ o \in Plots => RoomFor(o, c.id)
                 /\ Becomes(AddElement(Manager, o, c.id))
                 /\ graphs' = IF o \in Plots THEN [graphs EXCEPT ![o] = Append(@, c.id)]
                              ELSE graphs
                 /\ adopted' = IF life[o] = "dying" THEN adopted \cup {c.name}
                               ELSE adopted
        /\ pumping' = FALSE
        /\ Continue([File EXCEPT !.connections = Tail(@)])
        /\ UNCHANGED <<life, wired, timer, dialog, isloading, fault>>

\* The end of the file, or the first element that cannot be read: what was
\* loaded stays.  An outer load goes on, with isloading reset under it.
EndLoad ==
    /\ Reading
    /\ loads' = Tail(loads)
    /\ pumping' = (Tail(loads) # <<>>)
    /\ isloading' = FALSE
    /\ UNCHANGED <<manager, life, graphs, adopted, wired, timer, dialog, fault>>

-----------------------------------------------------------------------------
\* A crashed process stays as it is.
Crashed == fault # "none" /\ UNCHANGED vars

PluginStep == \E id \in Ids : Publish(id) \/ SetData(id)
WindowStep == \/ \E w \in Windows : Create(w)
              \/ \E f \in Figures : CloseFigure(f) \/ DeleteFigure(f)
              \/ \E f \in Forms : CloseForm(f)
              \/ CloseProject
WidgetStep == \/ \E w \in Widgets, id \in Ids : Drop(w, id) \/ DropAndAsk(w, id)
              \/ \E w \in Widgets : RemoveConnection(w)
              \/ \E b \in Buttons : Press(b) \/ TimeOut(b)
              \/ Answer \/ AnswerTooLate
PlotStep == \/ \E p \in Plots, id \in Ids : DropOnPlot(p, id)
            \/ \E p \in Plots : RemoveSelectedGraph(p) \/ RemoveAllGraphs(p)
ExperimentStep == \/ SaveExperiment
                  \/ \E file \in Experiments : LoadExperiment(file)
                  \/ LoadWindow \/ LoadId \/ LoadConnection \/ EndLoad

Next == \/ PluginStep \/ WindowStep \/ WidgetStep \/ PlotStep
        \/ ExperimentStep \/ Crashed

Spec == Init /\ [][Next]_vars

-----------------------------------------------------------------------------
(* Properties.                                                             *)

\* What Bindings sees: the ids with a mapper, the binding through the empty id
\* as none, and how often each object or id occurs in the vectors.
Stored == {id \in Ids : mapper[id] = "mapper"}
Bound == [n \in Names |-> IF binding[n] = NoId THEN None ELSE binding[n]]
Entries == [id \in Ids |-> [o \in Objects |-> Count(objects[id], o)]]
Drawings == [p \in Plots |-> [id \in Ids |-> Count(graphs[p], id)]]

B == INSTANCE Bindings WITH
        stored <- Stored, binding <- Bound, entries <- Entries, graphs <- Drawings

\* The code implements what Bindings promises: in particular the erase loop,
\* which skips the element after each one it erases, still removes a widget's
\* only entry, and ClearAllGraphs still removes all of a plot's.
ImplementsBindings == B!Spec

\* While a drop waits for its answer and its widget still exists, the id it
\* is about to be registered with keeps a mapper: AddElementToContainerEntry,
\* which does not look, dereferences one.
AnswerFindsMapper ==
    dialog # NoDialog /\ life[dialog.widget] = "open" => mapper[dialog.id] = "mapper"

\* The process follows a dangling pointer only after a load has connected a
\* plot of the previous project.
DanglingNeedsAdoption == fault = "dangling pointer" => adopted # {}

\* "makes an unbound QPushButtonD::TimeOut a safe no-op"
\* (docs/modernization/PLAN.md:392).
UnboundTimeOutIsNoOp ==
    [][\A b \in Buttons : TimeOut(b) /\ binding[NameOf[b]] = None
                          => UNCHANGED manager]_vars

\* "Published vector creates a named graph; [...] Messenger set reach graph
\* data" (docs/modernization/PLOT_CONTRACTS_3J.md:20): a plot is called back
\* for every id it draws.
GraphsAreUpdated ==
    \A p \in Plots : life[p] = "open" =>
        \A i \in DOMAIN graphs[p] : p \in ToSet(objects[graphs[p][i]])
=============================================================================
