---------------------------- MODULE PlotRegistry ----------------------------
(***************************************************************************)
(* The registry of figure windows and of the plots inside them             *)
(* (DataManagement/DataRegistry.cpp), driven by the operations that use    *)
(* it: opening a figure (MainWindowFigureFactory::Create), closing one     *)
(* (SubPlotMainWindow::closeEvent and PlotWidget::ClearAllGraphs), saving  *)
(* the experiment and loading it back (the FigureWindows element of        *)
(* xmlexperimentwriter.cpp and xmlexperimentreader.cpp).                   *)
(*                                                                         *)
(* A plot is called "Plot#k" and a figure "Figure#k".  The model keeps     *)
(* the number only: plot name k stands for the objectName "Plot#" (k+1),   *)
(* figure name k for "Figure#" k, which is how the code derives the one    *)
(* from the other (MainWindowFigureFactory.cpp:22,32).                     *)
(***************************************************************************)
EXTENDS Naturals, Sequences, SequencesExt, FiniteSets

CONSTANTS
    PlotIds,        \* the plot objects that may be open at one time
    MaxFigures,     \* bound: figures open at one time
    MaxPlots        \* bound: plots of one figure (rows * columns)

BoundsAssumption == MaxFigures \in Nat /\ MaxPlots \in Nat /\ IsFiniteSet(PlotIds)

VARIABLES
    figures,    \* the open figures, in the order they were created: the
                \* children of the main window; [name, plots]
    plotName,   \* plot object |-> number of its objectName, open plots only
    registry,   \* PlotObjects, PlotObjectsNumber, PlotObjectsNumbers
    windows,    \* PlotWindowNumber and PlotWindowNumbers
    file        \* the saved FigureWindows element

vars == <<figures, plotName, registry, windows, file>>

\* A partial function without, or with, one key.
Without(f, k) == [x \in DOMAIN f \ {k} |-> f[x]]
With(f, k, v) == [x \in DOMAIN f \cup {k} |-> IF x = k THEN v ELSE f[x]]

EmptyMap == [x \in {} |-> x]

-----------------------------------------------------------------------------
(* DataRegistry: numbering.                                                *)

\* The number vectors are sorted after every insertion.
SortedInsert(numbers, n) ==
    LET at == Cardinality({i \in DOMAIN numbers : numbers[i] <= n})
    IN  InsertAt(numbers, at + 1, n)

\* The number of plots as the next number: wrong once a plot was closed.
MutUniqueNumber(numbers) == Len(numbers)

\* The loop keeps the last number before the first gap.
UniqueNumber(numbers) ==
    IF numbers = <<>> \/ numbers[1] # 0
    THEN 0
    ELSE LET gaps == {i \in 2..Len(numbers) : numbers[i] - numbers[i-1] > 1}
             stop == IF gaps = {} THEN Len(numbers) + 1
                     ELSE CHOOSE i \in gaps : \A j \in gaps : i <= j
         IN  numbers[stop - 1] + 1

\* GetPlotWindowsIncrementer repeats the same loop over PlotWindowNumbers.
WindowsIncrementer(numbers) == UniqueNumber(numbers)

(* DataRegistry: the plot pointers, keyed by objectName.                   *)

NoPlots == [pointer |-> EmptyMap, number |-> EmptyMap, numbers |-> <<>>]

AddPlotPointer(r, name, plot, number) ==
    [pointer |-> With(r.pointer, name, plot),
     number  |-> With(r.number, name, number),
     numbers |-> SortedInsert(r.numbers, number)]

DeletePlotPointer(r, name) ==
    [pointer |-> Without(r.pointer, name),
     number  |-> Without(r.number, name),
     numbers |-> IF name \in DOMAIN r.number
                 THEN RemoveFirst(r.numbers, r.number[name])
                 ELSE r.numbers]

\* The number of the old name is not sorted into the numbers again, but
\* appended.
MutRenamePlotPointer(r, oldName, newName) ==
    IF oldName \notin DOMAIN r.pointer THEN r
    ELSE LET moved == r.pointer[oldName]
             rest  == DeletePlotPointer(r, oldName)
         IN  [pointer |-> With(rest.pointer, newName, moved),
              number  |-> With(rest.number, newName, newName),
              numbers |-> Append(rest.numbers, newName)]

\* The plot is looked up by its *old name*: what moves to the new name is
\* whatever object the registry holds under the old one.
RenamePlotPointer(r, oldName, newName) ==
    IF oldName \notin DOMAIN r.pointer THEN r
    ELSE LET moved == r.pointer[oldName]
             rest  == DeletePlotPointer(r, oldName)
         IN  IF oldName \in DOMAIN r.number
             THEN AddPlotPointer(rest, newName, moved, newName)
             ELSE [rest EXCEPT !.pointer = With(@, newName, moved)]

-----------------------------------------------------------------------------
(* Operations.  A world is the record of the four live variables, so that  *)
(* an operation made of several calls is their composition.                *)

World == [figures |-> figures, plotName |-> plotName,
          registry |-> registry, windows |-> windows]

Become(w) == /\ figures' = w.figures
             /\ plotName' = w.plotName
             /\ registry' = w.registry
             /\ windows' = w.windows

Fresh(w, n) == CHOOSE s \in [1..n -> PlotIds \ DOMAIN w.plotName] : IsInjective(s)

HasRoom(n) == /\ Len(figures) < MaxFigures
              /\ Cardinality(PlotIds \ DOMAIN plotName) >= n

\* MainWindowFigureFactory::Create, one plot: the smallest free number gives
\* the name, and the plot is registered under it.
CreatePlot(w, plot) ==
    LET number == UniqueNumber(w.registry.numbers)
    IN  [w EXCEPT !.plotName = With(@, plot, number),
                  !.registry = AddPlotPointer(@, number, plot, number)]

CreateFigure(w, n) ==
    LET plots  == Fresh(w, n)
        placed == FoldLeft(CreatePlot, w, plots)
        number == WindowsIncrementer(w.windows)
    IN  [placed EXCEPT !.figures = Append(@, [name |-> number, plots |-> plots]),
                       !.windows = SortedInsert(@, number)]

\* closeEvent: DeleteFigure, then ClearAllGraphs of every plot.
CloseFigure(w, i) ==
    LET figure == w.figures[i]
        gone   == ToSet(figure.plots)
        Unregister(r, plot) == DeletePlotPointer(r, w.plotName[plot])
    IN  [figures  |-> RemoveAt(w.figures, i),
         plotName |-> [p \in DOMAIN w.plotName \ gone |-> w.plotName[p]],
         registry |-> FoldLeft(Unregister, w.registry, figure.plots),
         windows  |-> RemoveFirst(w.windows, figure.name)]

\* CreateFigureWindow, one PlotWidgetName: the registry entry is renamed,
\* then the plot itself.
RenamePlot(w, plot, newName) ==
    [w EXCEPT !.registry = RenamePlotPointer(@, w.plotName[plot], newName),
              !.plotName = With(@, plot, newName)]

ReadFigure(w, names) ==
    LET created == CreateFigure(w, Len(names))
        plots   == Last(created.figures).plots
        Rename(v, k) == RenamePlot(v, plots[k], names[k])
    IN  FoldLeft(Rename, created, [k \in DOMAIN names |-> k])

EmptyWorld == [figures |-> <<>>, plotName |-> EmptyMap,
               registry |-> NoPlots, windows |-> <<>>]

\* writeFigureWindows: the plot names of each figure, in creation order.
Saved == [i \in DOMAIN figures |->
            [k \in DOMAIN figures[i].plots |-> plotName[figures[i].plots[k]]]]

-----------------------------------------------------------------------------
Init == /\ figures = EmptyWorld.figures
        /\ plotName = EmptyWorld.plotName
        /\ registry = EmptyWorld.registry
        /\ windows = EmptyWorld.windows
        /\ file = <<>>

OpenFigure(n) == /\ HasRoom(n)
                 /\ Become(CreateFigure(World, n))
                 /\ UNCHANGED file

Close(i) == /\ Become(CloseFigure(World, i))
            /\ UNCHANGED file

SaveExperiment == /\ file' = Saved
                  /\ UNCHANGED <<figures, plotName, registry, windows>>

\* DataRegistry::Clear after every figure was closed.
CloseProject == /\ Become(EmptyWorld)
                /\ UNCHANGED file

\* MainWindowProjectActions::LoadExperiment closes the project, then reads
\* the file, all in one event handler.
LoadExperiment == /\ Become(FoldLeft(ReadFigure, EmptyWorld, file))
                  /\ UNCHANGED file

Next == \/ \E n \in 1..MaxPlots : OpenFigure(n)
        \/ \E i \in DOMAIN figures : Close(i)
        \/ SaveExperiment
        \/ CloseProject
        \/ LoadExperiment

Spec == Init /\ [][Next]_vars

-----------------------------------------------------------------------------
(* Properties.                                                             *)

Plots == DOMAIN plotName

\* Every variable has its type; the number vectors are sorted, as the search
\* for a gap in them requires.
TypeOK ==
    /\ \A i \in DOMAIN figures : ToSet(figures[i].plots) \subseteq Plots
    /\ Plots \subseteq PlotIds
    /\ \A p \in Plots : plotName[p] \in Nat
    /\ DOMAIN registry.number \subseteq DOMAIN registry.pointer
    /\ \A numbers \in {registry.numbers, windows} :
          \A i, j \in DOMAIN numbers : i < j => numbers[i] <= numbers[j]

\* Two open plots never have one name, whatever was closed, saved and loaded
\* in between: bindings, and the connections of a saved experiment, tell plots
\* apart by their name alone.  Nor do two figures, which DeletePlotWindow
\* tells apart by theirs.
NamesDistinct ==
    /\ \A p, q \in Plots : plotName[p] = plotName[q] => p = q
    /\ \A i, j \in DOMAIN figures : figures[i].name = figures[j].name => i = j

\* And the registry points to open plots only, even when renames have moved an
\* entry to a name that is not the plot's: GetPlotByName dereferences each.
PlotsAreKnown ==
    /\ NamesDistinct
    /\ \A k \in DOMAIN registry.pointer : registry.pointer[k] \in Plots

\* "creates two plots and preserves their parent/registry mapping, geometry
\* and requested names" (docs/modernization/XML_CONTRACTS_3B.md:32): the
\* registry finds every open plot under its name.
Registered == \A p \in Plots : /\ plotName[p] \in DOMAIN registry.pointer
                               /\ registry.pointer[plotName[p]] = p
=============================================================================
