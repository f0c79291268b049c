------------------------------ MODULE PlotData ------------------------------
(***************************************************************************)
(* What a plot shows of the containers its graphs are bound to             *)
(* (DropWidgets/Plots/PlotWidget.cpp): graphs over time, their spectra, or *)
(* one graph over another (an XY plot).  Data arrive at any time; the plot *)
(* takes them over by a timer of its own, at rest only and not too often.  *)
(*                                                                         *)
(* A container's two vectors come together and are one datum: its number   *)
(* n and its time base.  Time offset, styles and axis ranges are left out. *)
(***************************************************************************)
EXTENDS Integers, SequencesExt, FiniteSets

CONSTANTS
    Sources,    \* ids of containers with vectors, in the order of the containers
    Bases,      \* time bases
    Samples,    \* time base |-> number of samples
    None,
    MaxGraphs,  \* bound: graphs in the plot
    MaxData,    \* bound: data for one container
    MaxSteps    \* bound: actions of the user

PlotDataAssumption ==
    /\ IsInjective(Sources)
    /\ None \notin Range(Sources) \cup Bases
    /\ Samples \in [Bases -> Nat \ {0}]
    /\ {MaxGraphs, MaxData, MaxSteps} \subseteq Nat

VARIABLES
    plot,   \* [graphs, xy |-> XYPlot(), fft |-> __isFFT, axis |-> ID_X]; a graph
            \* is an [id, x, y, visible, selected, spectrum]
    data,   \* container id |-> its datum
    bound,  \* container id |-> entries of the plot among its Objects
    quiet,  \* timer: 25 ms since the last datum or update
    due,    \* TimeSinceLastPlot: 75 ms since the last try
    file,   \* the plot's part of the saved experiment, or None
    steps,
    \* history
    saved,  \* the plot when it was saved
    odd     \* an XY plot was loaded that had more than two graphs, or two of
            \* one container

plotVars == <<plot, data, bound, quiet, due, file, steps, saved, odd>>

Containers == Range(Sources)
Nothing == [n |-> 0, base |-> None]
Data == {Nothing} \cup [n : 1..MaxData, base : Bases]
Size(d) == IF d = Nothing THEN 0 ELSE Samples[d.base]

EmptyPlot == [graphs |-> <<>>, xy |-> FALSE, fft |-> FALSE, axis |-> None]

-----------------------------------------------------------------------------
(* The plot's functions, of the plot's state.                              *)

Bad(g) == Size(g.x) # Size(g.y) \/ Size(g.x) < 2

Good(graphs, i) == \A j \in 1..i : ~Bad(graphs[j])

\* A mutant: the last graph is left out.
MutCalculateFFT(graphs) ==
    [i \in DOMAIN graphs |->
        IF Good(graphs, i) /\ i < Len(graphs)
        THEN [graphs[i] EXCEPT !.spectrum = <<graphs[i].x, graphs[i].y>>]
        ELSE graphs[i]]

\* It returns at the first graph it cannot transform.
CalculateFFT(graphs) ==
    [i \in DOMAIN graphs |->
        IF Good(graphs, i) THEN [graphs[i] EXCEPT !.spectrum = <<graphs[i].x, graphs[i].y>>]
                           ELSE graphs[i]]

AddCustomGraph(p, id, datum) ==
    LET g == [id |-> id, x |-> datum, y |-> datum,
              visible |-> TRUE, selected |-> FALSE, spectrum |-> None]
        graphs == Append(p.graphs, g)
    IN  [p EXCEPT !.graphs = IF p.fft /\ g.x # Nothing THEN CalculateFFT(graphs) ELSE graphs]

Select(p, chosen) ==
    [p EXCEPT !.graphs = [i \in DOMAIN @ |-> [@[i] EXCEPT !.selected = i \in chosen]]]
Selected(p) == {i \in DOMAIN p.graphs : p.graphs[i].selected}

\* The selected graph, if it is the only one, becomes the others' x axis.
SetAsXAxis(p) ==
    IF Cardinality(Selected(p)) # 1 \/ Len(p.graphs) = 1 THEN p
    ELSE LET s == CHOOSE i \in Selected(p) : TRUE
             x == p.graphs[s].y
             Over(g) == IF x # Nothing /\ Size(x) = Size(g.y) THEN [g EXCEPT !.x = x] ELSE g
         IN  [p EXCEPT !.graphs = [i \in DOMAIN @ |->
                                      IF i = s THEN [@[i] EXCEPT !.visible = FALSE]
                                               ELSE Over(@[i])],
                       !.xy = TRUE, !.axis = p.graphs[s].id]

\* The last graph for which an XY plot finds x data, or y data; 0 if none.
LastOf(indices) == IF indices = {} THEN 0 ELSE CHOOSE i \in indices : \A j \in indices : j <= i
XIndex(p) == LastOf({i \in DOMAIN p.graphs : p.graphs[i].id = p.axis})
YIndex(p) == LastOf({i \in DOMAIN p.graphs : p.graphs[i].id # p.axis})
Datum(p, i) == IF i = 0 THEN Nothing ELSE data[p.graphs[i].id]

\* The two graphs of an XY plot have data at the same times.
Consistent(p) == LET x == Datum(p, XIndex(p))
                     y == Datum(p, YIndex(p))
                 IN  x # Nothing /\ y # Nothing /\ x.base = y.base

Complete(p) == \A i \in DOMAIN p.graphs : Datum(p, i) # Nothing

\* UpdateGraphs after its checks: nothing as long as any graph lacks data.
Updated(p) ==
    LET x == Datum(p, XIndex(p))
        y == Datum(p, YIndex(p))
        taken == [i \in DOMAIN p.graphs |->
                     [p.graphs[i] EXCEPT !.x = Datum(p, i), !.y = Datum(p, i)]]
    IN  CASE ~Complete(p) -> p
          [] Complete(p) /\ p.xy ->
                IF x # Nothing /\ y # Nothing /\ Size(x) = Size(y)
                THEN [p EXCEPT !.graphs[YIndex(p)].x = x, !.graphs[YIndex(p)].y = y]
                ELSE p
          [] OTHER -> [p EXCEPT !.graphs = IF p.fft THEN CalculateFFT(taken) ELSE taken]

WithoutAxis(p) == [p EXCEPT !.xy = FALSE, !.axis = None]

\* The loop asks for the k-th of the selected graphs after it removed k - 1: it
\* removes every other one.
Removed(p) == {i \in Selected(p) : Cardinality({j \in Selected(p) : j < i}) % 2 = 0}
RemoveSelectedGraph(p) ==
    LET kept == SetToSortSeq(DOMAIN p.graphs \ Removed(p), <)
        q == [p EXCEPT !.graphs = [k \in DOMAIN kept |-> p.graphs[kept[k]]]]
    IN  IF Selected(q) = {} THEN WithoutAxis(q) ELSE q

\* A mutant: the axis is the graph that was there first.
MutSavedAxis(p) == IF ~p.xy \/ Len(p.graphs) < 2 THEN None ELSE p.graphs[1].id

\* SaveToXML: the axis of two graphs is the one that is not shown.
SavedAxis(p) == IF ~p.xy \/ Len(p.graphs) < 2 THEN None
                ELSE IF p.graphs[1].visible THEN p.graphs[2].id ELSE p.graphs[1].id

\* After a load: the container has no data yet.
ConnectToID(p, id) ==
    LET q == AddCustomGraph(p, id, Nothing)
    IN  IF q.xy /\ Len(q.graphs) = 2
        THEN SetAsXAxis(Select(q, {i \in 1..2 : q.graphs[i].id = q.axis}))
        ELSE q
\* DeleteEntryOfObject, once for each of the graphs, takes every other entry of
\* the plot from the container's Objects.
Unregistered(graphs) ==
    [id \in Containers |-> bound[id] \div 2 ^ Cardinality({i \in graphs : plot.graphs[i].id = id})]

-----------------------------------------------------------------------------
Init == /\ plot = EmptyPlot /\ saved = EmptyPlot
        /\ data = [id \in Containers |-> Nothing]
        /\ bound = [id \in Containers |-> 0]
        /\ quiet = FALSE /\ due = FALSE
        /\ file = None /\ steps = 0 /\ odd = FALSE

\* The messenger sets a container, and tells the plot (SetVariantData).
Receive(id, base) ==
    /\ data[id].n < MaxData  \* bound
    /\ data' = [data EXCEPT ![id] = [n |-> @.n + 1, base |-> base]]
    /\ quiet' = (quiet /\ bound[id] = 0)
    /\ UNCHANGED <<plot, bound, due, file, steps, saved, odd>>

Rest == /\ ~quiet /\ quiet' = TRUE
        /\ UNCHANGED <<plot, data, bound, due, file, steps, saved, odd>>

Wait == /\ ~due /\ due' = TRUE
        /\ UNCHANGED <<plot, data, bound, quiet, file, steps, saved, odd>>

\* UpdateTimer calls UpdateGraphs.
Tick == /\ quiet /\ due
        /\ due' = FALSE
        /\ IF plot.xy => Consistent(plot) THEN plot' = Updated(plot) /\ quiet' = ~Complete(plot)
                         ELSE UNCHANGED <<plot, quiet>>
        /\ UNCHANGED <<data, bound, file, steps, saved, odd>>

\* An action of the user.
Step == steps < MaxSteps /\ steps' = steps + 1  \* bound

\* Items of the explorer's tree, selected in any order.
Selections == UNION {{ids \in [1..n -> Containers] : IsInjective(ids)} :
                         n \in 1..Cardinality(Containers)}

\* The plot becomes p, and then UpdateGraphs is forced.
Forced(p) == plot' = Updated(p) /\ quiet' = (quiet /\ ~Complete(p))

\* Two graphs of different containers, of which one is the axis.
Pair(p) == /\ Len(p.graphs) = 2
           /\ p.graphs[1].id # p.graphs[2].id
           /\ \E i \in 1..2 : p.graphs[i].id = p.axis

\* Containers are dropped on the plot (dropEvent); with shift the second graph
\* becomes the axis.
Drop(ids, shift) ==
    /\ Step /\ ~plot.xy
    /\ Len(plot.graphs) + Len(ids) <= MaxGraphs  \* bound
    /\ LET Dropped(p, id) ==
               LET q == AddCustomGraph(p, id, data[id])
               IN  IF shift /\ Len(q.graphs) = 2 /\ ~q.fft
                   THEN SetAsXAxis(Select(q, {2})) ELSE q
       IN  Forced(FoldLeft(Dropped, plot, ids))
    /\ bound' = [id \in Containers |-> IF id \in Range(ids) THEN bound[id] + 1 ELSE bound[id]]
    /\ UNCHANGED <<data, due, file, saved, odd>>

\* A click on a graph, on its entry in the legend, or beside them (i = 0).
Click(i) ==
    /\ Step
    /\ plot.xy /\ i > 0 => plot.graphs[i].visible
    /\ plot' = Select(plot, {i})
    /\ UNCHANGED <<data, bound, quiet, due, file, saved, odd>>

SetAxis == /\ Step /\ Len(plot.graphs) = 2 /\ ~plot.fft
           /\ plot' = SetAsXAxis(plot)
           /\ UNCHANGED <<data, bound, quiet, due, file, saved, odd>>

\* ToggleTimeFreq, by the tool button in an XY plot too.
ToggleTimeFreq ==
    /\ Step
    /\ plot' = [plot EXCEPT !.fft = ~@,
                            !.graphs = IF plot.fft THEN @ ELSE CalculateFFT(@)]
    /\ UNCHANGED <<data, bound, quiet, due, file, saved, odd>>

RemoveSelected ==
    /\ Step /\ Selected(plot) # {}
    /\ plot' = RemoveSelectedGraph(plot)
    /\ bound' = Unregistered(Removed(plot))
    /\ UNCHANGED <<data, quiet, due, file, saved, odd>>

RemoveAll == /\ Step /\ plot.graphs # <<>>
             /\ plot' = WithoutAxis([plot EXCEPT !.graphs = <<>>])
             /\ bound' = Unregistered(DOMAIN plot.graphs)
             /\ UNCHANGED <<data, quiet, due, file, saved, odd>>

UpdateData == /\ Step
              /\ Forced(plot)
              /\ UNCHANGED <<data, bound, due, file, saved, odd>>

Save == /\ Step
        /\ file' = [xy |-> plot.xy, fft |-> plot.fft, axis |-> SavedAxis(plot), bound |-> bound]
        /\ saved' = plot
        /\ UNCHANGED <<plot, data, bound, quiet, due, odd>>

\* The experiment is loaded: new containers without data, and a new plot that
\* is connected to them one by one.
Load == /\ Step /\ file # None
        /\ data' = [id \in Containers |-> Nothing]
        /\ bound' = file.bound
        /\ plot' = LET entries == FlattenSeq([k \in DOMAIN Sources |->
                                      [e \in 1..file.bound[Sources[k]] |-> Sources[k]]])
                   IN  FoldLeft(ConnectToID, [graphs |-> <<>>, xy |-> file.xy,
                                            fft |-> file.fft, axis |-> file.axis], entries)
        /\ quiet' = FALSE /\ due' = FALSE
        /\ odd' = (odd \/ (saved.xy /\ ~Pair(saved)))
        /\ UNCHANGED <<file, saved>>

UserStep ==
    \/ \E ids \in Selections, shift \in BOOLEAN : Drop(ids, shift)
    \/ \E i \in 0..Len(plot.graphs) : Click(i)
    \/ SetAxis \/ ToggleTimeFreq \/ RemoveSelected \/ RemoveAll \/ UpdateData
    \/ Save \/ Load

Timers == Rest \/ Wait \/ Tick

Next == \/ \E id \in Containers, base \in Bases : Receive(id, base)
        \/ UserStep
        \/ Timers

\* Qt serves the timers that are due, in any order.
Spec == Init /\ [][Next]_plotVars /\ WF_plotVars(Timers)

-----------------------------------------------------------------------------
(* Properties.                                                             *)

Invisible(p) == {p.graphs[i].id : i \in {j \in DOMAIN p.graphs : ~p.graphs[j].visible}}

\* Every graph shows what its container has.
Current(p) == \A i \in DOMAIN p.graphs :
                  LET g == p.graphs[i]
                  IN  /\ g.x = data[g.id] /\ g.y = data[g.id]
                      /\ p.fft /\ Good(p.graphs, i) => g.spectrum = <<g.x, g.y>>

\* When data and user rest, the plot comes to show the newest data: each
\* graph its container's, with its spectrum; the Y graph the one over the
\* other.  But not while some graph has no data, nor with an XY plot whose
\* data are not at the same times or that lost its two graphs.
Settles ==
    <>[] \/ ~Complete(plot)
         \/ plot.xy /\ (Pair(plot) => ~Consistent(plot))
         \/ plot.xy /\ LET y == plot.graphs[YIndex(plot)]
                       IN  y.x = data[plot.axis] /\ y.y = data[y.id]
         \/ ~plot.xy /\ Current(plot)

\* An XY plot has a graph for its axis, which is not shown, whatever was
\* removed, dropped and loaded; unless one was loaded that had more than two
\* graphs or two of one container.
AxisStays == plot.xy /\ ~odd => plot.axis \in Invisible(plot)

\* And an XY plot of two containers comes back with the axis it was saved with,
\* whatever was done before and since (SaveToXML, LoadFromXML, ConnectToID).
AxisComesBack ==
    /\ []AxisStays
    /\ [][Load /\ saved.xy /\ Pair(saved) /\ Invisible(saved) = {saved.axis}
          => plot'.xy /\ plot'.axis = saved.axis /\ Invisible(plot') = {saved.axis}]_plotVars
=============================================================================
