----------------------------- MODULE MCBindings -----------------------------
(***************************************************************************)
(* Instances for TLC of Bindings and, side by side, of what a plot that is *)
(* subscribed makes of the data (PlotData): each behaviour is one of the   *)
(* one that part names.                                                    *)
(*                                                                         *)
(* Bindings: two widgets share a name, like two cells of a table whose     *)
(* names repeat after a row was removed, and two plots do, the plot of a   *)
(* closed figure and that of its successor.                                *)
(***************************************************************************)
EXTENDS Bindings

CONSTANTS Sources, Bases, Samples, PlotGraphs, MaxData, MaxSteps

MCNameOf == [o \in Objects |-> IF o \in Widgets THEN "cell" ELSE "Plot#1"]
MCSources == <<"a", "b">>
MCSamples == [b \in Bases |-> IF b = "one" THEN 1 ELSE 2]

VARIABLES part, plot, data, bound, quiet, due, file, steps, saved, odd

D == INSTANCE PlotData WITH MaxGraphs <- PlotGraphs

ASSUME Assumptions == D!PlotDataAssumption

dataVars == <<plot, data, bound, quiet, due, file, steps, saved, odd>>
mcVars == <<part, vars, dataVars>>

MCInit == part \in {"bindings", "data"} /\ Init /\ D!Init

BindingsNext == part = "bindings" /\ Next /\ UNCHANGED <<part, dataVars>>

InPlot(Act) == part = "data" /\ Act /\ UNCHANGED <<part, vars>>

MCNext == BindingsNext \/ InPlot(D!Next)

\* The fairness of PlotData!Spec: Qt serves the timers that are due.
MCSpec == MCInit /\ [][MCNext]_mcVars /\ WF_mcVars(InPlot(D!Timers))

-----------------------------------------------------------------------------
(* The properties of PlotData.                                             *)

\* When data and user rest, a plot comes to show the newest data.
Settles == D!Settles

\* An XY plot keeps its axis, through removals, saves and loads.
AxisComesBack == D!AxisComesBack
=============================================================================
