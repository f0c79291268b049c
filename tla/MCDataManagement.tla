-------------------------- MODULE MCDataManagement --------------------------
(***************************************************************************)
(* Instances of DataManagement for TLC.                                    *)
(***************************************************************************)
EXTENDS DataManagement, TLC

CONSTANTS i1, i2, slider, led, button, cell1, cell2, p1, p2, p3, form1, form2,
          fig1, fig2

MCNameOf == [o \in Objects |-> CASE o \in {cell1, cell2} -> "cell"
                                 [] o = slider -> "slider"
                                 [] o = led -> "led"
                                 [] o = button -> "button"
                                 [] o = p3 -> "graph"
                                 [] OTHER -> "Plot#1"]

\* MCDataManagement_widgets: a form with a slider and a push button, another
\* with an LED and a table of which two cells share a name; the file connects
\* slider and button.
WidgetsContent == [w \in Windows |-> CASE w = form1 -> <<slider, button>>
                                       [] w = form2 -> <<led, cell1, cell2>>]
WidgetsFiles ==
    {[windows |-> <<form1>>,
      connections |-> <<[id |-> i1, name |-> "slider"], [id |-> i2, name |-> "button"]>>]}

\* MCDataManagement_plots: a figure and the one that replaces it on a reload,
\* and a form with a plot.
PlotsContent == [w \in Windows |-> CASE w = fig1 -> <<p1>> [] w = fig2 -> <<p2>>
                                     [] w = form1 -> <<p3>>]
PlotsFiles ==
    {[windows |-> <<form1, fig1>>,
      connections |-> <<[id |-> i1, name |-> "Plot#1"]>>]}
=============================================================================
