---------------------------- MODULE MCComponents ----------------------------
(***************************************************************************)
(* Instances for TLC of the components that share no state: each behaviour *)
(* is one of the component named by part; the others stay where they       *)
(* start.  The MATLAB client is the module that is extended: two ids, one  *)
(* a part of the other, and a pattern that both match.                     *)
(***************************************************************************)
EXTENDS Connector, TLC

CONSTANTS
    Forms, Groups, Widgets, FormOf, Grids, GridColumns, Start, MaxMoves,
    PlotIds, MaxFigures, MaxPlots,
    Chars, Star, MaxValue, MaxPattern,
    Channels, Roots, Contents, Huge, Blank, Names

MCIds == <<"A", "AB">>
\* A is a part of AB.
MCMatching == "A" :> {"A", "AB"} @@ "AB" :> {"AB"} @@ "*" :> {"A", "AB"}

\* A form f: a row of a, the group g, which is a grid of two cells with b, and
\* c; and a form h: a row of x and y.
MCForms == <<"f", "h">>
MCFormOf == [w \in Widgets |-> IF w \in {"x", "y"} THEN "h" ELSE "f"]
MCStart == LET It(w, cell, span) == [w |-> w, cell |-> cell, span |-> span]
           IN  [o \in {"f", "g", "h"} |->
                   CASE o = "f" -> <<It("a", 0, 1), It("g", 0, 1), It("c", 0, 1)>>
                     [] o = "g" -> <<It("b", 1, 2)>>
                     [] o = "h" -> <<It("x", 0, 1), It("y", 0, 1)>>]

MCChannels == <<<<"r", "p">>, <<"r", "q">>, <<"p">>, <<"q">>>>
MCNames == {<<"name">>}

VARIABLE part

VARIABLES items, children, mark, undo, dirty, file, before, drift, moves, stray
L == INSTANCE LayoutEdit WITH Columns <- GridColumns

VARIABLES figures, plotName, registry, windows, figureFile
P == INSTANCE PlotRegistry WITH file <- figureFile

VARIABLES value, pattern, valueIndex, patternIndex, starIndex, starValueIndex, pc
W == INSTANCE Wildcard

VARIABLES containers, alias, archive, terminated, kept
A == INSTANCE DataArchive WITH Values <- Contents, ended <- terminated

ASSUME Assumptions == /\ ConnectorAssumption /\ L!LayoutAssumption
                      /\ P!BoundsAssumption /\ W!LengthsAssumption
                      /\ A!ArchiveAssumption

layoutVars == <<items, children, mark, undo, dirty, file, before, drift, moves, stray>>
plotVars == <<figures, plotName, registry, windows, figureFile>>
wildcardVars ==
    <<value, pattern, valueIndex, patternIndex, starIndex, starValueIndex, pc>>
archiveVars == <<containers, alias, archive, terminated, kept>>
mcVars == <<part, connectorVars, layoutVars, plotVars, wildcardVars, archiveVars>>

MCInit == /\ part \in {"connector", "layout", "plots", "wildcard", "archive"}
          /\ Init /\ L!Init /\ P!Init /\ A!Init
          /\ part # "connector" => store = <<>>
          /\ IF part = "wildcard" THEN W!Init
             ELSE /\ value = <<>> /\ pattern = <<"*">>
                  /\ valueIndex = 1 /\ patternIndex = 1
                  /\ starIndex = 0 /\ starValueIndex = 1 /\ pc = "match"

ConnectorNext ==
    /\ part = "connector" /\ Next
    /\ UNCHANGED <<part, layoutVars, plotVars, wildcardVars, archiveVars>>
LayoutNext ==
    /\ part = "layout" /\ L!Next
    /\ UNCHANGED <<part, connectorVars, plotVars, wildcardVars, archiveVars>>
PlotNext ==
    /\ part = "plots" /\ P!Next
    /\ UNCHANGED <<part, connectorVars, layoutVars, wildcardVars, archiveVars>>
WildcardNext ==
    /\ part = "wildcard" /\ W!Next
    /\ UNCHANGED <<part, connectorVars, layoutVars, plotVars, archiveVars>>
ArchiveNext ==
    /\ part = "archive" /\ A!Next
    /\ UNCHANGED <<part, connectorVars, layoutVars, plotVars, wildcardVars>>

MCNext == ConnectorNext \/ LayoutNext \/ PlotNext \/ WildcardNext \/ ArchiveNext

\* The fairness of Wildcard!Spec: the function runs to its end.
MCSpec == MCInit /\ [][MCNext]_mcVars /\ WF_mcVars(WildcardNext)

-----------------------------------------------------------------------------
(* Properties: those of Connector, and of the other modules.               *)

\* The type invariants of the modules that have one.
TypesOK == /\ part = "connector" => TypeOK
           /\ part = "archive" => A!TypeOK
           /\ part = "layout" => L!TypeOK
           /\ part = "plots" => P!TypeOK

\* No widget loses its place in the form or the form's file by a move, an
\* undo or a save, unless a group was moved into itself (UiLayoutEditMode).
WidgetsStay == part = "layout" => L!WidgetsStay

\* After single moves, each saved, the file shows what the screen shows
\* (UiLayoutEditMode::SaveLayout).
OneMoveIsSaved == part = "layout" => L!OneMoveIsSaved

\* Undo brings back the arrangement before the move (UndoLastMove).
UndoRestores == L!UndoRestores

\* Two open plots never have one name, and the registry points to open plots
\* only, whatever was closed and loaded.
PlotsAreKnown == part = "plots" => P!PlotsAreKnown

\* matchesWildcard returns, and it returns true for exactly the ids the pattern
\* matches.
MatcherIsRight == /\ part = "wildcard" => <>W!Returned
                  /\ [](part = "wildcard" => W!ReturnsMatch)

\* An import publishes the channels before the first that cannot be read, and
\* changes nothing else (LabDataArchive::Import).
ImportIsAPrefix == A!ImportIsAPrefix

-----------------------------------------------------------------------------
(* What the code does not keep, for the runs that show it.                 *)

\* "It only moves existing widgets" (UiLayoutEditMode.h:13-14): none of them
\* loses its place on the screen.
OnlyMoves == part = "layout" => L!OnlyMoves
=============================================================================
