----------------------------- MODULE LayoutEdit -----------------------------
(***************************************************************************)
(* The layout editor of the user's forms (UIFunctions/UiLayoutEditMode):   *)
(* in edit mode a widget is dragged to another place of its form and       *)
(* changes places with the widget it is dropped on; the moves can be       *)
(* undone; saving the experiment writes the changed forms.                 *)
(*                                                                         *)
(* What is saved is not the arrangement but the moves: each moved widget   *)
(* is marked with its new cell of a grid, or with the widget that follows  *)
(* it in a row or column of widgets, and the marks are applied to the      *)
(* form's file one after the other.                                        *)
(***************************************************************************)
EXTENDS Naturals, Sequences, SequencesExt, FiniteSets

CONSTANTS
    Forms,      \* a sequence, in the order of their registration
    Groups,     \* widgets with a layout of their own
    Widgets,    \* the widgets of the forms, groups included
    FormOf,     \* widget |-> form
    Grids,      \* the forms and groups whose layout is a grid of Columns cells
    Columns,    \*  in one row; the others are boxes
    Start,      \* form or group |-> its items in the file
    None,
    MaxMoves    \* bound: moves

FormSet == {Forms[i] : i \in DOMAIN Forms}
Owners == FormSet \cup Groups
Item(w, cell, span) == [w |-> w, cell |-> cell, span |-> span]
Items == {Item(w, cell, span) : w \in Widgets, cell \in 0..Columns, span \in 1..Columns}

\* The group of a form, one at most, is an item of the form's layout.
LayoutAssumption ==
    /\ Groups \subseteq Widgets
    /\ FormOf \in [Widgets -> FormSet]
    /\ \A g, h \in Groups : FormOf[g] = FormOf[h] => g = h
    /\ Start \in [Owners -> Seq(Items)]
    /\ Columns \in Nat \ {0}

VARIABLES
    items,      \* form or group |-> the items of its layout on the screen
    children,   \* form or group |-> its child widgets, in QObject's order
    mark,       \* widget |-> its properties LabAnalyserLayout*, or NoMark
    undo,       \* undoHistory: sequences of [owner, items]
    dirty,      \* Form::dirty
    file,       \* form or group |-> the items of its layout in the form's file
    \* history
    before,     \* the arrangements the entries of undo were captured from
    drift,      \* form |-> 0: the file shows the screen; 1: there was one plain
                \* move since; 2: more than that
    moves,      \* how many there have been
    stray       \* forms in which a group was added to its own layout

layoutVars == <<items, children, mark, undo, dirty, file, before, drift, moves, stray>>

RootOf(o) == IF o \in FormSet THEN o ELSE FormOf[o]
LayoutsOf(f) == {o \in Owners : RootOf(o) = f}
NamesIn(seq) == {seq[i].w : i \in DOMAIN seq}
Drop(seq, S) == SelectSeq(seq, LAMBDA it : it.w \notin S)
IndexOf(seq, w) == CHOOSE i \in DOMAIN seq : seq[i].w = w
WidgetAt(seq, i) == IF i \in DOMAIN seq THEN seq[i].w ELSE None

NoMark == [parent |-> None, grid |-> FALSE, cell |-> 0, span |-> 1, next |-> None]
\* Every widget is appended.
MutBoxMark(o, next) == [NoMark EXCEPT !.parent = o]

GridMark(o, cell, span) == [NoMark EXCEPT !.parent = o, !.grid = TRUE, !.cell = cell, !.span = span]
BoxMark(o, next) == [NoMark EXCEPT !.parent = o, !.next = next]

\* QLayout refuses to add the widget it belongs to.
Put(o, seq, at, it) == IF it.w = o THEN seq ELSE InsertAt(seq, at, it)
PutLast(o, seq, it) == Put(o, seq, Len(seq) + 1, it)

ChildrenIn(seq) == [i \in DOMAIN seq |-> seq[i].w]

Init == /\ items = Start /\ file = Start
        /\ children = [o \in Owners |-> ChildrenIn(Start[o])]
        /\ mark = [w \in Widgets |-> NoMark]
        /\ undo = <<>> /\ before = <<>>
        /\ dirty = [f \in FormSet |-> FALSE]
        /\ drift = [f \in FormSet |-> 0]
        /\ moves = 0 /\ stray = {}

-----------------------------------------------------------------------------
(* Moving a widget.                                                        *)

\* A widget that is put into another layout becomes the last child there.
Adopted(new) ==
    [o \in Owners |->
        LET came == {w \in NamesIn(new[o]) : ~Contains(children[o], w)}
            gone == {w \in ToSet(children[o]) : \E p \in Owners \ {o} : w \in NamesIn(new[p])}
        IN  SelectSeq(children[o], LAMBDA w : w \notin gone)
            \o SelectSeq(ChildrenIn(new[o]), LAMBDA w : w \in came)]

\* A widget that is displaced from a box is not put back.
MutDisplaced(s, at, it, rest) == IF s \in Grids THEN PutLast(s, rest, it) ELSE rest

\* The widget that a moved one displaces goes where that one came from: into
\* its cell, or to its index in a box.
Displaced(s, at, it, rest) ==
    IF s \in Grids THEN PutLast(s, rest, it)
    ELSE Put(s, rest, at, Item(it.w, 0, 1))
DisplacedMark(s, at, it, new) ==
    IF s \in Grids THEN GridMark(s, it.cell, it.span) ELSE BoxMark(s, WidgetAt(new, at + 1))

\* A move from s to t: exact, if the mark says where the widget went; self, if
\* a group was added to its own layout.
Moved(s, t, new, marks, exact, self) ==
    /\ items' = new
    /\ children' = Adopted(new)
    /\ mark' = marks
    /\ undo' = Append(undo, IF s = t THEN <<[owner |-> s, items |-> items[s]]>>
                            ELSE <<[owner |-> s, items |-> items[s]],
                                   [owner |-> t, items |-> items[t]]>>)
    /\ before' = Append(before, items)
    /\ dirty' = [dirty EXCEPT ![RootOf(s)] = TRUE]
    /\ drift' = [drift EXCEPT ![RootOf(s)] = IF @ = 0 /\ exact THEN 1 ELSE 2]
    /\ stray' = IF self THEN stray \cup {RootOf(s)} ELSE stray
    /\ moves' = moves + 1
    /\ UNCHANGED file

\* MoveInGrid: to the cell under the mouse, or the nearest one.
MoveInGrid(s, t, w, cell) ==
    LET at == IndexOf(items[s], w)
        old == items[s][at]
        hits == {i \in DOMAIN items[t] :
                    cell \in items[t][i].cell..(items[t][i].cell + items[t][i].span - 1)}
        first == CHOOSE i \in hits : \A j \in hits : i <= j
        target == items[t][first]
        here == GridMark(t, cell, old.span)
    IN  /\ ~(s = t /\ cell = old.cell)
        /\ IF hits = {} \/ target.w = w
           THEN LET left == [items EXCEPT ![s] = Drop(@, {w})]
                    new == [left EXCEPT ![t] = PutLast(t, @, Item(w, cell, old.span))]
                IN  Moved(s, t, new, [mark EXCEPT ![w] = here], w # t, w = t)
           ELSE LET back == Item(target.w, old.cell, target.span)
                    left == [items EXCEPT ![s] = Drop(@, {w, target.w})]
                    gone == [left EXCEPT ![t] = Drop(@, {target.w})]
                    swap == [gone EXCEPT ![s] = Displaced(s, at, back, @)]
                    new == [swap EXCEPT ![t] = PutLast(t, @, Item(w, target.cell, old.span))]
                    self == w = t \/ target.w = s
                    marks == [mark EXCEPT ![target.w] = DisplacedMark(s, at, back, swap[s]),
                                          ![w] = here]
                IN  Moved(s, t, new, marks, cell = target.cell /\ ~self, self)

\* MoveInBox within one box: in front of the item at index to, or at the end.
MoveWithinBox(s, w, to) ==
    LET at == IndexOf(items[s], w)
        dest == IF to > at THEN to - 1 ELSE to
        new == [items EXCEPT ![s] = InsertAt(Drop(@, {w}), dest, Item(w, 0, 1))]
    IN  /\ dest # at
        /\ Moved(s, s, new, [mark EXCEPT ![w] = BoxMark(s, WidgetAt(new[s], dest + 1))], TRUE, FALSE)

\* MoveInBox from another layout.  A widget that is displaced into a grid gets
\* the cell of the item that has taken the moved one's index, or the first.
MoveIntoBox(s, t, w, to) ==
    LET at == IndexOf(items[s], w)
        rest == Drop(items[s], {w})
        cell == IF s \notin Grids THEN 0 ELSE IF at \in DOMAIN rest THEN rest[at].cell ELSE 1
        span == IF at \in DOMAIN rest THEN rest[at].span ELSE 1
        target == WidgetAt(items[t], to)
        self == w = t \/ target = s
        back == Item(target, cell, span)
        swap == IF target = None THEN rest ELSE Displaced(s, at, back, rest)
        into == Put(t, Drop(items[t], {target}), to, Item(w, 0, 1))
        marks == [mark EXCEPT ![w] = BoxMark(t, WidgetAt(into, to + 1))]
    IN  Moved(s, t, [items EXCEPT ![s] = swap, ![t] = into],
              IF target = None THEN marks
              ELSE [marks EXCEPT ![target] = DisplacedMark(s, at, back, swap)],
              ~self, self)

\* A mouse button is pressed over w and released over t or a widget in it.
Release(w, t) ==
    /\ moves < MaxMoves  \* bound
    /\ t \in Groups => Contains(children[FormOf[t]], t)
    /\ \E s \in LayoutsOf(RootOf(t)) :
          /\ w \in NamesIn(items[s])
          /\ IF t \in Grids THEN \E cell \in 1..Columns : MoveInGrid(s, t, w, cell)
             ELSE \E to \in 1..Len(items[t]) + 1 :
                     IF s = t THEN WidgetAt(items[s], to) # w /\ MoveWithinBox(s, w, to)
                     ELSE MoveIntoBox(s, t, w, to)

-----------------------------------------------------------------------------
(* Undoing the last move.                                                  *)

\* The items are inserted from the last to the first index.
MutRestored(o, state, rest) ==
    FoldLeft(LAMBDA seq, it : IF o \in Grids THEN PutLast(o, seq, it) ELSE Put(o, seq, 1, it),
             rest, state)

\* Box and grid layouts get their widgets back, in the order of the items.
Restored(o, state, rest) ==
    FoldLeft(LAMBDA seq, i : IF o \in Grids THEN PutLast(o, seq, state[i])
                             ELSE Put(o, seq, i, state[i]),
             rest, [i \in DOMAIN state |-> i])

\* MarkLayoutForSave
MarksOf(o, state, w) ==
    LET i == IndexOf(state, w)
    IN  IF o \in Grids THEN GridMark(o, state[i].cell, state[i].span)
        ELSE BoxMark(o, WidgetAt(state, i + 1))

\* UndoLastMove; an entry of a form that was closed is empty.
UndoLastMove ==
    /\ undo # <<>>
    /\ LET move == Last(undo)
           captured == UNION {NamesIn(move[k].items) : k \in DOMAIN move}
           kept == [o \in Owners |-> Drop(items[o], captured)]
           state(o) == CHOOSE k \in DOMAIN move : move[k].owner = o
           owners == {move[k].owner : k \in DOMAIN move}
           new == [o \in Owners |-> IF o \in owners
                                    THEN Restored(o, move[state(o)].items, kept[o]) ELSE kept[o]]
           home(w) == CHOOSE o \in owners : w \in NamesIn(move[state(o)].items)
           touched == {RootOf(o) : o \in owners}
       IN  /\ items' = new
           /\ children' = Adopted(new)
           /\ mark' = [w \in Widgets |-> IF w \in captured
                                         THEN MarksOf(home(w), move[state(home(w))].items, w)
                                         ELSE mark[w]]
           /\ dirty' = [f \in FormSet |-> dirty[f] \/ f \in touched]
           /\ drift' = [f \in FormSet |-> IF f \in touched THEN 2 ELSE drift[f]]
    /\ undo' = Front(undo) /\ before' = Front(before)
    /\ UNCHANGED <<file, moves, stray>>

-----------------------------------------------------------------------------
(* Saving.                                                                 *)

\* The layouts that can be found in a file: those below its root.
Reached(doc) == FormSet \cup {g \in Groups : g \in NamesIn(doc[FormOf[g]])}

\* One marked widget of the form: its item goes to the layout of its new
\* parent, and is given its cell or put in front of the next one's item.
Apply(doc, w) ==
    LET m == mark[w]
        home == {o \in Reached(doc) : w \in NamesIn(doc[o])}
    IN  IF m = NoMark \/ home = {} THEN doc
        ELSE LET from == CHOOSE o \in home : TRUE
                 to == IF m.parent \in Reached(doc) THEN m.parent ELSE from
                 it == doc[from][IndexOf(doc[from], w)]
                 moved == IF to = from THEN doc
                          ELSE [doc EXCEPT ![from] = Drop(@, {w}), ![to] = Append(@, it)]
                 rest == Drop(moved[to], {w})
                 next == IF m.next \in NamesIn(rest) /\ to \in Reached(moved)
                         THEN IndexOf(rest, m.next) ELSE Len(rest) + 1
             IN  IF m.grid
                 THEN [moved EXCEPT ![to][IndexOf(moved[to], w)] = Item(w, m.cell, m.span)]
                 ELSE [moved EXCEPT ![to] = InsertAt(rest, next, it)]

\* QObject::findChildren
Children(f) == FlattenSeq([i \in DOMAIN children[f] |->
    <<children[f][i]>> \o (IF children[f][i] \in Groups THEN children[children[f][i]] ELSE <<>>)])

\* The widgets whose marks SaveLayout applies, in one pass with the file.
Passed(f) ==
    FoldLeft(LAMBDA acc, w :
                [doc |-> Apply(acc.doc, w),
                 done |-> IF mark[w] # NoMark /\ \E o \in Reached(acc.doc) : w \in NamesIn(acc.doc[o])
                          THEN acc.done \cup {w} ELSE acc.done],
             [doc |-> file, done |-> {}], Children(f))

\* SaveLayout of the forms of S.
Saved(S) ==
    /\ file' = [o \in Owners |-> IF RootOf(o) \in S THEN Passed(RootOf(o)).doc[o] ELSE file[o]]
    /\ mark' = [w \in Widgets |-> IF FormOf[w] \in S /\ w \in Passed(FormOf[w]).done
                                  THEN NoMark ELSE mark[w]]
    /\ dirty' = [f \in FormSet |-> dirty[f] /\ f \notin S]
    /\ drift' = [f \in FormSet |-> IF f \in S /\ drift[f] = 1 THEN 0 ELSE drift[f]]

\* SaveDirtyForms stops at the first form, of index k, whose file cannot be
\* read, parsed or written.
SaveDirtyForms ==
    /\ \E k \in 1..Len(Forms) + 1 :
          /\ k \in DOMAIN Forms => dirty[Forms[k]]
          /\ Saved({Forms[i] : i \in {j \in 1..k - 1 : dirty[Forms[j]]}})
    /\ UNCHANGED <<items, children, undo, before, moves, stray>>

\* The form is closed, and loaded again from its file.
Reopen(f) ==
    /\ LET shown == [o \in Owners |->
               IF RootOf(o) # f THEN items[o]
               ELSE IF o \notin Reached(file) THEN <<>>
               ELSE IF o \in Grids THEN file[o]
               ELSE [i \in DOMAIN file[o] |-> Item(file[o][i].w, 0, 1)]]
       IN  /\ items' = shown
           /\ children' = [o \in Owners |-> IF RootOf(o) # f THEN children[o]
                                            ELSE ChildrenIn(shown[o])]
    /\ mark' = [w \in Widgets |-> IF FormOf[w] = f THEN NoMark ELSE mark[w]]
    /\ undo' = [i \in DOMAIN undo |->
                   IF undo[i] # <<>> /\ RootOf(undo[i][1].owner) = f THEN <<>> ELSE undo[i]]
    /\ dirty' = [dirty EXCEPT ![f] = FALSE]
    /\ drift' = [drift EXCEPT ![f] = 0]
    /\ UNCHANGED <<before, file, moves, stray>>

Next == \/ \E w \in Widgets, t \in Owners : Release(w, t)
        \/ UndoLastMove \/ SaveDirtyForms
        \/ \E f \in FormSet : Reopen(f)

Spec == Init /\ [][Next]_layoutVars

-----------------------------------------------------------------------------
(* Properties.                                                             *)

Places(table, w) == {at \in UNION {{o} \X DOMAIN table[o] : o \in Owners} :
                        table[at[1]][at[2]].w = w}

\* The types; a widget has one place at most, on the screen and in the file.
TypeOK ==
    /\ \A o \in Owners : items[o] \in Seq(Items) /\ file[o] \in Seq(Items)
    /\ \A o \in Owners : children[o] \in Seq(Widgets)
    /\ \A w \in Widgets : /\ Cardinality(Places(items, w)) <= 1
                          /\ Cardinality(Places(file, w)) <= 1
    /\ dirty \in [FormSet -> BOOLEAN] /\ drift \in [FormSet -> 0..2]
    /\ Len(undo) = Len(before) /\ Len(undo) <= moves

\* The editor only moves widgets: each of them still has its place on the
\* screen (UiLayoutEditMode.h:13-14).
OnlyMoves == \A w \in Widgets : Places(items, w) # {}

\* Unless a group was dropped on itself, or displaced into itself, every
\* widget keeps its place on the screen and in the file.
WidgetsStay ==
    \A w \in Widgets : FormOf[w] \notin stray =>
        /\ Places(items, w) # {}
        /\ \E o \in Reached(file) : w \in NamesIn(file[o])

\* What the file holds of a form is what the screen shows if every save since
\* the form was loaded had at most one move to write, and no undo.
OneMoveIsSaved ==
    \A f \in FormSet : drift[f] = 0 => \A o \in LayoutsOf(f) :
        IF o \in Grids /\ o \in Reached(file) THEN ToSet(file[o]) = ToSet(items[o])
        ELSE o \in Reached(file) => ChildrenIn(file[o]) = ChildrenIn(items[o])

\* Undo brings back the arrangement from before the move, if the form has
\* stayed open since, although only the two layouts of the move are kept.
UndoRestores ==
    [][Len(undo') < Len(undo) /\ Last(undo) # <<>> =>
        LET f == RootOf(Last(undo)[1].owner)
        IN  \A o \in LayoutsOf(f) :
                IF o \in Grids THEN ToSet(items'[o]) = ToSet(Last(before)[o])
                ELSE ChildrenIn(items'[o]) = ChildrenIn(Last(before)[o])]_layoutVars
=============================================================================
