--------------------------- MODULE BindingsProofs ---------------------------
(***************************************************************************)
(* Proofs about Bindings, for every set of ids, widgets and plots, every   *)
(* naming of them and every bound on the number of graphs.                 *)
(*                                                                         *)
(* Two inductive invariants, one on top of the other:                      *)
(*   Registry  what the registry and the mappers know of each other; the   *)
(*             proof is about names, and needs nothing of life or graphs   *)
(*   Alive     who is subscribed is open, a plot for as many graphs as it  *)
(*             draws; open plots have names of their own                   *)
(***************************************************************************)
EXTENDS Bindings, TLAPS

Registry == TypeOK /\ MapperExists /\ HomeByName

OpenWidgets == \A id \in Ids, w \in Widgets : entries[id][w] > 0 => life[w] = "open"

OpenPlots == \A id \in Ids, p \in Plots :
                NameOf[p] \notin adopted /\ entries[id][p] > 0 => life[p] = "open"

OwnNames == \A p, q \in Plots :
               life[p] = "open" /\ life[q] = "open" /\ NameOf[p] = NameOf[q] => p = q

Alive == OpenWidgets /\ OpenPlots /\ OwnNames /\ Covered

-----------------------------------------------------------------------------
(* Lemmas about the operators.                                             *)

\* Where Detached leaves an entry it is the old one, and it leaves none of a
\* name of S in the container the name is bound to.
LEMMA DetachedEntries ==
    ASSUME NEW S, NEW id \in Ids, NEW o \in Objects
    PROVE  /\ Detached(S)[id][o] \in {0, entries[id][o]}
           /\ o \in Namesakes(S) /\ binding[NameOf[o]] = id
                 => Detached(S)[id][o] = 0
           /\ o \notin Namesakes(S) => Detached(S)[id][o] = entries[id][o]
BY DEF Detached

\* Detached gives a table of entries again.
LEMMA DetachedType ==
    ASSUME TypeOK, NEW S
    PROVE  Detached(S) \in SomeEntries
<1>1. SUFFICES ASSUME NEW id \in Ids, NEW o \in Objects
               PROVE  (IF o \in Namesakes(S) /\ binding[NameOf[o]] = id
                       THEN 0 ELSE entries[id][o]) \in 0..MaxGraphs
  BY DEF Detached, SomeEntries
<1>2. entries[id][o] \in 0..MaxGraphs
  BY DEF TypeOK, SomeEntries
<1> QED BY <1>2, NamesAssumption

\* Redrawn gives tables of entries, and leaves the rest of the table alone.
LEMMA RedrawnEntries ==
    ASSUME NEW N, NEW table \in SomeEntries, NEW e \in Redrawn(N, table)
    PROVE  /\ e \in SomeEntries
           /\ \A id \in Ids, o \in Objects : o \notin N => e[id][o] = table[id][o]
<1>1. PICK d \in [Ids -> [N -> 0..MaxGraphs]] :
        e = [id \in Ids |-> [o \in Objects |-> IF o \in N THEN d[id][o]
                                                ELSE table[id][o]]]
  BY DEF Redrawn
<1>2. \A id \in Ids, o \in Objects :
        (IF o \in N THEN d[id][o] ELSE table[id][o]) \in 0..MaxGraphs
  <2> SUFFICES ASSUME NEW id \in Ids, NEW o \in Objects
               PROVE  /\ o \in N => d[id][o] \in 0..MaxGraphs
                      /\ table[id][o] \in 0..MaxGraphs
    OBVIOUS
  <2> QED BY DEF SomeEntries
<1>3. e \in SomeEntries
  BY <1>1, <1>2 DEF SomeEntries
<1> QED BY <1>1, <1>3

\* An object is its own namesake.
LEMMA OwnNamesake ==
    ASSUME NEW S, NEW o \in Objects, o \in S
    PROVE  o \in Namesakes(S)
BY DEF Namesakes

\* A widget is the namesake of widgets only, a plot of plots only.
LEMMA NamesakesOfAKind ==
    /\ \A w \in Widgets, S \in SUBSET Plots : w \notin Namesakes(S)
    /\ \A p \in Plots, S \in SUBSET Widgets : p \notin Namesakes(S)
BY NamesAssumption DEF Namesakes, Objects

\* An entry of a widget is in the container its name is bound to, so taking
\* the widget, or a namesake, from there leaves none.
LEMMA DetachedWidget ==
    ASSUME Registry, NEW S, NEW id \in Ids, NEW w \in Widgets, w \in Namesakes(S)
    PROVE  Detached(S)[id][w] = 0
<1>1. w \in Objects
  BY DEF Objects
<1>2. entries[id][w] \in Nat
  BY <1>1, NamesAssumption DEF Registry, TypeOK, SomeEntries
<1>3. CASE entries[id][w] = 0
  BY <1>1, <1>3, DetachedEntries
<1>4. CASE entries[id][w] > 0
  <2>1. binding[NameOf[w]] = id
    BY <1>4 DEF Registry, HomeByName
  <2> QED BY <1>1, <2>1, DetachedEntries
<1> QED BY <1>2, <1>3, <1>4

-----------------------------------------------------------------------------
(* The registry: each action preserves Registry.                           *)

\* Nothing is subscribed, bound or published at first.
LEMMA RegistryInit == Init => Registry
<1> SUFFICES ASSUME Init PROVE Registry
  OBVIOUS
<1>1. TypeOK
  BY NamesAssumption DEF Init, TypeOK, NoEntries, NoGraphs, SomeEntries, SomeGraphs
<1>2. MapperExists
  BY DEF Init, MapperExists, NoEntries
<1>3. HomeByName
  BY DEF Init, HomeByName, NoEntries, Objects
<1> QED BY <1>1, <1>2, <1>3 DEF Registry

\* An action that leaves bindings and entries alone, and unpublishes nothing,
\* preserves Registry if it preserves the types.
LEMMA RegistryUntouched ==
    ASSUME Registry, TypeOK', UNCHANGED <<binding, entries>>, stored \subseteq stored'
    PROVE  Registry'
<1>1. MapperExists'
  BY DEF Registry, MapperExists
<1>2. HomeByName'
  BY DEF Registry, HomeByName, Namesakes, Objects
<1> QED BY <1>1, <1>2 DEF Registry

\* An action that erases entries of plots only, and unpublishes nothing,
\* preserves it too.
LEMMA RegistryPlotErase ==
    ASSUME Registry, TypeOK', UNCHANGED <<binding, stored>>,
           \A id \in Ids, o \in Objects : entries'[id][o] <= entries[id][o],
           \A id \in Ids, w \in Widgets : entries'[id][w] = entries[id][w]
    PROVE  Registry'
<1>1. \A id \in Ids, o \in Objects : entries[id][o] \in Nat /\ entries'[id][o] \in Nat
  BY NamesAssumption DEF Registry, TypeOK, SomeEntries
<1>2. MapperExists'
  BY <1>1 DEF Registry, MapperExists
<1>3. HomeByName'
  <2> SUFFICES ASSUME NEW id \in Ids, NEW w \in Widgets, entries'[id][w] > 0
               PROVE  /\ entries'[id][w] = 1
                      /\ binding'[NameOf[w]] = id
                      /\ \A q \in Namesakes({w}) \ {w} : entries'[id][q] = 0
    BY DEF HomeByName, Namesakes, Objects
  <2>1. \A q \in Namesakes({w}) : q \in Widgets
    BY NamesAssumption DEF Namesakes, Objects
  <2>2. /\ entries[id][w] = 1
        /\ binding[NameOf[w]] = id
        /\ \A q \in Namesakes({w}) \ {w} : entries[id][q] = 0
    BY DEF Registry, HomeByName
  <2> QED BY <2>1, <2>2
<1> QED BY <1>2, <1>3 DEF Registry

\* Types and lookups survive Unbind.
LEMMA RegistryUnbind ==
    ASSUME Registry, NEW w \in Widgets, Unbind(w)
    PROVE  Registry'
<1>1. w \in Objects /\ NameOf[w] \in Names
  BY NamesAssumption DEF Objects
<1>2. TypeOK'
  BY <1>1, DetachedType DEF Unbind, Registry, TypeOK
<1>3. \A id \in Ids, o \in Objects :
        /\ entries[id][o] \in Nat
        /\ entries'[id][o] \in {0, entries[id][o]}
        /\ o \in Widgets /\ o \in Namesakes({w}) => entries'[id][o] = 0
        /\ o \notin Namesakes({w}) => entries'[id][o] = entries[id][o]
  BY DetachedEntries, DetachedWidget, NamesAssumption
     DEF Unbind, Registry, TypeOK, SomeEntries
<1>4. MapperExists'
  <2>1. \A n \in Names : binding'[n] # None => binding'[n] \in stored'
    BY <1>1 DEF Unbind, Registry, TypeOK, MapperExists
  <2>2. ASSUME NEW id \in Ids, NEW o \in Objects, entries'[id][o] > 0
        PROVE  id \in stored'
    <3>1. entries[id][o] > 0
      BY <1>3, <2>2
    <3> QED BY <3>1 DEF Unbind, Registry, MapperExists
  <2> QED BY <2>1, <2>2 DEF MapperExists
<1>5. HomeByName'
  <2> SUFFICES ASSUME NEW id \in Ids, NEW v \in Widgets, entries'[id][v] > 0
               PROVE  /\ entries'[id][v] = 1
                      /\ binding'[NameOf[v]] = id
                      /\ \A q \in Namesakes({v}) \ {v} : entries'[id][q] = 0
    BY DEF HomeByName
  <2>1. v \in Objects /\ v \notin Namesakes({w})
    BY <1>3 DEF Objects
  <2>2. entries[id][v] > 0 /\ entries'[id][v] = entries[id][v]
    BY <1>3, <2>1
  <2>3. NameOf[v] # NameOf[w]
    BY <2>1 DEF Namesakes
  <2>4. binding'[NameOf[v]] = binding[NameOf[v]]
    BY <2>3, <1>1 DEF Unbind, Registry, TypeOK
  <2>5. /\ entries[id][v] = 1
        /\ binding[NameOf[v]] = id
        /\ \A q \in Namesakes({v}) \ {v} : entries[id][q] = 0
    BY <2>2 DEF Registry, HomeByName
  <2>6. \A q \in Namesakes({v}) \ {v} : entries'[id][q] = 0
    BY <1>3, <2>5 DEF Namesakes
  <2> QED BY <2>2, <2>4, <2>5, <2>6
<1> QED BY <1>2, <1>4, <1>5 DEF Registry

\* A widget that is bound is taken from where it, or a namesake, was bound
\* before: its new entry is the only one of its name.
LEMMA RegistryBind ==
    ASSUME Registry, NEW w \in Widgets, NEW id \in Ids, Bind(w, id)
    PROVE  Registry'
<1>1. w \in Objects /\ NameOf[w] \in Names /\ w \in Namesakes({w})
  BY NamesAssumption DEF Objects, Namesakes
<1>2. Detached({w}) \in SomeEntries
  BY DetachedType DEF Registry
<1>3. entries' = [Detached({w}) EXCEPT ![id][w] = @ + 1]
  BY DEF Bind
<1>4. \A i \in Ids, o \in Objects :
        entries'[i][o] = IF i = id /\ o = w THEN Detached({w})[i][o] + 1
                         ELSE Detached({w})[i][o]
  BY <1>1, <1>2, <1>3 DEF SomeEntries
<1>5. \A i \in Ids : Detached({w})[i][w] = 0
  BY <1>1, DetachedWidget
<1>6. ASSUME NEW i \in Ids, NEW o \in Objects
      PROVE  /\ entries[i][o] \in Nat
             /\ ~(i = id /\ o = w) => entries'[i][o] \in {0, entries[i][o]}
             /\ ~(i = id /\ o = w) /\ o \in Widgets /\ o \in Namesakes({w})
                   => entries'[i][o] = 0
             /\ o \notin Namesakes({w}) => entries'[i][o] = entries[i][o]
  <2>1. entries[i][o] \in Nat
    BY NamesAssumption DEF Registry, TypeOK, SomeEntries
  <2>2. ~(i = id /\ o = w) => entries'[i][o] = Detached({w})[i][o]
    BY <1>4
  <2>3. /\ Detached({w})[i][o] \in {0, entries[i][o]}
        /\ o \notin Namesakes({w}) => Detached({w})[i][o] = entries[i][o]
    BY DetachedEntries
  <2>4. o \in Widgets /\ o \in Namesakes({w}) => Detached({w})[i][o] = 0
    BY DetachedWidget
  <2> QED BY <2>1, <2>2, <2>3, <2>4, <1>1
<1>7. entries'[id][w] = 1
  BY <1>1, <1>4, <1>5
<1>8. TypeOK'
  <2>1. entries' \in SomeEntries
    <3>1. \A i \in Ids, o \in Objects : entries'[i][o] \in 0..MaxGraphs
      <4>1. ASSUME NEW i \in Ids, NEW o \in Objects, ~(i = id /\ o = w)
            PROVE  entries'[i][o] \in 0..MaxGraphs
        BY <4>1, <1>2, <1>4 DEF SomeEntries
      <4>2. 1 \in 0..MaxGraphs
        BY NamesAssumption
      <4> QED BY <4>1, <4>2, <1>7
    <3>2. /\ DOMAIN entries' = Ids
          /\ \A i \in Ids : DOMAIN entries'[i] = Objects
          /\ entries' = [i \in Ids |-> [o \in Objects |-> entries'[i][o]]]
      BY <1>2, <1>3 DEF SomeEntries
    <3> QED BY <3>1, <3>2 DEF SomeEntries
  <2> QED BY <2>1, <1>1 DEF Bind, Registry, TypeOK
<1>9. MapperExists'
  <2>1. \A n \in Names : binding'[n] # None => binding'[n] \in stored'
    BY <1>1 DEF Bind, Registry, TypeOK, MapperExists
  <2>2. ASSUME NEW i \in Ids, NEW o \in Objects, entries'[i][o] > 0
        PROVE  i \in stored'
    <3>1. CASE i = id
      BY <3>1 DEF Bind
    <3>2. CASE i # id
      <4>1. entries[i][o] > 0
        BY <1>6, <2>2, <3>2
      <4> QED BY <4>1 DEF Bind, Registry, MapperExists
    <3> QED BY <3>1, <3>2
  <2> QED BY <2>1, <2>2 DEF MapperExists
<1>10. HomeByName'
  <2> SUFFICES ASSUME NEW i \in Ids, NEW v \in Widgets, entries'[i][v] > 0
               PROVE  /\ entries'[i][v] = 1
                      /\ binding'[NameOf[v]] = i
                      /\ \A q \in Namesakes({v}) \ {v} : entries'[i][q] = 0
    BY DEF HomeByName
  <2>1. v \in Objects /\ \A q \in Namesakes({v}) : q \in Objects /\ q \in Widgets
    BY NamesAssumption DEF Objects, Namesakes
  <2>2. CASE v \in Namesakes({w})
    <3>1. i = id /\ v = w
      BY <1>6, <2>1, <2>2
    <3> QED BY <3>1, <1>1, <1>6, <1>7, <2>1 DEF Bind, Registry, TypeOK
  <2>3. CASE v \notin Namesakes({w})
    <3>1. entries[i][v] > 0 /\ entries'[i][v] = entries[i][v]
      BY <1>6, <2>1, <2>3
    <3>2. /\ entries[i][v] = 1
          /\ binding[NameOf[v]] = i
          /\ \A q \in Namesakes({v}) \ {v} : entries[i][q] = 0
      BY <3>1 DEF Registry, HomeByName
    <3>3. NameOf[v] # NameOf[w]
      BY <2>1, <2>3 DEF Namesakes
    <3>4. binding'[NameOf[v]] = i
      BY <3>2, <3>3, <1>1 DEF Bind, Registry, TypeOK
    <3>5. \A q \in Namesakes({v}) : q # w
      BY <3>3 DEF Namesakes
    <3>6. \A q \in Namesakes({v}) \ {v} : entries'[i][q] = 0
      BY <3>2, <3>5, <1>6, <2>1
    <3> QED BY <3>1, <3>2, <3>4, <3>6
  <2> QED BY <2>2, <2>3
<1> QED BY <1>8, <1>9, <1>10 DEF Registry

\* A plot is bound, in addition, under a name that is no widget's.
LEMMA RegistryAddGraph ==
    ASSUME Registry, NEW p \in Plots, NEW id \in Ids, AddGraph(p, id)
    PROVE  Registry'
<1>1. p \in Objects /\ NameOf[p] \in Names
  BY NamesAssumption DEF Objects
<1>2. entries \in SomeEntries /\ graphs \in SomeGraphs
  BY DEF Registry, TypeOK
<1>3. entries' = [entries EXCEPT ![id][p] = @ + 1]
  BY DEF AddGraph
<1>4. \A i \in Ids, o \in Objects :
        /\ entries[i][o] \in Nat
        /\ entries'[i][o] = IF i = id /\ o = p THEN entries[i][o] + 1
                            ELSE entries[i][o]
  BY <1>1, <1>2, <1>3, NamesAssumption DEF SomeEntries
<1>5. \A i \in Ids, w \in Widgets : entries'[i][w] = entries[i][w]
  BY <1>4, NamesAssumption DEF Objects
<1>6. TypeOK'
  <2>1. entries' \in SomeEntries
    BY <1>1, <1>2, <1>3, NamesAssumption DEF AddGraph, SomeEntries
  <2>2. graphs' \in SomeGraphs
    BY <1>2, NamesAssumption DEF AddGraph, SomeGraphs
  <2> QED BY <2>1, <2>2, <1>1 DEF AddGraph, Registry, TypeOK
<1>7. MapperExists'
  <2>1. \A n \in Names : binding'[n] # None => binding'[n] \in stored'
    BY <1>1 DEF AddGraph, Registry, TypeOK, MapperExists
  <2>2. ASSUME NEW i \in Ids, NEW o \in Objects, entries'[i][o] > 0
        PROVE  i \in stored'
    BY <1>4, <2>2 DEF AddGraph, Registry, MapperExists
  <2> QED BY <2>1, <2>2 DEF MapperExists
<1>8. HomeByName'
  <2> SUFFICES ASSUME NEW i \in Ids, NEW w \in Widgets, entries'[i][w] > 0
               PROVE  /\ entries'[i][w] = 1
                      /\ binding'[NameOf[w]] = i
                      /\ \A q \in Namesakes({w}) \ {w} : entries'[i][q] = 0
    BY DEF HomeByName, Namesakes, Objects
  <2>1. /\ entries[i][w] = 1
        /\ binding[NameOf[w]] = i
        /\ \A q \in Namesakes({w}) \ {w} : entries[i][q] = 0
    BY <1>5 DEF Registry, HomeByName
  <2>2. \A q \in Namesakes({w}) : q \in Widgets
    BY NamesAssumption DEF Namesakes, Objects
  <2>3. binding'[NameOf[w]] = binding[NameOf[w]]
    BY <1>1, NamesAssumption DEF AddGraph, Registry, TypeOK, Objects
  <2> QED BY <1>5, <2>1, <2>2, <2>3
<1> QED BY <1>6, <1>7, <1>8 DEF Registry

\* Erased takes entries away, of the plot's namesakes only.
LEMMA ErasedShrinks ==
    ASSUME NEW p \in Plots, NEW calls, Erased(p, calls)
    PROVE  \A id \in Ids, q \in Namesakes({p}) : entries'[id][q] <= entries[id][q]
BY DEF Erased

\* Removing graphs changes the graphs of this plot and the entries of its name.
LEMMA DropGraphsFrame ==
    ASSUME TypeOK, NEW p \in Plots, DropGraphs(p)
    PROVE  /\ entries' \in SomeEntries /\ graphs' \in SomeGraphs
           /\ \A id \in Ids, o \in Objects :
                 o \notin Namesakes({p}) => entries'[id][o] = entries[id][o]
           /\ \A id \in Ids, o \in Objects : entries'[id][o] <= entries[id][o]
           /\ \A q \in Plots \ {p} : graphs'[q] = graphs[q]
<1>1. entries \in SomeEntries /\ graphs \in SomeGraphs
  BY DEF TypeOK
<1>2. PICK kept \in [Ids -> 0..MaxGraphs] : graphs' = [graphs EXCEPT ![p] = kept]
  BY DEF DropGraphs
<1>3. graphs' \in SomeGraphs /\ \A q \in Plots \ {p} : graphs'[q] = graphs[q]
  BY <1>1, <1>2 DEF SomeGraphs
<1>4. entries' \in Redrawn(Namesakes({p}), entries)
  BY DEF DropGraphs
<1>5. /\ entries' \in SomeEntries
      /\ \A id \in Ids, o \in Objects :
            o \notin Namesakes({p}) => entries'[id][o] = entries[id][o]
  BY <1>1, <1>4, RedrawnEntries
<1>6. \A id \in Ids, o \in Objects : entries'[id][o] <= entries[id][o]
  <2> SUFFICES ASSUME NEW id \in Ids, NEW o \in Objects
               PROVE  entries'[id][o] <= entries[id][o]
    OBVIOUS
  <2>1. entries[id][o] \in Nat
    BY <1>1, NamesAssumption DEF SomeEntries
  <2>2. o \in Namesakes({p}) => entries'[id][o] <= entries[id][o]
    BY ErasedShrinks DEF DropGraphs
  <2> QED BY <1>5, <2>1, <2>2
<1> QED BY <1>3, <1>5, <1>6

\* Removing graphs is an erase of plots.
LEMMA RegistryDropGraphs ==
    ASSUME Registry, NEW p \in Plots, DropGraphs(p)
    PROVE  Registry'
<1>1. TypeOK'
  BY DropGraphsFrame DEF DropGraphs, Registry, TypeOK
<1>2. \A id \in Ids, o \in Objects : entries'[id][o] <= entries[id][o]
  BY DropGraphsFrame DEF Registry
<1>3. \A id \in Ids, w \in Widgets : entries'[id][w] = entries[id][w]
  BY DropGraphsFrame, NamesAssumption DEF Registry, Namesakes, Objects
<1> QED BY <1>1, <1>2, <1>3, RegistryPlotErase DEF DropGraphs

\* Clearing S gives a table of entries, and touches no plot outside S and no
\* widget other than by detaching it.
LEMMA ClearedFrame ==
    ASSUME TypeOK, NEW S, Cleared(S)
    PROVE  /\ entries' \in SomeEntries
           /\ \A id \in Ids, o \in Objects :
                 o \notin Namesakes(S \cap Plots) =>
                     entries'[id][o] = Detached(S \ Plots)[id][o]
<1>1. S \ (S \cap Plots) = S \ Plots
  OBVIOUS
<1>2. entries' \in Redrawn(Namesakes(S \cap Plots), Detached(S \ Plots))
  BY <1>1 DEF Cleared
<1> QED BY <1>2, DetachedType, RedrawnEntries

\* What clearing the plots of S and detaching the other objects of S does to
\* the entries: none grows, those of widgets of S go, those of other names
\* stay.
LEMMA ClearedEntries ==
    ASSUME Registry, NEW S \in SUBSET Objects, Cleared(S),
           NEW id \in Ids, NEW o \in Objects
    PROVE  /\ entries[id][o] \in Nat
           /\ entries'[id][o] \in Nat
           /\ entries'[id][o] <= entries[id][o]
           /\ o \in Widgets /\ o \in Namesakes(S) => entries'[id][o] = 0
           /\ o \notin Namesakes(S) => entries'[id][o] = entries[id][o]
<1> DEFINE T == S \cap Plots
<1>1. entries[id][o] \in Nat /\ entries'[id][o] \in Nat
  <2>1. entries \in SomeEntries /\ entries' \in SomeEntries
    BY ClearedFrame DEF Registry, TypeOK
  <2> QED BY <2>1, NamesAssumption DEF SomeEntries
<1>2. CASE o \in Namesakes(T)
  <2>1. PICK p \in T : o \in Namesakes({p})
    BY <1>2 DEF Namesakes
  <2>2. Erased(p, graphs[p])
    BY <2>1 DEF Cleared
  <2>3. entries'[id][o] <= entries[id][o]
    BY <2>1, <2>2, ErasedShrinks
  <2>4. o \notin Widgets /\ o \in Namesakes(S)
    BY <1>2, NamesAssumption DEF Namesakes
  <2> QED BY <1>1, <2>3, <2>4
<1>3. CASE o \notin Namesakes(T)
  <2>1. entries'[id][o] = Detached(S \ Plots)[id][o]
    BY <1>3, ClearedFrame DEF Registry
  <2>2. o \in Namesakes(S) => o \in Namesakes(S \ Plots)
    BY <1>3 DEF Namesakes
  <2>3. o \notin Namesakes(S) => o \notin Namesakes(S \ Plots)
    BY DEF Namesakes
  <2>4. o \in Widgets /\ o \in Namesakes(S \ Plots) => Detached(S \ Plots)[id][o] = 0
    BY DetachedWidget
  <2> QED BY <1>1, <2>1, <2>2, <2>3, <2>4, DetachedEntries
<1> QED BY <1>2, <1>3

\* Closing a figure is an erase of plots.
LEMMA RegistryCloseFigure ==
    ASSUME Registry, NEW S \in SUBSET Plots, CloseFigure(S)
    PROVE  Registry'
<1>1. Cleared(S) /\ S \in SUBSET Objects
  BY DEF CloseFigure, Objects
<1>2. TypeOK'
  BY <1>1, ClearedFrame DEF CloseFigure, Registry, TypeOK
<1>3. \A id \in Ids, o \in Objects : entries'[id][o] <= entries[id][o]
  BY <1>1, ClearedEntries
<1>4. \A id \in Ids, w \in Widgets : entries'[id][w] = entries[id][w]
  <2>1. \A w \in Widgets : w \in Objects /\ w \notin Namesakes(S)
    BY NamesakesOfAKind DEF Objects
  <2> QED BY <1>1, <2>1, ClearedEntries
<1> QED BY <1>2, <1>3, <1>4, RegistryPlotErase DEF CloseFigure

\* A form takes the bindings of its names with it, and the entries of its
\* widgets; the entries of its plots lose their binding only.
LEMMA RegistryCloseForm ==
    ASSUME Registry, NEW S \in SUBSET Objects, CloseForm(S)
    PROVE  Registry'
<1>1. Cleared(S)
  BY DEF CloseForm
<1>2. TypeOK'
  <2>1. graphs' \in SomeGraphs
    BY NamesAssumption DEF CloseForm, Registry, TypeOK, SomeGraphs, NoGraphs
  <2>2. binding' \in [Names -> Ids \cup {None}]
    BY DEF CloseForm, Registry, TypeOK
  <2>3. life' \in [Objects -> {"open", "dying", "gone"}]
    BY DEF CloseForm, Registry, TypeOK
  <2> QED BY <1>1, <2>1, <2>2, <2>3, ClearedFrame DEF CloseForm, Registry, TypeOK
<1>3. MapperExists'
  <2>1. \A n \in Names : binding'[n] # None => binding'[n] \in stored'
    BY DEF CloseForm, Registry, MapperExists
  <2>2. ASSUME NEW id \in Ids, NEW o \in Objects, entries'[id][o] > 0
        PROVE  id \in stored'
    <3>1. entries[id][o] > 0
      BY <1>1, <2>2, ClearedEntries
    <3> QED BY <3>1 DEF CloseForm, Registry, MapperExists
  <2> QED BY <2>1, <2>2 DEF MapperExists
<1>4. HomeByName'
  <2> SUFFICES ASSUME NEW id \in Ids, NEW w \in Widgets, entries'[id][w] > 0
               PROVE  /\ entries'[id][w] = 1
                      /\ binding'[NameOf[w]] = id
                      /\ \A q \in Namesakes({w}) \ {w} : entries'[id][q] = 0
    BY DEF HomeByName, Namesakes, Objects
  <2>1. w \in Objects
    BY DEF Objects
  <2>2. w \notin Namesakes(S) /\ entries'[id][w] = entries[id][w]
    BY <1>1, <2>1, ClearedEntries
  <2>3. /\ entries[id][w] = 1
        /\ binding[NameOf[w]] = id
        /\ \A q \in Namesakes({w}) \ {w} : entries[id][q] = 0
    BY <2>2 DEF Registry, HomeByName
  <2>4. binding'[NameOf[w]] = binding[NameOf[w]]
    BY <2>1, <2>2, NamesAssumption DEF CloseForm, NamesOf, Namesakes
  <2>5. \A q \in Namesakes({w}) \ {w} : entries'[id][q] = 0
    <3>1. \A q \in Namesakes({w}) : q \in Objects /\ q \notin Namesakes(S)
      BY <2>1, <2>2 DEF Namesakes
    <3> QED BY <1>1, <2>3, <3>1, ClearedEntries
  <2> QED BY <2>2, <2>3, <2>4, <2>5
<1> QED BY <1>2, <1>3, <1>4 DEF Registry

\* A closed project leaves nothing subscribed or bound.
LEMMA RegistryCloseProject ==
    ASSUME Registry, NEW S \in SUBSET Plots, CloseProject(S)
    PROVE  Registry'
<1>1. TypeOK'
  BY NamesAssumption
     DEF CloseProject, Registry, TypeOK, NoEntries, NoGraphs, SomeEntries, SomeGraphs
<1>2. MapperExists'
  BY DEF CloseProject, MapperExists, NoEntries
<1>3. HomeByName'
  BY DEF CloseProject, HomeByName, NoEntries, Objects
<1> QED BY <1>1, <1>2, <1>3 DEF Registry

\* The remaining actions do not touch the registry.
LEMMA RegistryNext == Registry /\ [Next]_vars => Registry'
<1> SUFFICES ASSUME Registry, [Next]_vars PROVE Registry'
  OBVIOUS
<1>1. ASSUME NEW id \in Ids, Publish(id) PROVE Registry'
  BY <1>1, RegistryUntouched DEF Publish, Registry, TypeOK
<1>2. ASSUME NEW S \in SUBSET Objects, Create(S) PROVE Registry'
  <2>1. TypeOK'
    BY <1>2 DEF Create, Registry, TypeOK
  <2> QED BY <1>2, <2>1, RegistryUntouched DEF Create
<1>3. ASSUME NEW w \in Widgets, Unbind(w) PROVE Registry'
  BY <1>3, RegistryUnbind
<1>4. ASSUME NEW w \in Widgets, NEW id \in Ids, Bind(w, id) PROVE Registry'
  BY <1>4, RegistryBind
<1>5. ASSUME NEW p \in Plots, NEW id \in Ids, AddGraph(p, id) PROVE Registry'
  BY <1>5, RegistryAddGraph
<1>6. ASSUME NEW p \in Plots, DropGraphs(p) PROVE Registry'
  BY <1>6, RegistryDropGraphs
<1>7. ASSUME NEW S \in SUBSET Plots, CloseFigure(S) PROVE Registry'
  BY <1>7, RegistryCloseFigure
<1>8. ASSUME NEW S \in SUBSET Plots, DeleteFigure(S) PROVE Registry'
  <2>1. graphs' \in SomeGraphs
    BY <1>8, NamesAssumption DEF DeleteFigure, Registry, TypeOK, SomeGraphs, NoGraphs
  <2>2. TypeOK'
    BY <1>8, <2>1 DEF DeleteFigure, Registry, TypeOK
  <2> QED BY <1>8, <2>2, RegistryUntouched DEF DeleteFigure
<1>9. ASSUME NEW S \in SUBSET Objects, CloseForm(S) PROVE Registry'
  BY <1>9, RegistryCloseForm
<1>10. ASSUME NEW S \in SUBSET Plots, CloseProject(S) PROVE Registry'
  BY <1>10, RegistryCloseProject
<1>11. CASE UNCHANGED vars
  BY <1>11, RegistryUntouched DEF vars, Registry, TypeOK
<1> QED
  BY <1>1, <1>2, <1>3, <1>4, <1>5, <1>6, <1>7, <1>8, <1>9, <1>10, <1>11 DEF Next

\* Whatever the widgets, the plots and their names, the state has its type.
THEOREM TypeInvariant == Spec => []TypeOK
<1>1. Registry => TypeOK
  BY DEF Registry
<1> QED BY <1>1, RegistryInit, RegistryNext, PTL DEF Spec

\* A lookup through a binding or through an entry finds a mapper.
THEOREM MapperExistsInvariant == Spec => []MapperExists
<1>1. Registry => MapperExists
  BY DEF Registry
<1> QED BY <1>1, RegistryInit, RegistryNext, PTL DEF Spec

\* A widget's name is subscribed at most once, in the container it is bound to.
THEOREM HomeByNameInvariant == Spec => []HomeByName
<1>1. Registry => HomeByName
  BY DEF Registry
<1> QED BY <1>1, RegistryInit, RegistryNext, PTL DEF Spec

-----------------------------------------------------------------------------
(* The living: each action that preserves Registry preserves Alive.        *)

\* Numbers, for the steps that compare entries.
LEMMA Numbers ==
    ASSUME TypeOK
    PROVE  /\ \A id \in Ids, o \in Objects : entries[id][o] \in Nat
           /\ \A id \in Ids, p \in Plots : graphs[p][id] \in Nat
BY NamesAssumption DEF TypeOK, SomeEntries, SomeGraphs

\* Nobody lives at first.
LEMMA AliveInit == Init => Alive
<1> SUFFICES ASSUME Init PROVE Alive
  OBVIOUS
<1>1. OpenWidgets /\ OpenPlots /\ Covered
  BY DEF Init, OpenWidgets, OpenPlots, Covered, NoEntries, NoGraphs, Objects
<1>2. OwnNames
  BY DEF Init, OwnNames, Objects
<1> QED BY <1>1, <1>2 DEF Alive

\* A window that opens brings names no open plot has, and nobody subscribed.
LEMMA AliveCreate ==
    ASSUME Registry, Alive, NEW S \in SUBSET Objects, Create(S)
    PROVE  Alive'
<1>1. \A o \in Objects : life'[o] = IF o \in S THEN "open" ELSE life[o]
  BY DEF Create
<1>2. OpenWidgets' /\ OpenPlots' /\ Covered'
  BY <1>1 DEF Create, Alive, OpenWidgets, OpenPlots, Covered, Objects
<1>3. OwnNames'
  BY <1>1 DEF Create, Alive, OwnNames, Objects
<1> QED BY <1>2, <1>3 DEF Alive

\* Taking or binding a widget that is open disturbs no plot.
LEMMA AliveWidget ==
    ASSUME Registry, Alive, Registry', NEW w \in Widgets, life[w] = "open",
           UNCHANGED <<life, graphs, adopted>>,
           \A id \in Ids, o \in Objects :
              o # w => entries'[id][o] \in {0, entries[id][o]}
    PROVE  Alive'
<1>1. \A id \in Ids, o \in Objects : o # w /\ entries'[id][o] > 0
                                       => entries'[id][o] = entries[id][o]
  BY DEF Registry
<1>2. OpenWidgets'
  BY <1>1 DEF Alive, OpenWidgets, Objects
<1>3. \A p \in Plots : p \in Objects /\ p # w
  BY NamesAssumption DEF Objects
<1>4. OpenPlots'
  BY <1>1, <1>3 DEF Alive, OpenPlots
<1>5. Covered'
  BY <1>3, Numbers DEF Alive, Covered, Registry
<1>6. OwnNames'
  BY DEF Alive, OwnNames
<1> QED BY <1>2, <1>4, <1>5, <1>6 DEF Alive

\* A plot that is connected is open, or its name becomes an adopted one.
LEMMA AliveAddGraph ==
    ASSUME Registry, Alive, NEW p \in Plots, NEW id \in Ids, AddGraph(p, id)
    PROVE  Alive'
<1>1. p \in Objects /\ life[p] \in {"open", "dying"}
  BY DEF AddGraph, Registry, TypeOK, Objects
<1>2. \A i \in Ids, o \in Objects :
        entries'[i][o] = IF i = id /\ o = p THEN entries[i][o] + 1 ELSE entries[i][o]
  BY <1>1 DEF AddGraph, Registry, TypeOK, SomeEntries
<1>3. \A i \in Ids, q \in Plots :
        graphs'[q][i] = IF i = id /\ q = p THEN graphs[q][i] + 1 ELSE graphs[q][i]
  BY DEF AddGraph, Registry, TypeOK, SomeGraphs
<1>4. life' = life /\ adopted \subseteq adopted'
  BY DEF AddGraph
<1>5. NameOf[p] \notin adopted' => life[p] = "open"
  BY <1>1 DEF AddGraph
<1>6. OpenWidgets'
  BY <1>2, <1>4, NamesAssumption DEF Alive, OpenWidgets, Objects
<1>7. OpenPlots'
  BY <1>2, <1>4, <1>5 DEF Alive, OpenPlots, Objects
<1>8. Covered'
  <2> SUFFICES ASSUME NEW i \in Ids, NEW q \in Plots, NameOf[q] \notin adopted'
               PROVE  entries'[i][q] <= graphs'[q][i]
    BY DEF Covered
  <2>1. entries[i][q] <= graphs[q][i]
    BY <1>4 DEF Alive, Covered
  <2>2. q \in Objects /\ entries[i][q] \in Nat /\ graphs[q][i] \in Nat
    BY Numbers DEF Registry, Objects
  <2> QED BY <1>2, <1>3, <2>1, <2>2
<1>9. OwnNames'
  BY <1>4 DEF Alive, OwnNames
<1> QED BY <1>6, <1>7, <1>8, <1>9 DEF Alive

\* Of the plots with the name of an open one, the open one alone has entries:
\* the erasing calls of Erased are all spent on it.
LEMMA ErasedOpen ==
    ASSUME Registry, Alive, NEW p \in Plots, life[p] = "open",
           NameOf[p] \notin adopted, NEW calls, Erased(p, calls), NEW id \in Ids
    PROVE  /\ \A q \in Namesakes({p}) \ {p} : entries[id][q] = 0
           /\ \/ entries'[id][p] = 0
              \/ entries'[id][p] + calls[id] <= entries[id][p]
<1>1. ASSUME NEW q \in Namesakes({p}) \ {p}
      PROVE  entries[id][q] = 0
  <2>1. q \in Objects /\ q \in Plots /\ NameOf[q] = NameOf[p]
    BY NamesAssumption DEF Namesakes, Objects
  <2>2. life[q] # "open"
    BY <2>1 DEF Alive, OwnNames
  <2>3. ~ (entries[id][q] > 0)
    BY <2>1, <2>2 DEF Alive, OpenPlots
  <2> QED BY <2>1, <2>3, Numbers DEF Registry
<1> QED BY <1>1 DEF Erased

\* The plot erases once for each graph it removes, so no entry outlives its
\* graph.
LEMMA AliveDropGraphs ==
    ASSUME Registry, Alive, Registry', NEW p \in Plots, DropGraphs(p)
    PROVE  Alive'
<1> DEFINE calls == [id \in Ids |-> graphs[p][id] - graphs'[p][id]]
<1>1. Erased(p, calls) /\ life[p] = "open" /\ life' = life /\ adopted' = adopted
  BY DEF DropGraphs
<1>2. \A id \in Ids, o \in Objects :
        entries[id][o] \in Nat /\ entries'[id][o] \in Nat
  BY NamesAssumption DEF Registry, TypeOK, SomeEntries
<1>3. \A id \in Ids, o \in Objects : entries'[id][o] <= entries[id][o]
  BY DropGraphsFrame DEF Registry
<1>4. OpenWidgets' /\ OpenPlots' /\ OwnNames'
  BY <1>1, <1>2, <1>3 DEF Alive, OpenWidgets, OpenPlots, OwnNames, Objects
<1>5. Covered'
  <2> SUFFICES ASSUME NEW id \in Ids, NEW q \in Plots, NameOf[q] \notin adopted
               PROVE  entries'[id][q] <= graphs'[q][id]
    BY <1>1 DEF Covered
  <2>1. /\ q \in Objects
        /\ graphs[q][id] \in Nat /\ graphs'[q][id] \in Nat
        /\ entries[id][q] <= graphs[q][id]
    BY NamesAssumption DEF Registry, TypeOK, SomeGraphs, Alive, Covered, Objects
  <2>2. CASE q = p
    <3>1. \/ entries'[id][p] = 0
          \/ entries'[id][p] + calls[id] <= entries[id][p]
      BY <1>1, <2>2, ErasedOpen
    <3> QED BY <1>2, <2>1, <2>2, <3>1
  <2>3. CASE q # p
    <3>1. graphs'[q] = graphs[q]
      BY <2>3, DropGraphsFrame DEF Registry
    <3> QED BY <1>2, <1>3, <2>1, <3>1
  <2> QED BY <2>2, <2>3
<1> QED BY <1>4, <1>5 DEF Alive

\* Clearing an open plot leaves none of its entries: it draws a graph for each.
LEMMA ClearedPlot ==
    ASSUME Registry, Alive, NEW S \in SUBSET Objects, Cleared(S),
           NEW p \in S \cap Plots, life[p] = "open", NameOf[p] \notin adopted,
           NEW id \in Ids
    PROVE  entries'[id][p] = 0
<1>1. p \in Objects /\ Erased(p, graphs[p])
  BY DEF Cleared, Objects
<1>2. \/ entries'[id][p] = 0
      \/ entries'[id][p] + graphs[p][id] <= entries[id][p]
  BY <1>1, ErasedOpen
<1>3. entries[id][p] <= graphs[p][id]
  BY DEF Alive, Covered
<1>4. entries[id][p] \in Nat /\ entries'[id][p] \in Nat /\ graphs[p][id] \in Nat
  BY <1>1, ClearedEntries, Numbers DEF Registry
<1> QED BY <1>2, <1>3, <1>4

\* A window that closes clears its plots and detaches its widgets: who is
\* still subscribed afterwards was not in it.
LEMMA AliveClose ==
    ASSUME Registry, Alive, NEW S \in SUBSET Objects, Cleared(S),
           \A o \in S : life[o] = "open", adopted' = adopted,
           \A o \in Objects \ S : life'[o] = life[o],
           \A o \in S : life'[o] # "open",
           \A p \in Plots \ S : graphs'[p] = graphs[p],
           \A id \in Ids, p \in Plots : graphs'[p][id] \in Nat
    PROVE  Alive'
<1>1. \A id \in Ids, o \in Objects :
        /\ entries[id][o] \in Nat
        /\ entries'[id][o] \in Nat
        /\ entries'[id][o] <= entries[id][o]
  BY ClearedEntries
<1>2. \A id \in Ids, w \in Widgets : w \in S => entries'[id][w] = 0
  BY ClearedEntries, OwnNamesake
<1>3. \A id \in Ids, p \in Plots :
        p \in S /\ NameOf[p] \notin adopted => entries'[id][p] = 0
  BY ClearedPlot
<1>4. OpenWidgets'
  BY <1>1, <1>2 DEF Alive, OpenWidgets, Objects
<1>5. OpenPlots'
  BY <1>1, <1>3 DEF Alive, OpenPlots, Objects
<1>6. OwnNames'
  BY DEF Alive, OwnNames, Objects
<1>7. Covered'
  <2> SUFFICES ASSUME NEW id \in Ids, NEW q \in Plots, NameOf[q] \notin adopted
               PROVE  entries'[id][q] <= graphs'[q][id]
    BY DEF Covered
  <2>1. CASE q \in S
    BY <2>1, <1>3
  <2>2. CASE q \notin S
    BY <2>2, <1>1, Numbers DEF Alive, Covered, Registry, Objects
  <2> QED BY <2>1, <2>2
<1> QED BY <1>4, <1>5, <1>6, <1>7 DEF Alive

\* The deferred delete destroys plots nobody is subscribed with.
LEMMA AliveDeleteFigure ==
    ASSUME Registry, Alive, NEW S \in SUBSET Plots, DeleteFigure(S)
    PROVE  Alive'
<1>1. \A o \in Objects : life'[o] = IF o \in S THEN "gone" ELSE life[o]
  BY DEF DeleteFigure
<1>2. entries' = entries /\ adopted' = adopted /\ \A p \in S : life[p] = "dying"
  BY DEF DeleteFigure
<1>3. OpenWidgets' /\ OpenPlots' /\ OwnNames'
  BY <1>1, <1>2, NamesAssumption DEF Alive, OpenWidgets, OpenPlots, OwnNames, Objects
<1>4. Covered'
  <2> SUFFICES ASSUME NEW id \in Ids, NEW p \in Plots, NameOf[p] \notin adopted
               PROVE  entries[id][p] <= graphs'[p][id]
    BY <1>2 DEF Covered
  <2>1. entries[id][p] \in Nat
    BY Numbers DEF Registry, Objects
  <2>2. CASE p \in S
    BY <1>2, <2>1, <2>2 DEF DeleteFigure, NoGraphs, Alive, OpenPlots
  <2>3. CASE p \notin S
    BY <2>3 DEF DeleteFigure, Alive, Covered
  <2> QED BY <2>2, <2>3
<1> QED BY <1>3, <1>4 DEF Alive

\* A closed project leaves nobody subscribed and nobody open.
LEMMA AliveCloseProject ==
    ASSUME Registry, Alive, Registry', NEW S \in SUBSET Plots, CloseProject(S)
    PROVE  Alive'
<1>1. /\ \A id \in Ids, o \in Objects : entries'[id][o] = 0
      /\ \A o \in Objects : life'[o] # "open"
  BY DEF CloseProject, NoEntries
<1>2. OpenWidgets' /\ OpenPlots' /\ OwnNames'
  BY <1>1 DEF OpenWidgets, OpenPlots, OwnNames, Objects
<1>3. Covered'
  BY <1>1, NamesAssumption DEF Covered, Registry, TypeOK, SomeGraphs, Objects
<1> QED BY <1>2, <1>3 DEF Alive

\* Every step preserves Alive.
LEMMA AliveNext == Registry /\ Alive /\ [Next]_vars => Alive'
<1> SUFFICES ASSUME Registry, Alive, [Next]_vars PROVE Alive'
  OBVIOUS
<1> USE RegistryNext
<1>1. ASSUME NEW id \in Ids, Publish(id) PROVE Alive'
  BY <1>1 DEF Publish, Alive, OpenWidgets, OpenPlots, OwnNames, Covered
<1>2. ASSUME NEW S \in SUBSET Objects, Create(S) PROVE Alive'
  BY <1>2, AliveCreate
<1>3. ASSUME NEW w \in Widgets, Unbind(w) PROVE Alive'
  BY <1>3, AliveWidget, DetachedEntries DEF Unbind
<1>4. ASSUME NEW w \in Widgets, NEW id \in Ids, Bind(w, id) PROVE Alive'
  <2>1. Detached({w}) \in SomeEntries
    BY DetachedType DEF Registry
  <2>2. \A i \in Ids, o \in Objects : o # w => entries'[i][o] = Detached({w})[i][o]
    BY <1>4, <2>1 DEF Bind, SomeEntries
  <2>3. \A i \in Ids, o \in Objects : o # w => entries'[i][o] \in {0, entries[i][o]}
    BY <2>2, DetachedEntries
  <2> QED BY <1>4, <2>3, AliveWidget DEF Bind
<1>5. ASSUME NEW p \in Plots, NEW id \in Ids, AddGraph(p, id) PROVE Alive'
  BY <1>5, AliveAddGraph
<1>6. ASSUME NEW p \in Plots, DropGraphs(p) PROVE Alive'
  BY <1>6, AliveDropGraphs
<1>7. ASSUME NEW S \in SUBSET Plots, CloseFigure(S) PROVE Alive'
  <2>1. S \in SUBSET Objects /\ \A id \in Ids, p \in Plots : graphs'[p][id] \in Nat
    BY <1>7, Numbers DEF CloseFigure, Registry, Objects
  <2> QED BY <1>7, <2>1, AliveClose DEF CloseFigure
<1>8. ASSUME NEW S \in SUBSET Plots, DeleteFigure(S) PROVE Alive'
  BY <1>8, AliveDeleteFigure
<1>9. ASSUME NEW S \in SUBSET Objects, CloseForm(S) PROVE Alive'
  <2>1. \A id \in Ids, p \in Plots : graphs'[p][id] \in Nat
    BY <1>9, Numbers DEF CloseForm, Registry, NoGraphs
  <2> QED BY <1>9, <2>1, AliveClose DEF CloseForm
<1>10. ASSUME NEW S \in SUBSET Plots, CloseProject(S) PROVE Alive'
  BY <1>10, AliveCloseProject
<1>11. CASE UNCHANGED vars
  BY <1>11 DEF vars, Alive, OpenWidgets, OpenPlots, OwnNames, Covered
<1> QED
  BY <1>1, <1>2, <1>3, <1>4, <1>5, <1>6, <1>7, <1>8, <1>9, <1>10, <1>11 DEF Next

\* No entry of a plot outlives its graph, but for plots that an experiment
\* load connected while they were dying.
THEOREM CoveredInvariant == Spec => []Covered
<1>1. Registry /\ Alive => Covered
  BY DEF Alive
<1> QED BY <1>1, RegistryInit, AliveInit, RegistryNext, AliveNext, PTL DEF Spec

\* SetData follows no pointer to a destroyed object, with the same exception.
THEOREM NoDanglingInvariant == Spec => []NoDangling
<1>1. Registry /\ Alive => NoDangling
  BY DEF Alive, OpenWidgets, OpenPlots, NoDangling, Objects
<1> QED BY <1>1, RegistryInit, AliveInit, RegistryNext, AliveNext, PTL DEF Spec
=============================================================================
