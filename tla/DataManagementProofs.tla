------------------------- MODULE DataManagementProofs -------------------------
(***************************************************************************)
(* DataManagement implements Bindings, for every set of ids, objects,      *)
(* windows and files and every bound.                                      *)
(*                                                                         *)
(* The inductive invariant has two halves: what the vectors, windows,      *)
(* dialogs and loads are by themselves (Local), and the inductive          *)
(* invariants of BindingsProofs, read through the refinement mapping.      *)
(* Each step of DataManagement is a step of Bindings or a stutter where    *)
(* both halves hold, so that BindingsProofs carries the second half over   *)
(* it; the second half is what the erase loop needs to do its job: it      *)
(* skips the element after each one it erases, but where a name has one    *)
(* entry there is none to skip.                                            *)
(*                                                                         *)
(* First come the lemmas about the operators DataManagement is built from: *)
(* how often an element occurs in a vector, what the erase loop leaves,    *)
(* and what the calls on the manager, and the folds of calls, change.      *)
(***************************************************************************)
EXTENDS DataManagement, Induction, FiniteSetTheorems

-----------------------------------------------------------------------------
(* Counting.                                                               *)

\* How often o occurs among the first n elements.
CountTo(v, o, n) == Cardinality({i \in 1..n : v[i] = o})

\* Counts are natural numbers, and the first n elements of a vector of length
\* n are all of it.
LEMMA CountType ==
    ASSUME NEW v, NEW o
    PROVE  /\ \A n \in Nat : CountTo(v, o, n) \in Nat
           /\ \A S : v \in Seq(S) => /\ Count(v, o) = CountTo(v, o, Len(v))
                                     /\ Count(v, o) \in Nat
<1>1. ASSUME NEW n \in Nat
      PROVE  CountTo(v, o, n) \in Nat
  <2>1. IsFiniteSet(1..n) /\ {i \in 1..n : v[i] = o} \in SUBSET (1..n)
    BY FS_Interval
  <2>2. IsFiniteSet({i \in 1..n : v[i] = o})
    BY <2>1, FS_Subset
  <2> QED BY <2>2, FS_CardinalityType DEF CountTo
<1>2. ASSUME NEW S, v \in Seq(S)
      PROVE  Count(v, o) = CountTo(v, o, Len(v)) /\ Len(v) \in Nat
  <2>1. DOMAIN v = 1..Len(v) /\ Len(v) \in Nat
    BY <1>2
  <2> QED BY <2>1 DEF Count, CountTo
<1> QED BY <1>1, <1>2

\* Counting one element more.
LEMMA CountStep ==
    ASSUME NEW v, NEW o
    PROVE  /\ CountTo(v, o, 0) = 0
           /\ \A n \in Nat :
                 /\ v[n + 1] = o => CountTo(v, o, n + 1) = CountTo(v, o, n) + 1
                 /\ v[n + 1] # o => CountTo(v, o, n + 1) = CountTo(v, o, n)
<1>1. CountTo(v, o, 0) = 0
  <2>1. {i \in 1..0 : v[i] = o} = {}
    OBVIOUS
  <2> QED BY <2>1, FS_EmptySet DEF CountTo
<1>2. ASSUME NEW n \in Nat
      PROVE  /\ v[n + 1] = o => CountTo(v, o, n + 1) = CountTo(v, o, n) + 1
             /\ v[n + 1] # o => CountTo(v, o, n + 1) = CountTo(v, o, n)
  <2> DEFINE P == {i \in 1..n : v[i] = o}
             Q == {i \in 1..(n + 1) : v[i] = o}
  <2>1. IsFiniteSet(P) /\ n + 1 \notin P
    <3>1. IsFiniteSet(1..n) /\ P \in SUBSET (1..n)
      BY FS_Interval
    <3> QED BY <3>1, FS_Subset
  <2>2. ASSUME v[n + 1] = o
        PROVE  Cardinality(Q) = Cardinality(P) + 1
    <3>1. Q = P \cup {n + 1}
      BY <2>2
    <3> HIDE DEF P, Q
    <3> QED BY <2>1, <3>1, FS_AddElement
  <2>3. ASSUME v[n + 1] # o
        PROVE  Q = P
    BY <2>3
  <2> QED BY <2>2, <2>3 DEF CountTo
<1> QED BY <1>1, <1>2

\* An empty vector, and one with an element more.
LEMMA CountAppend ==
    ASSUME NEW S, NEW v \in Seq(S), NEW x \in S, NEW o
    PROVE  /\ x = o => Count(Append(v, x), o) = Count(v, o) + 1
           /\ x # o => Count(Append(v, x), o) = Count(v, o)
<1> DEFINE w == Append(v, x)
<1>1. w \in Seq(S) /\ Len(w) = Len(v) + 1 /\ w[Len(v) + 1] = x /\ Len(v) \in Nat
  OBVIOUS
<1>2. \A i \in 1..Len(v) : w[i] = v[i]
  OBVIOUS
<1>3. CountTo(w, o, Len(v)) = CountTo(v, o, Len(v))
  BY <1>2 DEF CountTo
<1>4. Count(w, o) = CountTo(w, o, Len(v) + 1)
  BY <1>1, CountType
<1>5. /\ x = o => CountTo(w, o, Len(v) + 1) = CountTo(w, o, Len(v)) + 1
      /\ x # o => CountTo(w, o, Len(v) + 1) = CountTo(w, o, Len(v))
  BY <1>1, CountStep
<1>6. Count(v, o) = CountTo(v, o, Len(v))
  BY CountType
<1> HIDE DEF w
<1>7. /\ x = o => Count(w, o) = Count(v, o) + 1
      /\ x # o => Count(w, o) = Count(v, o)
  BY <1>1, <1>3, <1>4, <1>5, <1>6
<1> QED BY <1>7 DEF w

LEMMA CountEmpty == \A o : Count(<<>>, o) = 0
<1> SUFFICES ASSUME NEW o PROVE Count(<<>>, o) = 0
  OBVIOUS
<1>1. {i \in DOMAIN <<>> : <<>>[i] = o} = {}
  OBVIOUS
<1> QED BY <1>1, FS_EmptySet DEF Count

\* What is counted is there.
LEMMA CountPositive ==
    ASSUME NEW S, NEW v \in Seq(S), NEW o
    PROVE  Count(v, o) > 0 <=> o \in ToSet(v)
<1> DEFINE P == {i \in DOMAIN v : v[i] = o}
<1>1. IsFiniteSet(P)
  <2>1. IsFiniteSet(1..Len(v)) /\ P \in SUBSET (1..Len(v))
    BY FS_Interval
  <2> QED BY <2>1, FS_Subset
<1>2. Cardinality(P) \in Nat /\ (Cardinality(P) = 0 <=> P = {})
  <2> HIDE DEF P
  <2> QED BY <1>1, FS_EmptySet, FS_CardinalityType
<1>3. P # {} <=> o \in ToSet(v)
  BY DEF ToSet
<1> HIDE DEF P
<1>4. Cardinality(P) > 0 <=> o \in ToSet(v)
  BY <1>2, <1>3
<1> QED BY <1>4 DEF Count, P
-----------------------------------------------------------------------------
(* The erase loop.                                                         *)

\* h[i] is the state of the loop after i elements.
EraseRun(h, v, name) ==
    /\ h \in [0..Len(v) -> [kept : Seq(Objects), skip : BOOLEAN]]
    /\ h[0] = [kept |-> <<>>, skip |-> FALSE]
    /\ \A i \in 1..Len(v) :
          h[i] = IF NameOf[v[i]] = name /\ ~h[i - 1].skip
                 THEN [kept |-> h[i - 1].kept, skip |-> TRUE]
                 ELSE [kept |-> Append(h[i - 1].kept, v[i]), skip |-> FALSE]

\* The loop, element by element.
LEMMA EraseUnfolds ==
    ASSUME NEW name, NEW v \in Seq(Objects)
    PROVE  \E h : EraseRun(h, v, name) /\ EraseMatching(v, name) = h[Len(v)].kept
<1> DEFINE S == [kept : Seq(Objects), skip : BOOLEAN]
           N == Len(v)
           base == [kept |-> <<>>, skip |-> FALSE]
           Visit(r, o) == IF NameOf[o] = name /\ ~r.skip
                          THEN [kept |-> r.kept, skip |-> TRUE]
                          ELSE [kept |-> Append(r.kept, o), skip |-> FALSE]
           step == [x \in (1..N) \X S |-> Visit(x[2], v[x[1]])]
           Recursion(f) == f = [s \in SUBSET (1..N) |->
                                  IF s = {} THEN base
                                  ELSE Visit(f[s \ {Max(s)}], v[Max(s)])]
           F == CHOOSE f : Recursion(f)
<1>1. base \in S /\ N \in Nat /\ DOMAIN v = 1..N
  OBVIOUS
<1>2. step \in Turns(N, S)
  <2>1. \A r \in S, o \in Objects : Visit(r, o) \in S
    OBVIOUS
  <2>2. \A x \in (1..N) \X S : v[x[1]] \in Objects /\ x[2] \in S
    OBVIOUS
  <2> HIDE DEF Visit, S
  <2> QED BY <2>1, <2>2 DEF Turns
<1>3. \A s \in SUBSET (1..N) : s # {} => Max(s) \in 1..N
  BY <1>1, MaxIn
<1>4. EraseMatching(v, name) = F[1..N].kept
  BY <1>1 DEF EraseMatching, FoldLeft, MapThenFoldSet
<1>5. \A r \in S, i \in 1..N : step[<<i, r>>] = Visit(r, v[i])
  <2> HIDE DEF Visit, S
  <2> QED OBVIOUS
<1> HIDE DEF Visit, S, base, step, N, Recursion, F
<1>6. Recursion(F)
  <2>1. PICK g : IsFold(g, S, N, base, step)
    BY <1>1, <1>2, FoldExists
  <2>2. Recursion(g)
    BY <1>3, <1>5, <2>1 DEF Recursion, IsFold
  <2> QED BY <2>2 DEF F
<1>7. Follows(F, S, N, base, step)
  BY <1>3, <1>5, <1>6 DEF Recursion, Follows
<1>8. PICK h : ArePrefixes(h, S, N, base, step) /\ F[1..N] = h[N]
  BY <1>1, <1>2, <1>7, FoldPrefixes
<1>9. \A i \in 1..N : h[i] = Visit(h[i - 1], v[i])
  <2> SUFFICES ASSUME NEW i \in 1..N PROVE h[i] = Visit(h[i - 1], v[i])
    OBVIOUS
  <2>1. i - 1 \in 0..N
    BY <1>1
  <2> QED BY <1>5, <1>8, <2>1 DEF ArePrefixes
<1> QED BY <1>4, <1>8, <1>9 DEF ArePrefixes, EraseRun, Visit, base, S, N

\* What the loop leaves: no object gains an entry, objects of other names keep
\* theirs, and if an object of the name has an entry then one of them loses one.
LEMMA EraseLoses ==
    ASSUME NEW name, NEW v \in Seq(Objects)
    PROVE  LET w == EraseMatching(v, name)
           IN  /\ w \in Seq(Objects)
               /\ \A o \in Objects : /\ Count(w, o) <= Count(v, o)
                                     /\ NameOf[o] # name => Count(w, o) = Count(v, o)
               /\ (\E o \in Objects : NameOf[o] = name /\ Count(v, o) > 0) =>
                     \E o \in Objects : NameOf[o] = name /\ Count(w, o) < Count(v, o)
<1> DEFINE N == Len(v)
<1>1. PICK h : EraseRun(h, v, name) /\ EraseMatching(v, name) = h[N].kept
  BY EraseUnfolds
<1> DEFINE Before(o, n) == CountTo(v, o, n)
           After(o, n) == Count(h[n].kept, o)
           Lost(n) == \E o \in Objects : NameOf[o] = name /\ After(o, n) < Before(o, n)
           T == {n \in 0..N :
                   /\ \A o \in Objects : /\ After(o, n) <= Before(o, n)
                                         /\ NameOf[o] # name => After(o, n) = Before(o, n)
                   /\ (\E o \in Objects : NameOf[o] = name /\ Before(o, n) > 0) => Lost(n)
                   /\ h[n].skip => Lost(n)}
<1>2. N \in Nat /\ \A i \in 1..N : v[i] \in Objects
  OBVIOUS
<1> HIDE DEF N
<1>3. \A o, n : n \in 0..N => Before(o, n) \in Nat /\ After(o, n) \in Nat
  <2>1. \A n : n \in 0..N => n \in Nat /\ h[n].kept \in Seq(Objects)
    BY <1>1, <1>2 DEF EraseRun, N
  <2> QED BY <2>1, CountType
<1>4. 0 \in T
  <2>1. h[0] = [kept |-> <<>>, skip |-> FALSE]
    BY <1>1 DEF EraseRun
  <2>2. \A o : Before(o, 0) = 0 /\ After(o, 0) = 0
    BY <2>1, CountStep, CountEmpty
  <2> QED BY <1>2, <2>1, <2>2
<1>5. ASSUME NEW n \in 0..N, n < N, n \in T
      PROVE  n + 1 \in T
  <2>1. n + 1 \in 1..N /\ v[n + 1] \in Objects /\ n + 1 \in 0..N /\ (n + 1) - 1 = n
    BY <1>2, <1>5
  <2>2. \A o : /\ v[n + 1] = o => Before(o, n + 1) = Before(o, n) + 1
               /\ v[n + 1] # o => Before(o, n + 1) = Before(o, n)
    <3>1. n \in Nat
      BY <1>2
    <3> QED BY <3>1, CountStep
  <2>3. CASE NameOf[v[n + 1]] = name /\ ~h[n].skip
    <3>1. h[n + 1] = [kept |-> h[n].kept, skip |-> TRUE]
      BY <1>1, <2>1, <2>3 DEF EraseRun, N
    <3>2. \A o : After(o, n + 1) = After(o, n)
      BY <3>1
    <3>3. After(v[n + 1], n + 1) < Before(v[n + 1], n + 1)
      BY <1>3, <1>5, <2>1, <2>2, <3>2
    <3>4. Lost(n + 1)
      BY <2>1, <2>3, <3>3
    <3>5. ASSUME NEW o \in Objects
          PROVE  /\ After(o, n + 1) <= Before(o, n + 1)
                 /\ NameOf[o] # name => After(o, n + 1) = Before(o, n + 1)
      <4>1. After(o, n) <= Before(o, n) /\ (NameOf[o] # name => After(o, n) = Before(o, n))
        BY <1>5
      <4>2. Before(o, n) \in Nat /\ After(o, n) \in Nat
        BY <1>3
      <4> HIDE DEF Before, After
      <4> QED BY <2>2, <2>3, <3>2, <4>1, <4>2
    <3> HIDE DEF Lost, Before, After
    <3> QED BY <2>1, <3>4, <3>5
  <2>4. CASE ~(NameOf[v[n + 1]] = name /\ ~h[n].skip)
    <3>1. h[n + 1] = [kept |-> Append(h[n].kept, v[n + 1]), skip |-> FALSE]
      BY <1>1, <2>1, <2>4 DEF EraseRun, N
    <3>2. \A o : /\ v[n + 1] = o => After(o, n + 1) = After(o, n) + 1
                 /\ v[n + 1] # o => After(o, n + 1) = After(o, n)
      <4>1. h[n].kept \in Seq(Objects)
        BY <1>1, <2>1 DEF EraseRun, N
      <4> QED BY <2>1, <3>1, <4>1, CountAppend
    <3>3. ASSUME Lost(n) PROVE Lost(n + 1)
      <4>1. PICK o \in Objects : NameOf[o] = name /\ After(o, n) < Before(o, n)
        BY <3>3
      <4>2. After(o, n + 1) < Before(o, n + 1)
        <5> HIDE DEF Before, After
        <5> QED BY <1>3, <2>1, <2>2, <3>2, <4>1
      <4> QED BY <4>1, <4>2
    <3>4. (\E o \in Objects : NameOf[o] = name /\ Before(o, n + 1) > 0) => Lost(n + 1)
      <4>1. CASE NameOf[v[n + 1]] = name
        BY <1>5, <2>4, <3>3, <4>1
      <4>2. CASE NameOf[v[n + 1]] # name
        <5>1. \A o \in Objects : NameOf[o] = name => Before(o, n + 1) = Before(o, n)
          BY <1>3, <2>2, <4>2
        <5> HIDE DEF Lost, Before, After
        <5> QED BY <1>5, <3>3, <5>1
      <4> QED BY <4>1, <4>2
    <3>5. ~h[n + 1].skip
      BY <3>1
    <3>6. ASSUME NEW o \in Objects
          PROVE  /\ After(o, n + 1) <= Before(o, n + 1)
                 /\ NameOf[o] # name => After(o, n + 1) = Before(o, n + 1)
      <4>1. /\ After(o, n) <= Before(o, n)
            /\ NameOf[o] # name => After(o, n) = Before(o, n)
        BY <1>5
      <4> HIDE DEF Before, After
      <4> QED BY <1>3, <2>1, <2>2, <3>2, <4>1
    <3> HIDE DEF Lost, Before, After
    <3> QED BY <2>1, <3>4, <3>5, <3>6
  <2> QED BY <2>3, <2>4
<1>6. N \in T
  <2>1. 0..N \subseteq T
    <3> HIDE DEF T, N
    <3> QED BY <1>2, <1>4, <1>5, BoundedInduction
  <2> QED BY <1>2, <2>1
<1>7. \A o : Before(o, N) = Count(v, o) /\ After(o, N) = Count(EraseMatching(v, name), o)
  BY <1>1, CountType DEF N
<1>8. EraseMatching(v, name) \in Seq(Objects)
  BY <1>1, <1>2 DEF EraseRun, N
<1> HIDE DEF Before, After
<1> QED BY <1>6, <1>7, <1>8

-----------------------------------------------------------------------------
(* Calls on the manager.                                                   *)

ManagerStates == [mapper : [AllIds -> {"absent", "null", "mapper"}],
                  objects : [AllIds -> Seq(Objects)],
                  binding : [Names -> AllIds \cup {None}]]

\* From m to n no container is created or deleted, no object gains an entry,
\* and only objects with a name in N lose any.
Erases(m, n, N) ==
    /\ n \in ManagerStates
    /\ \A id \in AllIds : n.mapper[id] = "mapper" <=> m.mapper[id] = "mapper"
    /\ \A id \in AllIds, o \in Objects :
          /\ Count(n.objects[id], o) <= Count(m.objects[id], o)
          /\ NameOf[o] \notin N => Count(n.objects[id], o) = Count(m.objects[id], o)

\* From m to n each of k[id] calls for an id has erased an entry of p, if p is
\* the only object of its name with entries there.
ErasesOwn(m, n, p, k) ==
    \A id \in Ids :
        (\A q \in Objects : NameOf[q] = NameOf[p] /\ q # p => Count(m.objects[id], q) = 0) =>
            \/ Count(n.objects[id], p) = 0
            \/ Count(n.objects[id], p) + k[id] <= Count(m.objects[id], p)

\* A widget's name has at most one entry, where it is bound.
Homed(m) ==
    \A id \in Ids, w \in Widgets :
        Count(m.objects[id], w) > 0 =>
            /\ Count(m.objects[id], w) = 1
            /\ m.binding[NameOf[w]] = id
            /\ \A q \in Objects : NameOf[q] = NameOf[w] /\ q # w => Count(m.objects[id], q) = 0

\* Counts in a manager are natural numbers.
LEMMA ManagerCounts ==
    ASSUME NEW m \in ManagerStates
    PROVE  /\ \A id \in AllIds : m.objects[id] \in Seq(Objects)
           /\ \A id \in AllIds : \A o : Count(m.objects[id], o) \in Nat
<1>1. \A id \in AllIds : m.objects[id] \in Seq(Objects)
  BY DEF ManagerStates
<1> QED BY <1>1, CountType

\* Erasing nothing, erasing twice.
LEMMA ErasesNothing ==
    ASSUME NEW m \in ManagerStates, NEW N
    PROVE  Erases(m, m, N)
BY ManagerCounts DEF Erases

LEMMA ErasesTwice ==
    ASSUME NEW m1 \in ManagerStates, NEW m2, NEW m3, NEW M, NEW N,
           Erases(m1, m2, M), Erases(m2, m3, N)
    PROVE  Erases(m1, m3, M \cup N)
<1>1. m2 \in ManagerStates /\ m3 \in ManagerStates
  BY DEF Erases
<1>2. ASSUME NEW id \in AllIds, NEW o \in Objects
      PROVE  /\ Count(m3.objects[id], o) <= Count(m1.objects[id], o)
             /\ NameOf[o] \notin M \cup N => Count(m3.objects[id], o) = Count(m1.objects[id], o)
  <2>1. /\ Count(m1.objects[id], o) \in Nat
        /\ Count(m2.objects[id], o) \in Nat
        /\ Count(m3.objects[id], o) \in Nat
    BY <1>1, ManagerCounts
  <2> QED BY <2>1 DEF Erases
<1> QED BY <1>1, <1>2 DEF Erases

\* ErasesOwn is not undone by what is erased before or after.
LEMMA ErasesOwnBetween ==
    ASSUME NEW m1 \in ManagerStates, NEW m2, NEW m3 \in ManagerStates, NEW m4,
           NEW M, NEW N, NEW p \in Objects, NEW k \in [Ids -> Nat],
           Erases(m1, m2, M), ErasesOwn(m2, m3, p, k), Erases(m3, m4, N)
    PROVE  ErasesOwn(m1, m4, p, k)
<1> SUFFICES ASSUME NEW id \in Ids,
                    \A q \in Objects : NameOf[q] = NameOf[p] /\ q # p
                                         => Count(m1.objects[id], q) = 0
             PROVE  \/ Count(m4.objects[id], p) = 0
                    \/ Count(m4.objects[id], p) + k[id] <= Count(m1.objects[id], p)
  BY DEF ErasesOwn
<1>1. id \in AllIds /\ k[id] \in Nat /\ m2 \in ManagerStates /\ m4 \in ManagerStates
  BY DEF AllIds, Erases
<1>2. \A o : /\ Count(m1.objects[id], o) \in Nat /\ Count(m2.objects[id], o) \in Nat
             /\ Count(m3.objects[id], o) \in Nat /\ Count(m4.objects[id], o) \in Nat
  BY <1>1, ManagerCounts
<1>3. \A q \in Objects : NameOf[q] = NameOf[p] /\ q # p => Count(m2.objects[id], q) = 0
  <2> SUFFICES ASSUME NEW q \in Objects, NameOf[q] = NameOf[p], q # p
               PROVE  Count(m2.objects[id], q) = 0
    OBVIOUS
  <2>1. Count(m2.objects[id], q) <= Count(m1.objects[id], q) /\ Count(m1.objects[id], q) = 0
    BY <1>1 DEF Erases
  <2> QED BY <1>2, <2>1
<1>4. \/ Count(m3.objects[id], p) = 0
      \/ Count(m3.objects[id], p) + k[id] <= Count(m2.objects[id], p)
  BY <1>3 DEF ErasesOwn
<1>5. /\ Count(m2.objects[id], p) <= Count(m1.objects[id], p)
      /\ Count(m4.objects[id], p) <= Count(m3.objects[id], p)
  BY <1>1 DEF Erases
<1> QED BY <1>1, <1>2, <1>4, <1>5

\* From m to n, one call erases from the vector of id: if an object of the name
\* has an entry, then one of them loses one.
OneCall(m, n, id, name) ==
    /\ Erases(m, n, {name})
    /\ n.binding = m.binding
    /\ (\E o \in Objects : NameOf[o] = name /\ Count(m.objects[id], o) > 0) =>
          \E o \in Objects : /\ NameOf[o] = name
                             /\ Count(n.objects[id], o) < Count(m.objects[id], o)

\* DeleteEntryOfObject(id, object): an erase loop over one vector.
LEMMA DeleteEntryInErases ==
    ASSUME NEW m \in ManagerStates, NEW id \in AllIds, NEW name
    PROVE  OneCall(m, DeleteEntryIn(m, id, name), id, name)
<1> DEFINE n == DeleteEntryIn(m, id, name)
           v == m.objects[id]
           w == EraseMatching(v, name)
<1>1. v \in Seq(Objects)
  BY ManagerCounts
<1>2. /\ w \in Seq(Objects)
      /\ \A o \in Objects : /\ Count(w, o) <= Count(v, o)
                            /\ NameOf[o] # name => Count(w, o) = Count(v, o)
      /\ (\E o \in Objects : NameOf[o] = name /\ Count(v, o) > 0) =>
            \E o \in Objects : NameOf[o] = name /\ Count(w, o) < Count(v, o)
  <2> HIDE DEF v
  <2> QED BY <1>1, EraseLoses
<1> DEFINE l == LookupOrInsert(m, id)
<1>3. /\ l \in ManagerStates /\ l.objects = m.objects /\ l.binding = m.binding
      /\ \A j \in AllIds : l.mapper[j] = "mapper" <=> m.mapper[j] = "mapper"
  BY DEF LookupOrInsert, ManagerStates
<1>4. n = [l EXCEPT !.objects[id] = w]
  BY <1>3 DEF DeleteEntryIn
<1> HIDE DEF n, w, v, l
<1>5. /\ n \in ManagerStates /\ n.mapper = l.mapper /\ n.binding = l.binding
      /\ n.objects = [l.objects EXCEPT ![id] = w]
  BY <1>2, <1>3, <1>4 DEF ManagerStates
<1>6. n.objects[id] = w /\ \A j \in AllIds : j # id => n.objects[j] = m.objects[j]
  BY <1>3, <1>5 DEF ManagerStates
<1>7. Erases(m, n, {name})
  <2>1. ASSUME NEW j \in AllIds, NEW o \in Objects
        PROVE  /\ Count(n.objects[j], o) <= Count(m.objects[j], o)
               /\ NameOf[o] # name => Count(n.objects[j], o) = Count(m.objects[j], o)
    <3>1. CASE j = id
      BY <1>2, <1>6, <3>1 DEF v
    <3>2. CASE j # id
      <4>1. Count(m.objects[j], o) \in Nat
        BY ManagerCounts
      <4> QED BY <1>6, <3>2, <4>1
    <3> QED BY <3>1, <3>2
  <2> QED BY <1>3, <1>5, <2>1 DEF Erases
<1> QED BY <1>2, <1>3, <1>5, <1>6, <1>7 DEF OneCall, n, v

\* The calls for the first i of the ids.
ClearRun(h, m, p) ==
    /\ h \in [0..Len(graphs[p]) -> ManagerStates]
    /\ h[0] = m
    /\ \A i \in 1..Len(graphs[p]) :
          h[i] = DeleteEntryIn(h[i - 1], graphs[p][i], NameOf[p])

\* ClearAllGraphs, call by call.
LEMMA ClearUnfolds ==
    ASSUME NEW m \in ManagerStates, NEW p, graphs[p] \in Seq(Ids)
    PROVE  \E h : ClearRun(h, m, p) /\ ClearAllGraphs(m, p) = h[Len(graphs[p])]
<1> DEFINE N == Len(graphs[p])
           S == ManagerStates
           Delete(n, id) == DeleteEntryIn(n, id, NameOf[p])
           step == [x \in (1..N) \X S |-> Delete(x[2], graphs[p][x[1]])]
           Recursion(f) == f = [s \in SUBSET (1..N) |->
                                  IF s = {} THEN m
                                  ELSE Delete(f[s \ {Max(s)}], graphs[p][Max(s)])]
           F == CHOOSE f : Recursion(f)
<1>1. N \in Nat /\ DOMAIN graphs[p] = 1..N /\ \A i \in 1..N : graphs[p][i] \in AllIds
  BY DEF AllIds
<1>2. step \in Turns(N, S)
  <2>1. \A n \in S, id \in AllIds : Delete(n, id) \in S
    BY DeleteEntryInErases DEF OneCall, Erases
  <2>2. \A x \in (1..N) \X S : graphs[p][x[1]] \in AllIds /\ x[2] \in S
    BY <1>1
  <2> HIDE DEF Delete, S
  <2> QED BY <2>1, <2>2 DEF Turns
<1>3. \A s \in SUBSET (1..N) : s # {} => Max(s) \in 1..N
  BY <1>1, MaxIn
<1>4. ClearAllGraphs(m, p) = F[1..N]
  BY <1>1 DEF ClearAllGraphs, FoldLeft, MapThenFoldSet
<1>5. \A n \in S, i \in 1..N : step[<<i, n>>] = Delete(n, graphs[p][i])
  <2> HIDE DEF Delete, S
  <2> QED OBVIOUS
<1> HIDE DEF Delete, S, step, N, Recursion, F
<1>6. Recursion(F)
  <2>1. PICK g : IsFold(g, S, N, m, step)
    BY <1>1, <1>2, FoldExists DEF S
  <2>2. Recursion(g)
    BY <1>3, <1>5, <2>1 DEF Recursion, IsFold
  <2> QED BY <2>2 DEF F
<1>7. Follows(F, S, N, m, step)
  BY <1>3, <1>5, <1>6 DEF Recursion, Follows
<1>8. PICK h : ArePrefixes(h, S, N, m, step) /\ F[1..N] = h[N]
  BY <1>1, <1>2, <1>7, FoldPrefixes DEF S
<1>9. \A i \in 1..N : h[i] = Delete(h[i - 1], graphs[p][i])
  <2> SUFFICES ASSUME NEW i \in 1..N PROVE h[i] = Delete(h[i - 1], graphs[p][i])
    OBVIOUS
  <2>1. i - 1 \in 0..N
    BY <1>1
  <2> QED BY <1>5, <1>8, <2>1 DEF ArePrefixes
<1> QED BY <1>4, <1>8, <1>9 DEF ArePrefixes, ClearRun, Delete, S, N

\* The graphs a plot draws for each id.
DrawnBy(p) == [id \in Ids |-> Count(graphs[p], id)]

\* From m to n the plots of P have unsubscribed: each has erased once for each
\* of its graphs.
ClearsAll(m, n, P) ==
    /\ Erases(m, n, {NameOf[p] : p \in P})
    /\ n.binding = m.binding
    /\ \A p \in P : ErasesOwn(m, n, p, DrawnBy(p))

\* A plot that unsubscribes makes one erasing call for each graph it draws.
LEMMA ClearErases ==
    ASSUME NEW m \in ManagerStates, NEW p \in Objects, graphs[p] \in Seq(Ids)
    PROVE  ClearsAll(m, ClearAllGraphs(m, p), {p})
<1> DEFINE N == Len(graphs[p])
           v == graphs[p]
<1>1. PICK h : ClearRun(h, m, p) /\ ClearAllGraphs(m, p) = h[N]
  BY ClearUnfolds
<1>2. N \in Nat /\ \A i \in 1..N : v[i] \in AllIds
  BY DEF AllIds
<1> DEFINE Alone(id) == \A q \in Objects : NameOf[q] = NameOf[p] /\ q # p
                                           => Count(m.objects[id], q) = 0
           Own(n) == \A id \in Ids : Alone(id) =>
                        \/ Count(h[n].objects[id], p) = 0
                        \/ Count(h[n].objects[id], p) + CountTo(v, id, n) <= Count(m.objects[id], p)
           T == {n \in 0..N : /\ Erases(m, h[n], {NameOf[p]})
                              /\ h[n].binding = m.binding
                              /\ Own(n)}
<1> HIDE DEF N
<1>3. \A n \in 0..N : h[n] \in ManagerStates
  BY <1>1 DEF ClearRun, N
<1>4. 0 \in T
  <2>1. h[0] = m
    BY <1>1 DEF ClearRun
  <2>2. Own(0)
    <3> SUFFICES ASSUME NEW id \in Ids
                 PROVE  Count(m.objects[id], p) + CountTo(v, id, 0) <= Count(m.objects[id], p)
      BY <2>1
    <3>1. Count(m.objects[id], p) \in Nat
      BY ManagerCounts DEF AllIds
    <3>2. CountTo(v, id, 0) = 0
      BY CountStep
    <3> QED BY <3>1, <3>2
  <2>3. Erases(m, h[0], {NameOf[p]})
    BY <2>1, ErasesNothing
  <2> HIDE DEF Own
  <2> QED BY <1>2, <2>1, <2>2, <2>3
<1>5. ASSUME NEW n \in 0..N, n < N, n \in T
      PROVE  n + 1 \in T
  <2>1. n + 1 \in 1..N /\ v[n + 1] \in AllIds /\ n + 1 \in 0..N /\ (n + 1) - 1 = n /\ n \in Nat
    BY <1>2, <1>5
  <2>2. h[n + 1] = DeleteEntryIn(h[n], v[n + 1], NameOf[p])
    BY <1>1, <2>1 DEF ClearRun, N
  <2>3. OneCall(h[n], h[n + 1], v[n + 1], NameOf[p])
    BY <1>3, <2>1, <2>2, DeleteEntryInErases
  <2>4. Erases(m, h[n + 1], {NameOf[p]})
    <3>1. Erases(m, h[n], {NameOf[p]}) /\ {NameOf[p]} \cup {NameOf[p]} = {NameOf[p]}
      BY <1>5
    <3>2. Erases(m, h[n + 1], {NameOf[p]} \cup {NameOf[p]})
      BY <2>3, <3>1, ErasesTwice DEF OneCall
    <3> QED BY <3>1, <3>2
  <2>5. ASSUME NEW id \in Ids, Alone(id)
        PROVE  \/ Count(h[n + 1].objects[id], p) = 0
               \/ Count(h[n + 1].objects[id], p) + CountTo(v, id, n + 1) <= Count(m.objects[id], p)
    <3>1. id \in AllIds /\ CountTo(v, id, n) \in Nat
      BY <2>1, CountType DEF AllIds
    <3>2. \A o : /\ Count(m.objects[id], o) \in Nat /\ Count(h[n].objects[id], o) \in Nat
                 /\ Count(h[n + 1].objects[id], o) \in Nat
      BY <1>3, <2>1, <3>1, ManagerCounts
    <3>3. \/ Count(h[n].objects[id], p) = 0
          \/ Count(h[n].objects[id], p) + CountTo(v, id, n) <= Count(m.objects[id], p)
      BY <1>5, <2>5
    <3>4. Count(h[n + 1].objects[id], p) <= Count(h[n].objects[id], p)
      BY <2>3, <3>1 DEF OneCall, Erases
    <3>5. CASE v[n + 1] # id
      <4>1. CountTo(v, id, n + 1) = CountTo(v, id, n)
        BY <2>1, <3>5, CountStep
      <4> QED BY <3>1, <3>2, <3>3, <3>4, <4>1
    <3>6. CASE v[n + 1] = id
      <4>1. CountTo(v, id, n + 1) = CountTo(v, id, n) + 1
        BY <2>1, <3>6, CountStep
      <4>2. CASE Count(h[n].objects[id], p) = 0
        BY <3>2, <3>4, <4>2
      <4>3. CASE Count(h[n].objects[id], p) > 0
        <5>1. PICK o \in Objects : /\ NameOf[o] = NameOf[p]
                                   /\ Count(h[n + 1].objects[id], o) < Count(h[n].objects[id], o)
          BY <2>3, <3>6, <4>3 DEF OneCall
        <5>2. Count(h[n].objects[id], o) <= Count(m.objects[id], o)
          BY <1>5, <3>1 DEF Erases
        <5>3. o = p
          BY <2>5, <3>2, <5>1, <5>2
        <5> QED BY <3>1, <3>2, <3>3, <4>1, <4>3, <5>1, <5>3
      <4> QED BY <3>2, <4>2, <4>3
    <3> QED BY <3>5, <3>6
  <2>6. Own(n + 1)
    BY <2>5
  <2> HIDE DEF Own
  <2> QED BY <1>5, <2>1, <2>3, <2>4, <2>6 DEF OneCall
<1>6. N \in T
  <2>1. 0..N \subseteq T
    <3> HIDE DEF T
    <3> QED BY <1>2, <1>4, <1>5, BoundedInduction
  <2> HIDE DEF T
  <2> QED BY <1>2, <2>1
<1>7. \A id : Count(graphs[p], id) = CountTo(v, id, N)
  BY CountType DEF N
<1>8. ErasesOwn(m, h[N], p, DrawnBy(p))
  BY <1>6, <1>7 DEF ErasesOwn, DrawnBy
<1>9. {NameOf[q] : q \in {p}} = {NameOf[p]}
  OBVIOUS
<1> QED BY <1>1, <1>6, <1>8, <1>9 DEF ClearsAll

\* Nothing is cleared, more plots are cleared.
LEMMA ClearsNothing ==
    ASSUME NEW m \in ManagerStates
    PROVE  ClearsAll(m, m, {})
BY ErasesNothing DEF ClearsAll

LEMMA ClearsMore ==
    ASSUME graphs \in [Plots -> Seq(Ids)], NEW m1 \in ManagerStates, NEW m2, NEW m3,
           NEW P \in SUBSET Plots, NEW Q \in SUBSET Plots,
           ClearsAll(m1, m2, P), ClearsAll(m2, m3, Q)
    PROVE  ClearsAll(m1, m3, P \cup Q)
<1>1. m2 \in ManagerStates /\ m3 \in ManagerStates
  BY DEF ClearsAll, Erases
<1>2. Erases(m1, m3, {NameOf[p] : p \in P \cup Q})
  <2>1. {NameOf[p] : p \in P \cup Q} = {NameOf[p] : p \in P} \cup {NameOf[p] : p \in Q}
    OBVIOUS
  <2>2. /\ Erases(m1, m2, {NameOf[p] : p \in P})
        /\ Erases(m2, m3, {NameOf[p] : p \in Q})
    BY DEF ClearsAll
  <2>3. Erases(m1, m3, {NameOf[p] : p \in P} \cup {NameOf[p] : p \in Q})
    BY <2>2, ErasesTwice
  <2> QED BY <2>1, <2>3
<1>3. ASSUME NEW p \in P \cup Q
      PROVE  ErasesOwn(m1, m3, p, DrawnBy(p))
  <2>1. p \in Objects /\ DrawnBy(p) \in [Ids -> Nat]
    <3>1. p \in Objects /\ graphs[p] \in Seq(Ids)
      BY DEF Objects
    <3> QED BY <3>1, CountType DEF DrawnBy
  <2>2. CASE p \in P
    <3>1. /\ Erases(m1, m1, {}) /\ ErasesOwn(m1, m2, p, DrawnBy(p))
          /\ Erases(m2, m3, {NameOf[q] : q \in Q})
      BY <2>2, ErasesNothing DEF ClearsAll
    <3> QED BY <1>1, <2>1, <3>1, ErasesOwnBetween
  <2>3. CASE p \in Q
    <3>1. /\ Erases(m1, m2, {NameOf[q] : q \in P}) /\ ErasesOwn(m2, m3, p, DrawnBy(p))
          /\ Erases(m3, m3, {})
      BY <1>1, <2>3, ErasesNothing DEF ClearsAll
    <3> QED BY <1>1, <2>1, <3>1, ErasesOwnBetween
  <2> QED BY <2>2, <2>3
<1>4. m3.binding = m1.binding
  BY DEF ClearsAll
<1> QED BY <1>2, <1>3, <1>4 DEF ClearsAll

\* The clearing after the first i objects of a window.
ClearPlotsRun(h, m, content) ==
    /\ h \in [0..Len(content) -> ManagerStates]
    /\ h[0] = m
    /\ \A i \in 1..Len(content) :
          h[i] = IF content[i] \in Plots THEN ClearAllGraphs(h[i - 1], content[i])
                 ELSE h[i - 1]

\* ClearPlots, object by object.
LEMMA ClearPlotsUnfolds ==
    ASSUME graphs \in [Plots -> Seq(Ids)],
           NEW m \in ManagerStates, NEW content \in Seq(Objects)
    PROVE  \E h : ClearPlotsRun(h, m, content) /\ ClearPlots(m, content) = h[Len(content)]
<1> DEFINE N == Len(content)
           S == ManagerStates
           Clear(n, o) == IF o \in Plots THEN ClearAllGraphs(n, o) ELSE n
           step == [x \in (1..N) \X S |-> Clear(x[2], content[x[1]])]
           Recursion(f) == f = [s \in SUBSET (1..N) |->
                                  IF s = {} THEN m
                                  ELSE Clear(f[s \ {Max(s)}], content[Max(s)])]
           F == CHOOSE f : Recursion(f)
<1>1. N \in Nat /\ DOMAIN content = 1..N /\ \A i \in 1..N : content[i] \in Objects
  OBVIOUS
<1>2. step \in Turns(N, S)
  <2>1. \A n \in S, o \in Objects : Clear(n, o) \in S
    BY ClearErases DEF ClearsAll, Erases
  <2>2. \A x \in (1..N) \X S : content[x[1]] \in Objects /\ x[2] \in S
    BY <1>1
  <2> HIDE DEF Clear, S
  <2> QED BY <2>1, <2>2 DEF Turns
<1>3. \A s \in SUBSET (1..N) : s # {} => Max(s) \in 1..N
  BY <1>1, MaxIn
<1>4. ClearPlots(m, content) = F[1..N]
  BY <1>1 DEF ClearPlots, FoldLeft, MapThenFoldSet
<1>5. \A n \in S, i \in 1..N : step[<<i, n>>] = Clear(n, content[i])
  <2> HIDE DEF Clear, S
  <2> QED OBVIOUS
<1> HIDE DEF Clear, S, step, N, Recursion, F
<1>6. Recursion(F)
  <2>1. PICK g : IsFold(g, S, N, m, step)
    BY <1>1, <1>2, FoldExists DEF S
  <2>2. Recursion(g)
    BY <1>3, <1>5, <2>1 DEF Recursion, IsFold
  <2> QED BY <2>2 DEF F
<1>7. Follows(F, S, N, m, step)
  BY <1>3, <1>5, <1>6 DEF Recursion, Follows
<1>8. PICK h : ArePrefixes(h, S, N, m, step) /\ F[1..N] = h[N]
  BY <1>1, <1>2, <1>7, FoldPrefixes DEF S
<1>9. \A i \in 1..N : h[i] = Clear(h[i - 1], content[i])
  <2> SUFFICES ASSUME NEW i \in 1..N PROVE h[i] = Clear(h[i - 1], content[i])
    OBVIOUS
  <2>1. i - 1 \in 0..N
    BY <1>1
  <2> QED BY <1>5, <1>8, <2>1 DEF ArePrefixes
<1> QED BY <1>4, <1>8, <1>9 DEF ArePrefixes, ClearPlotsRun, Clear, S, N

\* All plots of a closing window unsubscribe.
LEMMA ClearPlotsErases ==
    ASSUME graphs \in [Plots -> Seq(Ids)],
           NEW m \in ManagerStates, NEW content \in Seq(Objects)
    PROVE  ClearsAll(m, ClearPlots(m, content), ToSet(content) \cap Plots)
<1> DEFINE N == Len(content)
           Done(n) == {content[i] : i \in 1..n} \cap Plots
<1>1. PICK h : ClearPlotsRun(h, m, content) /\ ClearPlots(m, content) = h[N]
  BY ClearPlotsUnfolds
<1> DEFINE T == {n \in 0..N : ClearsAll(m, h[n], Done(n))}
<1>2. N \in Nat /\ ToSet(content) = {content[i] : i \in 1..N}
  BY DEF ToSet
<1> HIDE DEF N
<1>3. 0 \in T
  <2>1. h[0] = m /\ Done(0) = {}
    BY <1>1 DEF ClearPlotsRun
  <2>2. ClearsAll(m, h[0], {})
    BY <2>1, ClearsNothing
  <2>3. ClearsAll(m, h[0], Done(0))
    <3> HIDE DEF Done, T
    <3> QED BY <2>1, <2>2, Zenon
  <2>4. 0 \in 0..N
    <3> HIDE DEF T
    <3> QED BY <1>2
  <2> HIDE DEF Done
  <2> QED BY <2>3, <2>4
<1>4. ASSUME NEW n \in 0..N, n < N, n \in T
      PROVE  n + 1 \in T
  <2>1. n + 1 \in 1..N /\ n + 1 \in 0..N /\ (n + 1) - 1 = n
    BY <1>2, <1>4
  <2>2. content[n + 1] \in Objects /\ h[n] \in ManagerStates
    BY <1>1, <2>1 DEF ClearPlotsRun, N
  <2>3. Done(n) \subseteq Plots /\ ClearsAll(m, h[n], Done(n))
    BY <1>4
  <2>4. CASE content[n + 1] \in Plots
    <3>1. h[n + 1] = ClearAllGraphs(h[n], content[n + 1])
      BY <1>1, <2>1, <2>4 DEF ClearPlotsRun, N
    <3>2. graphs[content[n + 1]] \in Seq(Ids)
      BY <2>4
    <3>3. ClearsAll(h[n], h[n + 1], {content[n + 1]})
      BY <2>2, <3>1, <3>2, ClearErases
    <3>4. Done(n + 1) = Done(n) \cup {content[n + 1]}
      BY <2>1, <2>4
    <3>5. {content[n + 1]} \subseteq Plots
      BY <2>4
    <3> HIDE DEF Done
    <3>6. ClearsAll(m, h[n + 1], Done(n) \cup {content[n + 1]})
      BY <2>3, <3>3, <3>5, ClearsMore
    <3> QED BY <2>1, <3>4, <3>6
  <2>5. CASE content[n + 1] \notin Plots
    <3>1. h[n + 1] = h[n]
      BY <1>1, <2>1, <2>5 DEF ClearPlotsRun, N
    <3>2. Done(n + 1) = Done(n)
      BY <2>1, <2>5
    <3> HIDE DEF Done
    <3> QED BY <2>1, <2>3, <3>1, <3>2
  <2> QED BY <2>4, <2>5
<1>5. N \in T
  <2> HIDE DEF T
  <2>1. 0..N \subseteq T
    BY <1>2, <1>3, <1>4, BoundedInduction
  <2> QED BY <1>2, <2>1
<1> QED BY <1>1, <1>2, <1>5

\* From m to n the names of N have been unbound, and where widgets have one
\* home no widget of these names has an entry left.
Unbinds(m, n, N) ==
    /\ Erases(m, n, N)
    /\ n.binding = [x \in Names |-> IF x \in N THEN None ELSE m.binding[x]]
    /\ Homed(m) => /\ Homed(n)
                   /\ \A id \in Ids, w \in Widgets :
                         NameOf[w] \in N => Count(n.objects[id], w) = 0

\* Widgets keep to one home while entries are erased.
LEMMA HomedErased ==
    ASSUME NEW m \in ManagerStates, NEW n, NEW N, Erases(m, n, N), Homed(m),
           \A id \in Ids, w \in Widgets : Count(n.objects[id], w) > 0 =>
               n.binding[NameOf[w]] = m.binding[NameOf[w]]
    PROVE  Homed(n)
<1> SUFFICES ASSUME NEW id \in Ids, NEW w \in Widgets, Count(n.objects[id], w) > 0
             PROVE  /\ Count(n.objects[id], w) = 1
                    /\ n.binding[NameOf[w]] = id
                    /\ \A q \in Objects : NameOf[q] = NameOf[w] /\ q # w
                                           => Count(n.objects[id], q) = 0
  BY DEF Homed
<1>1. \A o \in Objects : /\ Count(m.objects[id], o) \in Nat /\ Count(n.objects[id], o) \in Nat
                        /\ Count(n.objects[id], o) <= Count(m.objects[id], o)
  BY ManagerCounts DEF Erases, AllIds
<1>2. w \in Objects /\ Count(m.objects[id], w) > 0
  <2>1. w \in Objects
    BY DEF Objects
  <2> QED BY <1>1, <2>1
<1>3. /\ Count(m.objects[id], w) = 1
      /\ m.binding[NameOf[w]] = id
      /\ \A q \in Objects : NameOf[q] = NameOf[w] /\ q # w => Count(m.objects[id], q) = 0
  BY <1>2 DEF Homed
<1> QED BY <1>1, <1>2, <1>3

\* Unbinding nothing, more names.
LEMMA UnbindsNothing ==
    ASSUME NEW m \in ManagerStates
    PROVE  Unbinds(m, m, {})
BY ErasesNothing DEF Unbinds, ManagerStates

LEMMA UnbindsMore ==
    ASSUME NEW m1 \in ManagerStates, NEW m2, NEW m3, NEW M, NEW N,
           Unbinds(m1, m2, M), Unbinds(m2, m3, N)
    PROVE  Unbinds(m1, m3, M \cup N)
<1>1. Erases(m1, m3, M \cup N)
  BY ErasesTwice DEF Unbinds
<1>2. m3.binding = [x \in Names |-> IF x \in M \cup N THEN None ELSE m1.binding[x]]
  BY DEF Unbinds
<1>3. ASSUME Homed(m1)
      PROVE  /\ Homed(m3)
             /\ \A id \in Ids, w \in Widgets :
                   NameOf[w] \in M \cup N => Count(m3.objects[id], w) = 0
  <2>1. /\ Homed(m2) /\ Homed(m3)
        /\ m2 \in ManagerStates /\ m3 \in ManagerStates
    BY <1>3 DEF Unbinds, Erases
  <2>2. ASSUME NEW id \in Ids, NEW w \in Widgets, NameOf[w] \in M
        PROVE  Count(m3.objects[id], w) = 0
    <3>1. Count(m2.objects[id], w) = 0
      BY <1>3, <2>2 DEF Unbinds
    <3>2. Count(m3.objects[id], w) \in Nat /\ Count(m3.objects[id], w) <= Count(m2.objects[id], w)
      BY <2>1, ManagerCounts DEF Unbinds, Erases, AllIds, Objects
    <3> QED BY <3>1, <3>2
  <2>3. ASSUME NEW id \in Ids, NEW w \in Widgets, NameOf[w] \in N
        PROVE  Count(m3.objects[id], w) = 0
    BY <2>1, <2>3 DEF Unbinds
  <2> QED BY <2>1, <2>2, <2>3
<1> QED BY <1>1, <1>2, <1>3 DEF Unbinds

\* DeleteEntryOfObject(object).
LEMMA DeleteEntryUnbinds ==
    ASSUME NEW m \in ManagerStates, NEW name \in Names
    PROVE  Unbinds(m, DeleteEntry(m, name), {name})
<1> DEFINE n == DeleteEntry(m, name)
           id == m.binding[name]
           k == [m EXCEPT !.binding[name] = None]
<1>1. k \in ManagerStates /\ k.objects = m.objects /\ k.mapper = m.mapper
      /\ k.binding = [m.binding EXCEPT ![name] = None]
  BY DEF ManagerStates
<1>2. CASE id = None
  <2>1. n = m /\ m.binding = [x \in Names |-> IF x \in {name} THEN None ELSE m.binding[x]]
    BY <1>2 DEF DeleteEntry, ManagerStates
  <2>2. Homed(m) => \A j \in Ids, w \in Widgets :
                       NameOf[w] \in {name} => Count(m.objects[j], w) = 0
    <3> SUFFICES ASSUME Homed(m), NEW j \in Ids, NEW w \in Widgets, NameOf[w] = name
                 PROVE  Count(m.objects[j], w) = 0
      OBVIOUS
    <3>1. Count(m.objects[j], w) \in Nat
      BY ManagerCounts DEF AllIds
    <3>2. ~ (Count(m.objects[j], w) > 0)
      BY <1>2, WindowsAssumption DEF Homed
    <3> QED BY <3>1, <3>2
  <2>3. Erases(m, n, {name})
    BY <2>1, ErasesNothing
  <2>4. Homed(m) => Homed(n)
    BY <2>1
  <2> HIDE DEF n, id, k
  <2>5. Unbinds(m, n, {name})
    BY <2>1, <2>2, <2>3, <2>4 DEF Unbinds
  <2> QED BY <2>5 DEF n
<1>3. CASE id # None
  <2>1. id \in AllIds
    BY <1>3 DEF ManagerStates
  <2>2. n = DeleteEntryIn(k, id, name)
    BY <1>3 DEF DeleteEntry
  <2> HIDE DEF n, k, id
  <2>3. OneCall(k, n, id, name)
    BY <1>1, <2>1, <2>2, DeleteEntryInErases
  <2>4. Erases(m, n, {name})
    BY <1>1, <2>3 DEF OneCall, Erases
  <2>5. n.binding = [x \in Names |-> IF x \in {name} THEN None ELSE m.binding[x]]
    BY <1>1, <2>3 DEF OneCall, ManagerStates
  <2>6. ASSUME Homed(m), NEW j \in Ids, NEW w \in Widgets, NameOf[w] = name
        PROVE  Count(n.objects[j], w) = 0
    <3>1. j \in AllIds /\ w \in Objects
      BY DEF AllIds, Objects
    <3>2. n \in ManagerStates
      BY <2>4 DEF Erases
    <3>3. \A o \in Objects : /\ Count(m.objects[j], o) \in Nat /\ Count(n.objects[j], o) \in Nat
                            /\ Count(n.objects[j], o) <= Count(m.objects[j], o)
      BY <2>4, <3>1, <3>2, ManagerCounts DEF Erases
    <3>4. CASE Count(m.objects[j], w) = 0
      BY <3>1, <3>3, <3>4
    <3>5. CASE Count(m.objects[j], w) > 0
      <4>1. /\ Count(m.objects[j], w) = 1
            /\ j = id
            /\ \A q \in Objects : NameOf[q] = name /\ q # w => Count(m.objects[j], q) = 0
        BY <2>6, <3>5 DEF Homed, id
      <4>2. PICK o \in Objects : /\ NameOf[o] = name
                                 /\ Count(n.objects[j], o) < Count(m.objects[j], o)
        BY <1>1, <2>3, <2>6, <3>1, <3>5, <4>1 DEF OneCall
      <4>3. o = w
        BY <3>3, <4>1, <4>2
      <4> QED BY <3>1, <3>3, <4>1, <4>2, <4>3
    <3> QED BY <3>1, <3>3, <3>4, <3>5
  <2>7. ASSUME Homed(m) PROVE Homed(n)
    <3>1. ASSUME NEW j \in Ids, NEW w \in Widgets, Count(n.objects[j], w) > 0
          PROVE  n.binding[NameOf[w]] = m.binding[NameOf[w]]
      <4>1. NameOf[w] # name /\ NameOf[w] \in Names
        BY <2>6, <2>7, <3>1, WindowsAssumption DEF Objects
      <4> QED BY <2>5, <4>1
    <3> QED BY <2>4, <2>7, <3>1, HomedErased
  <2>8. Unbinds(m, n, {name})
    BY <2>4, <2>5, <2>6, <2>7 DEF Unbinds
  <2> QED BY <2>8 DEF n
<1> QED BY <1>2, <1>3

\* The deletions for the first i objects of a window.
DeleteEntriesRun(h, m, content) ==
    /\ h \in [0..Len(content) -> ManagerStates]
    /\ h[0] = m
    /\ \A i \in 1..Len(content) : h[i] = DeleteEntry(h[i - 1], NameOf[content[i]])

\* DeleteEntries, object by object.
LEMMA DeleteEntriesUnfolds ==
    ASSUME NEW m \in ManagerStates, NEW content \in Seq(Objects)
    PROVE  \E h : /\ DeleteEntriesRun(h, m, content)
                  /\ DeleteEntries(m, content) = h[Len(content)]
<1> DEFINE N == Len(content)
           S == ManagerStates
           Delete(n, o) == DeleteEntry(n, NameOf[o])
           step == [x \in (1..N) \X S |-> Delete(x[2], content[x[1]])]
           Recursion(f) == f = [s \in SUBSET (1..N) |->
                                  IF s = {} THEN m
                                  ELSE Delete(f[s \ {Max(s)}], content[Max(s)])]
           F == CHOOSE f : Recursion(f)
<1>1. N \in Nat /\ DOMAIN content = 1..N /\ \A i \in 1..N : content[i] \in Objects
  OBVIOUS
<1>2. step \in Turns(N, S)
  <2>1. \A n \in S, o \in Objects : Delete(n, o) \in S
    BY DeleteEntryUnbinds, WindowsAssumption DEF Unbinds, Erases
  <2>2. \A x \in (1..N) \X S : content[x[1]] \in Objects /\ x[2] \in S
    BY <1>1
  <2> HIDE DEF Delete, S
  <2> QED BY <2>1, <2>2 DEF Turns
<1>3. \A s \in SUBSET (1..N) : s # {} => Max(s) \in 1..N
  BY <1>1, MaxIn
<1>4. DeleteEntries(m, content) = F[1..N]
  BY <1>1 DEF DeleteEntries, FoldLeft, MapThenFoldSet
<1>5. \A n \in S, i \in 1..N : step[<<i, n>>] = Delete(n, content[i])
  <2> HIDE DEF Delete, S
  <2> QED OBVIOUS
<1> HIDE DEF Delete, S, step, N, Recursion, F
<1>6. Recursion(F)
  <2>1. PICK g : IsFold(g, S, N, m, step)
    BY <1>1, <1>2, FoldExists DEF S
  <2>2. Recursion(g)
    BY <1>3, <1>5, <2>1 DEF Recursion, IsFold
  <2> QED BY <2>2 DEF F
<1>7. Follows(F, S, N, m, step)
  BY <1>3, <1>5, <1>6 DEF Recursion, Follows
<1>8. PICK h : ArePrefixes(h, S, N, m, step) /\ F[1..N] = h[N]
  BY <1>1, <1>2, <1>7, FoldPrefixes DEF S
<1>9. \A i \in 1..N : h[i] = Delete(h[i - 1], content[i])
  <2> SUFFICES ASSUME NEW i \in 1..N PROVE h[i] = Delete(h[i - 1], content[i])
    OBVIOUS
  <2>1. i - 1 \in 0..N
    BY <1>1
  <2> QED BY <1>5, <1>8, <2>1 DEF ArePrefixes
<1> QED BY <1>4, <1>8, <1>9 DEF ArePrefixes, DeleteEntriesRun, Delete, S, N

\* A closing form takes all names of its objects out of the registry.
LEMMA DeleteEntriesUnbinds ==
    ASSUME NEW m \in ManagerStates, NEW content \in Seq(Objects)
    PROVE  Unbinds(m, DeleteEntries(m, content), {NameOf[o] : o \in ToSet(content)})
<1> DEFINE N == Len(content)
           Done(n) == {NameOf[content[i]] : i \in 1..n}
<1>1. PICK h : DeleteEntriesRun(h, m, content) /\ DeleteEntries(m, content) = h[N]
  BY DeleteEntriesUnfolds
<1> DEFINE T == {n \in 0..N : Unbinds(m, h[n], Done(n))}
<1>2. N \in Nat /\ {NameOf[o] : o \in ToSet(content)} = Done(N)
  BY DEF ToSet
<1> HIDE DEF N
<1>3. 0 \in T
  <2>1. h[0] = m /\ Done(0) = {}
    BY <1>1 DEF DeleteEntriesRun
  <2>2. Unbinds(m, h[0], {})
    BY <2>1, UnbindsNothing
  <2>3. Unbinds(m, h[0], Done(0))
    <3> HIDE DEF Done, T
    <3> QED BY <2>1, <2>2, Zenon
  <2>4. 0 \in 0..N
    <3> HIDE DEF T
    <3> QED BY <1>2
  <2> HIDE DEF Done
  <2> QED BY <2>3, <2>4
<1>4. ASSUME NEW n \in 0..N, n < N, n \in T
      PROVE  n + 1 \in T
  <2>1. n + 1 \in 1..N /\ n + 1 \in 0..N /\ (n + 1) - 1 = n
    BY <1>2, <1>4
  <2>2. content[n + 1] \in Objects /\ h[n] \in ManagerStates
    BY <1>1, <2>1 DEF DeleteEntriesRun, N
  <2>3. h[n + 1] = DeleteEntry(h[n], NameOf[content[n + 1]])
    BY <1>1, <2>1 DEF DeleteEntriesRun, N
  <2>4. NameOf[content[n + 1]] \in Names
    BY <2>2, WindowsAssumption
  <2>5. Unbinds(h[n], h[n + 1], {NameOf[content[n + 1]]})
    BY <2>2, <2>3, <2>4, DeleteEntryUnbinds
  <2>6. Done(n + 1) = Done(n) \cup {NameOf[content[n + 1]]}
    BY <2>1
  <2>7. Unbinds(m, h[n], Done(n))
    BY <1>4
  <2> HIDE DEF Done
  <2>8. Unbinds(m, h[n + 1], Done(n) \cup {NameOf[content[n + 1]]})
    BY <2>5, <2>7, UnbindsMore
  <2> QED BY <2>1, <2>6, <2>8
<1>5. N \in T
  <2> HIDE DEF T
  <2>1. 0..N \subseteq T
    BY <1>2, <1>3, <1>4, BoundedInduction
  <2> QED BY <1>2, <2>1
<1> QED BY <1>1, <1>2, <1>5

-----------------------------------------------------------------------------
(* AddElementToContainerEntry.                                             *)

\* From m to n a plot p has subscribed to id once more.
Subscribes(m, n, p, id) ==
    /\ n \in ManagerStates
    /\ n.mapper = m.mapper
    /\ n.binding = [m.binding EXCEPT ![NameOf[p]] = id]
    /\ \A i \in Ids, o \in Objects :
          /\ i = id /\ o = p => Count(n.objects[i], o) = Count(m.objects[i], o) + 1
          /\ ~(i = id /\ o = p) => Count(n.objects[i], o) = Count(m.objects[i], o)

\* From m to n a widget w has moved to id: no other object of its name is left
\* with an entry, and w has this one.
Rehomes(m, n, w, id) ==
    /\ n \in ManagerStates
    /\ \A i \in AllIds : n.mapper[i] = "mapper" <=> m.mapper[i] = "mapper"
    /\ n.binding = [m.binding EXCEPT ![NameOf[w]] = id]
    /\ \A i \in Ids, o \in Objects :
          /\ i = id /\ o = w => Count(n.objects[i], o) = 1
          /\ ~(i = id /\ o = w) /\ NameOf[o] = NameOf[w] => Count(n.objects[i], o) = 0
          /\ NameOf[o] # NameOf[w] => Count(n.objects[i], o) = Count(m.objects[i], o)

\* The last two assignments of AddElementToContainerEntry.
Entered(m, o, id) == [m EXCEPT !.binding[NameOf[o]] = id, !.objects[id] = Append(@, o)]

LEMMA EnteredSubscribes ==
    ASSUME NEW m \in ManagerStates, NEW o \in Objects, NEW id \in Ids
    PROVE  Subscribes(m, Entered(m, o, id), o, id)
<1> DEFINE v == m.objects[id]
           n == Entered(m, o, id)
<1>1. id \in AllIds /\ v \in Seq(Objects) /\ NameOf[o] \in Names
  BY ManagerCounts, WindowsAssumption DEF AllIds
<1>2. Append(v, o) \in Seq(Objects)
  BY <1>1
<1> DEFINE k == [m EXCEPT !.binding[NameOf[o]] = id]
<1>3. /\ k \in ManagerStates
      /\ k.mapper = m.mapper /\ k.objects = m.objects
      /\ k.binding = [m.binding EXCEPT ![NameOf[o]] = id]
  BY <1>1 DEF ManagerStates
<1>4. /\ n \in ManagerStates
      /\ n.mapper = m.mapper
      /\ n.binding = [m.binding EXCEPT ![NameOf[o]] = id]
      /\ n.objects = [m.objects EXCEPT ![id] = Append(v, o)]
  <2>1. n = [k EXCEPT !.objects[id] = Append(@, o)]
    BY DEF Entered
  <2> HIDE DEF n, k
  <2> QED BY <1>2, <1>3, <2>1 DEF ManagerStates
<1> HIDE DEF n, v, k
<1>5. ASSUME NEW i \in Ids, NEW q \in Objects
      PROVE  /\ i = id /\ q = o => Count(n.objects[i], q) = Count(m.objects[i], q) + 1
             /\ ~(i = id /\ q = o) => Count(n.objects[i], q) = Count(m.objects[i], q)
  <2>1. i \in AllIds
    BY DEF AllIds
  <2>2. CASE i = id
    <3>1. n.objects[i] = Append(v, o)
      BY <1>1, <1>4, <2>2 DEF ManagerStates
    <3>2. /\ o = q => Count(Append(v, o), q) = Count(v, q) + 1
          /\ o # q => Count(Append(v, o), q) = Count(v, q)
      BY <1>1, CountAppend
    <3> QED BY <2>2, <3>1, <3>2 DEF v
  <2>3. CASE i # id
    <3>1. n.objects[i] = m.objects[i]
      BY <1>1, <1>4, <2>1, <2>3 DEF ManagerStates
    <3> QED BY <2>3, <3>1
  <2> QED BY <2>2, <2>3
<1>6. Subscribes(m, n, o, id)
  BY <1>4, <1>5 DEF Subscribes
<1> QED BY <1>6 DEF n

\* A plot is added where it is, in addition.
LEMMA AddElementSubscribes ==
    ASSUME NEW m \in ManagerStates, NEW p \in Plots, NEW id \in Ids
    PROVE  Subscribes(m, AddElement(m, p, id), p, id)
<1>1. p \in Objects
  BY DEF Objects
<1>2. AddElement(m, p, id) = Entered(m, p, id)
  BY DEF AddElement, Entered
<1> QED BY <1>1, <1>2, EnteredSubscribes

\* A widget is taken from its old container first.
LEMMA AddElementRehomes ==
    ASSUME NEW m \in ManagerStates, NEW w \in Widgets, NEW id \in Ids, Homed(m)
    PROVE  Rehomes(m, AddElement(m, w, id), w, id)
<1> DEFINE name == NameOf[w]
           f == DeleteEntry(m, name)
           n == AddElement(m, w, id)
<1>1. w \in Objects /\ w \notin Plots /\ name \in Names
  BY WindowsAssumption DEF Objects
<1>2. Unbinds(m, f, {name})
  BY <1>1, DeleteEntryUnbinds
<1>3. f \in ManagerStates
  BY <1>2 DEF Unbinds, Erases
<1>4. n = Entered(f, w, id)
  BY <1>1 DEF AddElement, Entered
<1> HIDE DEF f, n
<1>5. Subscribes(f, n, w, id)
  BY <1>1, <1>3, <1>4, EnteredSubscribes
<1>6. n.binding = [m.binding EXCEPT ![name] = id]
  <2>1. /\ f.binding = [x \in Names |-> IF x \in {name} THEN None ELSE m.binding[x]]
        /\ n.binding = [f.binding EXCEPT ![name] = id]
    BY <1>2, <1>5 DEF Unbinds, Subscribes
  <2> QED BY <1>1, <2>1 DEF ManagerStates
<1>7. \A i \in AllIds : n.mapper[i] = "mapper" <=> m.mapper[i] = "mapper"
  BY <1>2, <1>5 DEF Unbinds, Erases, Subscribes
<1>8. ASSUME NEW i \in Ids, NEW o \in Objects
      PROVE  /\ i = id /\ o = w => Count(n.objects[i], o) = 1
             /\ ~(i = id /\ o = w) /\ NameOf[o] = name => Count(n.objects[i], o) = 0
             /\ NameOf[o] # name => Count(n.objects[i], o) = Count(m.objects[i], o)
  <2>1. i \in AllIds
    BY DEF AllIds
  <2>2. /\ i = id /\ o = w => Count(n.objects[i], o) = Count(f.objects[i], o) + 1
        /\ ~(i = id /\ o = w) => Count(n.objects[i], o) = Count(f.objects[i], o)
    BY <1>5 DEF Subscribes
  <2>3. NameOf[o] = name => Count(f.objects[i], o) = 0
    <3>1. NameOf[o] = name => o \in Widgets
      BY <1>1, WindowsAssumption DEF Objects
    <3> QED BY <1>2, <3>1 DEF Unbinds
  <2>4. NameOf[o] # name => Count(f.objects[i], o) = Count(m.objects[i], o)
    BY <1>2, <2>1 DEF Unbinds, Erases
  <2> QED BY <2>2, <2>3, <2>4
<1>9. n \in ManagerStates
  BY <1>5 DEF Subscribes
<1>10. Rehomes(m, n, w, id)
  BY <1>6, <1>7, <1>8, <1>9 DEF Rehomes
<1> QED BY <1>10 DEF n

-----------------------------------------------------------------------------
(* Removing graphs.                                                        *)

\* What is kept of the first i graphs.
KeepRun(h, p, removed) ==
    /\ h \in [0..Len(graphs[p]) -> Seq(Ids)]
    /\ h[0] = <<>>
    /\ \A i \in 1..Len(graphs[p]) :
          h[i] = IF i \in removed THEN h[i - 1] ELSE Append(h[i - 1], graphs[p][i])

\* KeptGraphs, graph by graph.
LEMMA KeepUnfolds ==
    ASSUME NEW p, graphs[p] \in Seq(Ids), NEW removed
    PROVE  \E h : KeepRun(h, p, removed) /\ KeptGraphs(p, removed) = h[Len(graphs[p])]
<1> DEFINE N == Len(graphs[p])
           S == Seq(Ids)
           Keep(kept, i) == IF i \in removed THEN kept ELSE Append(kept, graphs[p][i])
           step == [x \in (1..N) \X S |-> Keep(x[2], x[1])]
           Recursion(f) == f = [s \in SUBSET (1..N) |->
                                  IF s = {} THEN <<>>
                                  ELSE Keep(f[s \ {Max(s)}], Indices(p)[Max(s)])]
           F == CHOOSE f : Recursion(f)
<1>1. /\ N \in Nat /\ DOMAIN graphs[p] = 1..N
      /\ \A i \in 1..N : graphs[p][i] \in Ids /\ Indices(p)[i] = i
      /\ DOMAIN Indices(p) = 1..N /\ Len(Indices(p)) = N
      /\ <<>> \in S
  <2>1. /\ N \in Nat /\ DOMAIN graphs[p] = 1..N
        /\ \A i \in 1..N : graphs[p][i] \in Ids /\ Indices(p)[i] = i
        /\ DOMAIN Indices(p) = 1..N
        /\ <<>> \in S
    BY DEF Indices
  <2>2. Indices(p) \in Seq(1..N) /\ Len(Indices(p)) = N
    BY DEF Indices
  <2> QED BY <2>1, <2>2
<1>2. step \in Turns(N, S)
  <2>1. \A kept \in S, i \in 1..N : Keep(kept, i) \in S
    BY <1>1
  <2> HIDE DEF Keep, S
  <2> QED BY <2>1 DEF Turns
<1>3. \A s \in SUBSET (1..N) : s # {} => Max(s) \in 1..N
  BY <1>1, MaxIn
<1>4. KeptGraphs(p, removed) = F[1..N]
  BY <1>1 DEF KeptGraphs, FoldLeft, MapThenFoldSet
<1>5. \A r \in S, i \in 1..N : /\ step[<<i, r>>] = Keep(r, Indices(p)[i])
                               /\ step[<<i, r>>] = Keep(r, i)
  <2> HIDE DEF Keep, S
  <2> QED BY <1>1
<1> HIDE DEF Keep, S, step, N, Recursion, F
<1>6. Recursion(F)
  <2>1. PICK g : IsFold(g, S, N, <<>>, step)
    BY <1>1, <1>2, FoldExists
  <2>2. Recursion(g)
    BY <1>3, <1>5, <2>1 DEF Recursion, IsFold
  <2> QED BY <2>2 DEF F
<1>7. Follows(F, S, N, <<>>, step)
  BY <1>3, <1>5, <1>6 DEF Recursion, Follows
<1>8. PICK h : ArePrefixes(h, S, N, <<>>, step) /\ F[1..N] = h[N]
  BY <1>1, <1>2, <1>7, FoldPrefixes
<1>9. \A i \in 1..N : h[i] = Keep(h[i - 1], i)
  <2> SUFFICES ASSUME NEW i \in 1..N PROVE h[i] = Keep(h[i - 1], i)
    OBVIOUS
  <2>1. i - 1 \in 0..N
    BY <1>1
  <2> QED BY <1>5, <1>8, <2>1 DEF ArePrefixes
<1> QED BY <1>4, <1>8, <1>9 DEF ArePrefixes, KeepRun, Keep, S, N

\* The manager after the first i graphs.
RemoveRun(h, m, p, removed) ==
    /\ h \in [0..Len(graphs[p]) -> ManagerStates]
    /\ h[0] = m
    /\ \A i \in 1..Len(graphs[p]) :
          h[i] = IF i \in removed THEN DeleteEntryIn(h[i - 1], graphs[p][i], NameOf[p])
                 ELSE h[i - 1]

\* DeleteRemoved, graph by graph.
LEMMA RemoveUnfolds ==
    ASSUME NEW m \in ManagerStates, NEW p, graphs[p] \in Seq(Ids), NEW removed
    PROVE  \E h : /\ RemoveRun(h, m, p, removed)
                  /\ DeleteRemoved(m, p, removed) = h[Len(graphs[p])]
<1> DEFINE N == Len(graphs[p])
           S == ManagerStates
           Delete(n, i) == IF i \in removed
                           THEN DeleteEntryIn(n, graphs[p][i], NameOf[p]) ELSE n
           step == [x \in (1..N) \X S |-> Delete(x[2], x[1])]
           Recursion(f) == f = [s \in SUBSET (1..N) |->
                                  IF s = {} THEN m
                                  ELSE Delete(f[s \ {Max(s)}], Indices(p)[Max(s)])]
           F == CHOOSE f : Recursion(f)
<1>1. /\ N \in Nat /\ DOMAIN graphs[p] = 1..N
      /\ \A i \in 1..N : graphs[p][i] \in AllIds /\ Indices(p)[i] = i
      /\ DOMAIN Indices(p) = 1..N /\ Len(Indices(p)) = N
  <2>1. /\ N \in Nat /\ DOMAIN graphs[p] = 1..N
        /\ \A i \in 1..N : graphs[p][i] \in AllIds /\ Indices(p)[i] = i
        /\ DOMAIN Indices(p) = 1..N
    BY DEF Indices, AllIds
  <2>2. Indices(p) \in Seq(1..N) /\ Len(Indices(p)) = N
    BY DEF Indices
  <2> QED BY <2>1, <2>2
<1>2. step \in Turns(N, S)
  <2>1. \A n \in S, i \in 1..N : Delete(n, i) \in S
    BY <1>1, DeleteEntryInErases DEF OneCall, Erases
  <2> HIDE DEF Delete, S
  <2> QED BY <2>1 DEF Turns
<1>3. \A s \in SUBSET (1..N) : s # {} => Max(s) \in 1..N
  BY <1>1, MaxIn
<1>4. DeleteRemoved(m, p, removed) = F[1..N]
  BY <1>1 DEF DeleteRemoved, FoldLeft, MapThenFoldSet
<1>5. \A n \in S, i \in 1..N : /\ step[<<i, n>>] = Delete(n, Indices(p)[i])
                               /\ step[<<i, n>>] = Delete(n, i)
  <2> HIDE DEF Delete, S
  <2> QED BY <1>1
<1> HIDE DEF Delete, S, step, N, Recursion, F
<1>6. Recursion(F)
  <2>1. PICK g : IsFold(g, S, N, m, step)
    BY <1>1, <1>2, FoldExists DEF S
  <2>2. Recursion(g)
    BY <1>3, <1>5, <2>1 DEF Recursion, IsFold
  <2> QED BY <2>2 DEF F
<1>7. Follows(F, S, N, m, step)
  BY <1>3, <1>5, <1>6 DEF Recursion, Follows
<1>8. PICK h : ArePrefixes(h, S, N, m, step) /\ F[1..N] = h[N]
  BY <1>1, <1>2, <1>7, FoldPrefixes DEF S
<1>9. \A i \in 1..N : h[i] = Delete(h[i - 1], i)
  <2> SUFFICES ASSUME NEW i \in 1..N PROVE h[i] = Delete(h[i - 1], i)
    OBVIOUS
  <2>1. i - 1 \in 0..N
    BY <1>1
  <2> QED BY <1>5, <1>8, <2>1 DEF ArePrefixes
<1> QED BY <1>4, <1>8, <1>9 DEF ArePrefixes, RemoveRun, Delete, S, N

\* What is kept draws no id more often than before, and for each graph that is
\* not kept an entry is erased.
LEMMA RemoveErases ==
    ASSUME NEW m \in ManagerStates, NEW p \in Objects, graphs[p] \in Seq(Ids), NEW removed
    PROVE  LET n == DeleteRemoved(m, p, removed)
               kept == KeptGraphs(p, removed)
           IN  /\ Erases(m, n, {NameOf[p]})
               /\ n.binding = m.binding
               /\ kept \in Seq(Ids)
               /\ \A id \in Ids : Count(kept, id) <= Count(graphs[p], id)
               /\ ErasesOwn(m, n, p, [id \in Ids |-> Count(graphs[p], id) - Count(kept, id)])
<1> DEFINE N == Len(graphs[p])
           v == graphs[p]
<1>1. PICK h : RemoveRun(h, m, p, removed) /\ DeleteRemoved(m, p, removed) = h[N]
  BY RemoveUnfolds
<1>2. PICK k : KeepRun(k, p, removed) /\ KeptGraphs(p, removed) = k[N]
  BY KeepUnfolds
<1>3. N \in Nat /\ \A i \in 1..N : v[i] \in Ids /\ v[i] \in AllIds
  BY DEF AllIds
<1> DEFINE Alone(id) == \A q \in Objects : NameOf[q] = NameOf[p] /\ q # p
                                           => Count(m.objects[id], q) = 0
           Kept(n, id) == Count(k[n], id)
           Own(n) == \A id \in Ids :
                        /\ Kept(n, id) <= CountTo(v, id, n)
                        /\ Alone(id) =>
                              \/ Count(h[n].objects[id], p) = 0
                              \/ Count(h[n].objects[id], p) + CountTo(v, id, n)
                                    <= Count(m.objects[id], p) + Kept(n, id)
           T == {n \in 0..N : /\ Erases(m, h[n], {NameOf[p]})
                              /\ h[n].binding = m.binding
                              /\ Own(n)}
<1> HIDE DEF N, v
<1>4. \A n \in 0..N : h[n] \in ManagerStates /\ k[n] \in Seq(Ids)
  BY <1>1, <1>2 DEF RemoveRun, KeepRun, N
<1>5. \A n \in 0..N, id \in Ids :
        /\ Kept(n, id) \in Nat /\ CountTo(v, id, n) \in Nat
        /\ Count(m.objects[id], p) \in Nat
        /\ \A o : Count(h[n].objects[id], o) \in Nat /\ Count(m.objects[id], o) \in Nat
  <2>1. \A n \in 0..N, id \in Ids : Kept(n, id) \in Nat /\ n \in Nat
    BY <1>3, <1>4, CountType
  <2>2. \A n \in 0..N, id \in Ids : CountTo(v, id, n) \in Nat
    BY <2>1, CountType
  <2>3. \A n \in 0..N, id \in Ids : \A o : Count(h[n].objects[id], o) \in Nat
    BY <1>4, ManagerCounts DEF AllIds
  <2>4. \A id \in Ids : \A o : Count(m.objects[id], o) \in Nat
    BY ManagerCounts DEF AllIds
  <2> HIDE DEF Kept
  <2> QED BY <2>1, <2>2, <2>3, <2>4
<1>6. 0 \in T
  <2>1. h[0] = m /\ k[0] = <<>>
    BY <1>1, <1>2 DEF RemoveRun, KeepRun
  <2>2. Own(0)
    <3> SUFFICES ASSUME NEW id \in Ids
                 PROVE  /\ Kept(0, id) <= CountTo(v, id, 0)
                        /\ Count(m.objects[id], p) + CountTo(v, id, 0)
                              <= Count(m.objects[id], p) + Kept(0, id)
      BY <2>1
    <3>1. Count(m.objects[id], p) \in Nat
      BY ManagerCounts DEF AllIds
    <3>2. CountTo(v, id, 0) = 0 /\ Kept(0, id) = 0
      BY <2>1, CountStep, CountEmpty
    <3> QED BY <3>1, <3>2
  <2>3. Erases(m, h[0], {NameOf[p]})
    BY <2>1, ErasesNothing
  <2> HIDE DEF Own
  <2> QED BY <1>3, <2>1, <2>2, <2>3
<1>7. ASSUME NEW n \in 0..N, n < N, n \in T
      PROVE  n + 1 \in T
  <2>1. /\ n + 1 \in 1..N /\ n + 1 \in 0..N /\ (n + 1) - 1 = n /\ n \in Nat
        /\ v[n + 1] \in Ids /\ v[n + 1] \in AllIds
    BY <1>3, <1>7
  <2>2. ASSUME NEW id \in Ids
        PROVE  /\ v[n + 1] = id => CountTo(v, id, n + 1) = CountTo(v, id, n) + 1
               /\ v[n + 1] # id => CountTo(v, id, n + 1) = CountTo(v, id, n)
    BY <2>1, CountStep
  <2>6. ASSUME NEW id \in Ids
        PROVE  /\ Kept(n, id) \in Nat /\ Kept(n + 1, id) \in Nat
               /\ CountTo(v, id, n) \in Nat /\ CountTo(v, id, n + 1) \in Nat
               /\ \A o : /\ Count(h[n].objects[id], o) \in Nat
                        /\ Count(h[n + 1].objects[id], o) \in Nat
                        /\ Count(m.objects[id], o) \in Nat
    <3> HIDE DEF Kept
    <3> QED BY <1>5, <2>1
  <2>3. /\ Erases(m, h[n], {NameOf[p]}) /\ h[n].binding = m.binding /\ Own(n)
        /\ {NameOf[p]} \cup {NameOf[p]} = {NameOf[p]}
    BY <1>7
  <2>4. CASE n + 1 \in removed
    <3>1. h[n + 1] = DeleteEntryIn(h[n], v[n + 1], NameOf[p])
      BY <1>1, <2>1, <2>4 DEF RemoveRun, N, v
    <3>2. k[n + 1] = k[n]
      BY <1>2, <2>1, <2>4 DEF KeepRun, N, v
    <3>3. OneCall(h[n], h[n + 1], v[n + 1], NameOf[p])
      BY <1>4, <2>1, <3>1, DeleteEntryInErases
    <3>4. Erases(m, h[n + 1], {NameOf[p]})
      <4>1. Erases(m, h[n + 1], {NameOf[p]} \cup {NameOf[p]})
        BY <2>3, <3>3, ErasesTwice DEF OneCall
      <4> QED BY <2>3, <4>1
    <3>5. ASSUME NEW id \in Ids
          PROVE  Kept(n + 1, id) <= CountTo(v, id, n + 1)
      <4>1. Kept(n, id) <= CountTo(v, id, n) /\ Kept(n + 1, id) = Kept(n, id)
        BY <2>3, <3>2
      <4> HIDE DEF Kept
      <4> QED BY <2>2, <2>6, <4>1
    <3>6. ASSUME NEW id \in Ids, Alone(id)
          PROVE  \/ Count(h[n + 1].objects[id], p) = 0
                 \/ Count(h[n + 1].objects[id], p) + CountTo(v, id, n + 1)
                       <= Count(m.objects[id], p) + Kept(n + 1, id)
      <4>0. /\ Kept(n, id) \in Nat /\ Kept(n + 1, id) \in Nat
            /\ CountTo(v, id, n) \in Nat /\ CountTo(v, id, n + 1) \in Nat
            /\ \A o : /\ Count(h[n].objects[id], o) \in Nat
                     /\ Count(h[n + 1].objects[id], o) \in Nat
                     /\ Count(m.objects[id], o) \in Nat
        <5> HIDE DEF Kept
        <5> QED BY <2>6
      <4>1. /\ \/ Count(h[n].objects[id], p) = 0
               \/ Count(h[n].objects[id], p) + CountTo(v, id, n)
                     <= Count(m.objects[id], p) + Kept(n, id)
            /\ Kept(n + 1, id) = Kept(n, id)
        BY <2>3, <3>2, <3>6
      <4>2. Count(h[n + 1].objects[id], p) <= Count(h[n].objects[id], p) /\ id \in AllIds
        BY <3>3 DEF OneCall, Erases, AllIds
      <4> HIDE DEF Kept
      <4>3. CASE v[n + 1] # id
        BY <2>2, <4>0, <4>1, <4>2, <4>3
      <4>4. CASE v[n + 1] = id /\ Count(h[n].objects[id], p) = 0
        BY <4>0, <4>2, <4>4
      <4>5. CASE v[n + 1] = id /\ Count(h[n].objects[id], p) > 0
        <5>1. PICK o \in Objects : /\ NameOf[o] = NameOf[p]
                                   /\ Count(h[n + 1].objects[id], o) < Count(h[n].objects[id], o)
          BY <3>3, <4>5 DEF OneCall
        <5>2. Count(h[n].objects[id], o) <= Count(m.objects[id], o)
          BY <2>3, <4>2 DEF Erases
        <5>3. o = p
          BY <4>0, <3>6, <5>1, <5>2
        <5> QED BY <2>2, <4>0, <4>1, <4>5, <5>1, <5>3
      <4> QED BY <4>0, <4>3, <4>4, <4>5
    <3>7. Own(n + 1)
      BY <3>5, <3>6
    <3> HIDE DEF Own
    <3> QED BY <2>1, <2>3, <3>3, <3>4, <3>7 DEF OneCall
  <2>5. CASE n + 1 \notin removed
    <3>1. h[n + 1] = h[n]
      BY <1>1, <2>1, <2>5 DEF RemoveRun, N, v
    <3>2. k[n + 1] = Append(k[n], v[n + 1])
      BY <1>2, <2>1, <2>5 DEF KeepRun, N, v
    <3>3. ASSUME NEW id \in Ids
          PROVE  /\ v[n + 1] = id => Kept(n + 1, id) = Kept(n, id) + 1
                 /\ v[n + 1] # id => Kept(n + 1, id) = Kept(n, id)
      <4>1. k[n] \in Seq(Ids)
        BY <1>4
      <4> QED BY <2>1, <3>2, <4>1, CountAppend
    <3>4. ASSUME NEW id \in Ids
          PROVE  /\ Kept(n + 1, id) <= CountTo(v, id, n + 1)
                 /\ Alone(id) =>
                       \/ Count(h[n + 1].objects[id], p) = 0
                       \/ Count(h[n + 1].objects[id], p) + CountTo(v, id, n + 1)
                             <= Count(m.objects[id], p) + Kept(n + 1, id)
      <4>0. /\ Kept(n, id) \in Nat /\ Kept(n + 1, id) \in Nat
            /\ CountTo(v, id, n) \in Nat /\ CountTo(v, id, n + 1) \in Nat
            /\ \A o : /\ Count(h[n].objects[id], o) \in Nat
                     /\ Count(h[n + 1].objects[id], o) \in Nat
                     /\ Count(m.objects[id], o) \in Nat
        <5> HIDE DEF Kept
        <5> QED BY <2>6
      <4>1. /\ Kept(n, id) <= CountTo(v, id, n)
            /\ Alone(id) => \/ Count(h[n].objects[id], p) = 0
                            \/ Count(h[n].objects[id], p) + CountTo(v, id, n)
                                  <= Count(m.objects[id], p) + Kept(n, id)
        BY <2>3
      <4> HIDE DEF Kept, Alone
      <4> QED BY <2>2, <4>0, <3>1, <3>3, <4>1
    <3>5. Own(n + 1)
      BY <3>4
    <3> HIDE DEF Own
    <3> QED BY <2>1, <2>3, <3>1, <3>5
  <2> QED BY <2>4, <2>5
<1>8. N \in T
  <2> HIDE DEF T
  <2>1. 0..N \subseteq T
    BY <1>3, <1>6, <1>7, BoundedInduction
  <2> QED BY <1>3, <2>1
<1>9. \A id : Count(graphs[p], id) = CountTo(v, id, N)
  BY CountType DEF N, v
<1>10. ASSUME NEW id \in Ids
       PROVE  /\ Kept(N, id) <= Count(graphs[p], id)
              /\ Alone(id) =>
                    \/ Count(h[N].objects[id], p) = 0
                    \/ Count(h[N].objects[id], p) + (Count(graphs[p], id) - Kept(N, id))
                          <= Count(m.objects[id], p)
  <2>1. /\ Kept(N, id) <= CountTo(v, id, N)
        /\ Alone(id) => \/ Count(h[N].objects[id], p) = 0
                        \/ Count(h[N].objects[id], p) + CountTo(v, id, N)
                              <= Count(m.objects[id], p) + Kept(N, id)
    BY <1>8
  <2>2. /\ Kept(N, id) \in Nat /\ CountTo(v, id, N) \in Nat
        /\ Count(h[N].objects[id], p) \in Nat /\ Count(m.objects[id], p) \in Nat
    <3>1. N \in 0..N
      BY <1>3
    <3> HIDE DEF Kept
    <3> QED BY <1>5, <3>1
  <2> HIDE DEF Kept, Alone
  <2> QED BY <1>9, <2>1, <2>2
<1>11. ErasesOwn(m, h[N], p, [id \in Ids |-> Count(graphs[p], id) - Count(k[N], id)])
  BY <1>10 DEF ErasesOwn
<1>12. k[N] \in Seq(Ids)
  BY <1>3, <1>4
<1> QED BY <1>1, <1>2, <1>8, <1>10, <1>11, <1>12

-----------------------------------------------------------------------------
(* The inductive invariant.                                                *)

P == INSTANCE BindingsProofs WITH
        stored <- Stored, binding <- Bound, entries <- Entries, graphs <- Drawings

Connections == [id : Ids, name : Names]
Loads == [windows : Seq(Windows), connections : Seq(Connections), held : SUBSET Objects]
Dialogs == [widget : Widgets, id : Ids, container : {"valid", "deleted"}]

TypeOK ==
    /\ Manager \in ManagerStates
    /\ life \in [Objects -> {"open", "dying", "gone"}]
    /\ graphs \in [Plots -> Seq(Ids)]
    /\ adopted \in SUBSET Names
    /\ wired \in SUBSET Buttons /\ timer \in SUBSET Buttons
    /\ dialog \in Dialogs \cup {NoDialog}
    /\ loads \in Seq(Loads)
    /\ pumping \in BOOLEAN /\ isloading \in BOOLEAN
    /\ fault \in {"none", "dangling pointer", "use after free", "null mapper"}

\* A plot that is gone draws nothing, an open object is in a window, and only
\* plots wait for a deferred delete.
Placed ==
    /\ \A p \in Plots : life[p] = "gone" => graphs[p] = <<>>
    /\ \A o \in Objects : life[o] = "open" => \E w \in Windows : o \in Members(w)
    /\ \A w \in Widgets : life[w] # "dying"

Local == TypeOK /\ Placed /\ AnswerFindsMapper /\ DanglingNeedsAdoption

Inv == Local /\ P!Registry /\ P!Alive

-----------------------------------------------------------------------------
(* The refinement mapping.                                                 *)

\* Bindings may be instantiated this way.
LEMMA Naming == P!NamesAssumption /\ P!Objects = Objects
BY WindowsAssumption DEF P!NamesAssumption, P!Objects, Objects

\* What the mapped variables are, pointwise.
LEMMA Mapped ==
    /\ \A id \in Ids, o \in Objects : Entries[id][o] = Count(objects[id], o)
    /\ \A p \in Plots, id \in Ids : Drawings[p][id] = Count(graphs[p], id)
    /\ \A n \in Names : Bound[n] = IF binding[n] = NoId THEN None ELSE binding[n]
    /\ \A id \in Ids : id \in Stored <=> mapper[id] = "mapper"
BY DEF Entries, Drawings, Bound, Stored

LEMMA MappedNext ==
    /\ \A id \in Ids, o \in Objects : Entries'[id][o] = Count(objects'[id], o)
    /\ \A p \in Plots, id \in Ids : Drawings'[p][id] = Count(graphs'[p], id)
    /\ \A n \in Names : Bound'[n] = IF binding'[n] = NoId THEN None ELSE binding'[n]
    /\ \A id \in Ids : id \in Stored' <=> mapper'[id] = "mapper"
BY DEF Entries, Drawings, Bound, Stored

\* HomeByName of Bindings is what the lemmas about the manager need.
LEMMA HomedManager ==
    ASSUME TypeOK, P!Registry
    PROVE  Homed(Manager)
<1> SUFFICES ASSUME NEW id \in Ids, NEW w \in Widgets, Count(objects[id], w) > 0
             PROVE  /\ Count(objects[id], w) = 1
                    /\ binding[NameOf[w]] = id
                    /\ \A q \in Objects : NameOf[q] = NameOf[w] /\ q # w
                                           => Count(objects[id], q) = 0
  BY DEF Homed, Manager
<1>1. w \in Objects /\ NameOf[w] \in Names
  BY WindowsAssumption DEF Objects
<1>2. Entries[id][w] > 0
  BY <1>1, Mapped
<1>3. /\ Entries[id][w] = 1
      /\ Bound[NameOf[w]] = id
      /\ \A q \in P!Namesakes({w}) \ {w} : Entries[id][q] = 0
  BY <1>2 DEF P!Registry, P!HomeByName
<1>4. binding[NameOf[w]] = id
  <2>1. id # None /\ id # NoId
    BY WindowsAssumption
  <2> QED BY <1>1, <1>3, <2>1, Mapped
<1>5. ASSUME NEW q \in Objects, NameOf[q] = NameOf[w], q # w
      PROVE  Count(objects[id], q) = 0
  <2>1. q \in P!Namesakes({w}) \ {w}
    BY <1>5, Naming DEF P!Namesakes
  <2> QED BY <1>3, <2>1, Mapped
<1> QED BY <1>1, <1>3, <1>4, <1>5, Mapped

\* A manager's state is kept in three variables.
LEMMA BecomesType ==
    ASSUME NEW m \in ManagerStates, Becomes(m)
    PROVE  Manager' \in ManagerStates
BY DEF Becomes, Manager, ManagerStates

LEMMA ManagerFields ==
    /\ Manager.mapper = mapper /\ Manager.objects = objects /\ Manager.binding = binding
BY DEF Manager

\* Tables of entries are equal where their entries are.
IsTable(f) == f = [id \in Ids |-> [o \in Objects |-> f[id][o]]]

LEMMA SameTable ==
    ASSUME NEW f, NEW g, IsTable(f), IsTable(g),
           \A id \in Ids, o \in Objects : f[id][o] = g[id][o]
    PROVE  f = g
<1>1. \A id \in Ids : [o \in Objects |-> f[id][o]] = [o \in Objects |-> g[id][o]]
  OBVIOUS
<1>2. [id \in Ids |-> [o \in Objects |-> f[id][o]]] = [id \in Ids |-> [o \in Objects |-> g[id][o]]]
  BY <1>1
<1> QED BY <1>2 DEF IsTable

LEMMA Tables == IsTable(Entries') /\ \A S : IsTable(P!Detached(S))
BY Naming DEF IsTable, Entries, P!Detached

\* Erasing, as Bindings sees it.
LEMMA ErasesMapped ==
    ASSUME TypeOK, P!TypeOK, NEW m, NEW N, Becomes(m), Erases(Manager, m, N)
    PROVE  /\ Stored' = Stored
           /\ Manager' \in ManagerStates
           /\ \A id \in Ids, o \in Objects :
                 /\ Entries[id][o] \in Nat
                 /\ Entries'[id][o] \in 0..MaxGraphs
                 /\ Entries'[id][o] <= Entries[id][o]
                 /\ NameOf[o] \notin N => Entries'[id][o] = Entries[id][o]
<1>1. m \in ManagerStates /\ Manager \in ManagerStates
  BY DEF Erases, TypeOK
<1>2. Stored' = Stored
  BY ManagerFields DEF Stored, Erases, Becomes, AllIds
<1>3. ASSUME NEW id \in Ids, NEW o \in Objects
      PROVE  /\ Entries[id][o] \in Nat
             /\ Entries'[id][o] \in 0..MaxGraphs
             /\ Entries'[id][o] <= Entries[id][o]
             /\ NameOf[o] \notin N => Entries'[id][o] = Entries[id][o]
  <2>1. /\ Entries[id][o] = Count(objects[id], o)
        /\ Entries'[id][o] = Count(m.objects[id], o)
    BY Mapped, MappedNext DEF Becomes
  <2>2. Entries[id][o] \in 0..MaxGraphs /\ MaxGraphs \in Nat
    BY Naming, WindowsAssumption DEF P!TypeOK, P!SomeEntries
  <2>3. Count(m.objects[id], o) \in Nat
    BY <1>1, ManagerCounts DEF AllIds
  <2>4. /\ Count(m.objects[id], o) <= Count(objects[id], o)
        /\ NameOf[o] \notin N => Count(m.objects[id], o) = Count(objects[id], o)
    BY ManagerFields DEF Erases, AllIds
  <2> QED BY <2>1, <2>2, <2>3, <2>4
<1> QED BY <1>1, <1>2, <1>3, BecomesType

\* A table of entries that differs from another for the objects of N only.
LEMMA RedrawnIntro ==
    ASSUME NEW N \in SUBSET Objects, NEW table,
           \A id \in Ids, o \in Objects : /\ Entries'[id][o] \in 0..MaxGraphs
                                          /\ o \notin N => Entries'[id][o] = table[id][o]
    PROVE  Entries' \in P!Redrawn(N, table)
<1> DEFINE e == [id \in Ids |-> [o \in N |-> Entries'[id][o]]]
<1>1. e \in [Ids -> [N -> 0..MaxGraphs]]
  OBVIOUS
<1>2. Entries' = [id \in Ids |-> [o \in Objects |-> IF o \in N THEN e[id][o]
                                                    ELSE table[id][o]]]
  <2>1. Entries' = [id \in Ids |-> [o \in Objects |-> Entries'[id][o]]]
    BY DEF Entries
  <2>2. \A id \in Ids, o \in Objects :
          Entries'[id][o] = IF o \in N THEN e[id][o] ELSE table[id][o]
    OBVIOUS
  <2> HIDE DEF e
  <2> QED BY <2>1, <2>2
<1> HIDE DEF e
<1> QED BY <1>1, <1>2, Naming DEF P!Redrawn

\* The erasing calls for a plot's graphs.
LEMMA ErasedIntro ==
    ASSUME TypeOK, P!TypeOK, NEW m, NEW N, NEW p \in Objects, NEW k \in [Ids -> Int],
           Becomes(m), Erases(Manager, m, N), ErasesOwn(Manager, m, p, k)
    PROVE  P!Erased(p, k)
<1> SUFFICES ASSUME NEW id \in Ids
             PROVE  /\ \A q \in P!Namesakes({p}) : Entries'[id][q] <= Entries[id][q]
                    /\ (\A q \in P!Namesakes({p}) \ {p} : Entries[id][q] = 0) =>
                          \/ Entries'[id][p] = 0
                          \/ Entries'[id][p] + k[id] <= Entries[id][p]
  BY DEF P!Erased
<1>1. \A q : q \in P!Namesakes({p}) <=> q \in Objects /\ NameOf[q] = NameOf[p]
  BY Naming DEF P!Namesakes
<1>2. \A q \in P!Namesakes({p}) : Entries'[id][q] <= Entries[id][q]
  BY <1>1, ErasesMapped
<1>3. ASSUME \A q \in P!Namesakes({p}) \ {p} : Entries[id][q] = 0
      PROVE  \/ Entries'[id][p] = 0
             \/ Entries'[id][p] + k[id] <= Entries[id][p]
  <2>1. \A q \in Objects : NameOf[q] = NameOf[p] /\ q # p => Count(Manager.objects[id], q) = 0
    BY <1>1, <1>3, Mapped, ManagerFields
  <2>2. \/ Count(m.objects[id], p) = 0
        \/ Count(m.objects[id], p) + k[id] <= Count(Manager.objects[id], p)
    BY <2>1 DEF ErasesOwn
  <2> QED BY <2>2, Mapped, MappedNext, ManagerFields DEF Becomes
<1> QED BY <1>2, <1>3

-----------------------------------------------------------------------------
(* Each effect on the registry is an action of Bindings.                   *)

Alike == UNCHANGED <<life, graphs, adopted>>

\* Every container is as it was to Bindings.
LEMMA StepStutters ==
    ASSUME Alike, UNCHANGED objects,
           \A id \in Ids : mapper'[id] = "mapper" <=> mapper[id] = "mapper",
           \A n \in Names : Bound'[n] = Bound[n]
    PROVE  UNCHANGED P!vars
<1>1. Stored' = Stored /\ Entries' = Entries /\ Drawings' = Drawings
  BY DEF Alike, Stored, Entries, Drawings
<1>2. Bound' = Bound
  <2>1. Bound' = [n \in Names |-> Bound'[n]] /\ Bound = [n \in Names |-> Bound[n]]
    BY DEF Bound
  <2> QED BY <2>1
<1> QED BY <1>1, <1>2 DEF P!vars, Alike

\* A new mapper.
LEMMA StepPublish ==
    ASSUME TypeOK, NEW id \in Ids, Becomes(AddContainer(Manager, id)), Alike
    PROVE  P!Publish(id) /\ Manager' \in ManagerStates
<1>1. /\ AddContainer(Manager, id) \in ManagerStates
      /\ AddContainer(Manager, id).mapper = [mapper EXCEPT ![id] = "mapper"]
      /\ AddContainer(Manager, id).objects = objects
      /\ AddContainer(Manager, id).binding = binding
  BY DEF AddContainer, TypeOK, ManagerStates, AllIds, Manager
<1>2. /\ mapper' = [mapper EXCEPT ![id] = "mapper"]
      /\ objects' = objects /\ binding' = binding
  BY <1>1 DEF Becomes
<1>3. id \in AllIds /\ mapper \in [AllIds -> {"absent", "null", "mapper"}]
  BY DEF TypeOK, ManagerStates, Manager, AllIds
<1>4. Stored' = Stored \cup {id}
  BY <1>2, <1>3 DEF Stored, AllIds
<1>5. Entries' = Entries /\ Drawings' = Drawings /\ Bound' = Bound
  BY <1>2 DEF Entries, Drawings, Bound, Alike
<1> QED BY <1>1, <1>4, <1>5, BecomesType DEF P!Publish, Alike

\* A window opens.
LEMMA StepCreate ==
    ASSUME TypeOK, NEW w \in Windows, CanCreate(w), Relive(Members(w), "open"),
           UNCHANGED <<manager, graphs, adopted>>
    PROVE  P!Create(Members(w)) /\ Members(w) \in SUBSET Objects
<1>1. Members(w) \in SUBSET Objects
  BY WindowsAssumption DEF Members, ToSet
<1>2. ASSUME NEW o \in Members(w)
      PROVE  life[o] = "gone" /\ \A id \in Ids : Entries[id][o] = 0
  <2>1. life[o] = "gone" /\ Unlisted(o) /\ o \in Objects
    BY <1>1 DEF CanCreate, Live
  <2>2. ASSUME NEW id \in Ids PROVE Entries[id][o] = 0
    <3>1. objects[id] \in Seq(Objects) /\ Count(objects[id], o) \in Nat
      BY ManagerCounts, ManagerFields DEF TypeOK, AllIds
    <3>2. ~ (Count(objects[id], o) > 0)
      BY <2>1, <3>1, CountPositive DEF Unlisted
    <3> QED BY <2>1, <3>1, <3>2, Mapped
  <2> QED BY <2>1, <2>2
<1>3. \A p \in Members(w) \cap Plots : \A q \in Plots :
        NameOf[q] = NameOf[p] /\ (q \in Members(w) \/ life[q] = "open") => q = p
  BY WindowsAssumption DEF CanCreate, Members
<1>4. UNCHANGED <<Stored, Bound, Entries, Drawings, adopted>>
  BY DEF manager, Stored, Bound, Entries, Drawings
<1>5. life' = [o \in P!Objects |-> IF o \in Members(w) THEN "open" ELSE life[o]]
  BY Naming DEF Relive
<1> QED BY <1>1, <1>2, <1>3, <1>4, <1>5 DEF P!Create

\* A widget leaves the registry.
LEMMA StepUnbind ==
    ASSUME TypeOK, P!Registry, NEW w \in Widgets, life[w] = "open",
           Becomes(DeleteEntry(Manager, NameOf[w])), Alike
    PROVE  /\ P!Unbind(w)
           /\ Manager' \in ManagerStates
           /\ \A id \in Ids : mapper[id] = "mapper" => mapper'[id] = "mapper"
<1> DEFINE n == DeleteEntry(Manager, NameOf[w])
           name == NameOf[w]
<1>1. w \in Objects /\ name \in Names
  BY WindowsAssumption DEF Objects
<1>2. Unbinds(Manager, n, {name}) /\ Homed(Manager)
  BY <1>1, DeleteEntryUnbinds, HomedManager DEF TypeOK
<1>3. Becomes(n)
  OBVIOUS
<1> HIDE DEF n
<1>4. Erases(Manager, n, {name}) /\ P!TypeOK
  BY <1>2 DEF Unbinds, P!Registry
<1>5. /\ Stored' = Stored
      /\ Manager' \in ManagerStates
      /\ \A id \in Ids, o \in Objects :
            NameOf[o] \notin {name} => Entries'[id][o] = Entries[id][o]
  BY <1>3, <1>4, ErasesMapped
<1>6. \A o : o \in P!Namesakes({w}) <=> o \in Objects /\ NameOf[o] = name
  BY Naming DEF P!Namesakes
<1>7. ASSUME NEW id \in Ids, NEW o \in Objects
      PROVE  Entries'[id][o] = IF o \in P!Namesakes({w}) /\ Bound[NameOf[o]] = id
                               THEN 0 ELSE Entries[id][o]
  <2>1. CASE NameOf[o] # name
    BY <1>5, <1>6, <2>1
  <2>2. CASE NameOf[o] = name
    <3>1. o \in Widgets
      BY <2>2, WindowsAssumption DEF Objects
    <3>2. Entries'[id][o] = 0
      BY <1>2, <1>3, <2>2, <3>1, MappedNext DEF Unbinds, Becomes
    <3>3. Entries[id][o] = 0 \/ Bound[NameOf[o]] = id
      <4>1. Entries[id][o] \in Nat
        BY <1>3, <1>4, ErasesMapped
      <4>2. Entries[id][o] > 0 => Bound[NameOf[o]] = id
        BY <3>1 DEF P!Registry, P!HomeByName
      <4> QED BY <4>1, <4>2
    <3> QED BY <1>6, <2>2, <3>2, <3>3
  <2> QED BY <2>1, <2>2
<1>8. Entries' = P!Detached({w})
  <2>1. \A id \in Ids, o \in Objects : Entries'[id][o] = P!Detached({w})[id][o]
    BY <1>7, Naming DEF P!Detached
  <2> QED BY <2>1, Tables, SameTable
<1>9. Bound' = [Bound EXCEPT ![name] = None]
  <2>1. binding' = [x \in Names |-> IF x \in {name} THEN None ELSE binding[x]]
    BY <1>2, <1>3, ManagerFields DEF Unbinds, Becomes
  <2> QED BY <2>1, <1>1, WindowsAssumption DEF Bound
<1>10. Drawings' = Drawings
  BY DEF Drawings, Alike
<1> QED BY <1>5, <1>8, <1>9, <1>10, Mapped, MappedNext DEF P!Unbind, Alike

\* A widget is bound.
LEMMA StepBind ==
    ASSUME TypeOK, P!Registry, NEW w \in Widgets, NEW id \in Ids, life[w] = "open",
           mapper[id] = "mapper", Becomes(AddElement(Manager, w, id)), Alike
    PROVE  /\ P!Bind(w, id)
           /\ Manager' \in ManagerStates
           /\ \A i \in Ids : mapper[i] = "mapper" => mapper'[i] = "mapper"
<1> DEFINE n == AddElement(Manager, w, id)
           name == NameOf[w]
<1>1. w \in Objects /\ name \in Names /\ id # NoId
  BY WindowsAssumption DEF Objects
<1>2. Rehomes(Manager, n, w, id)
  BY AddElementRehomes, HomedManager DEF TypeOK
<1>3. Becomes(n)
  OBVIOUS
<1> HIDE DEF n
<1>4. \A i \in AllIds : mapper'[i] = "mapper" <=> mapper[i] = "mapper"
  BY <1>2, <1>3, ManagerFields DEF Rehomes, Becomes
<1>5. Stored' = Stored /\ id \in Stored
  BY <1>4 DEF Stored, AllIds
<1>6. \A o : o \in P!Namesakes({w}) <=> o \in Objects /\ NameOf[o] = name
  BY Naming DEF P!Namesakes
<1>7. ASSUME NEW i \in Ids, NEW o \in Objects
      PROVE  /\ i = id /\ o = w => Entries'[i][o] = 1
             /\ ~(i = id /\ o = w) => Entries'[i][o] = P!Detached({w})[i][o]
             /\ o = w => P!Detached({w})[i][o] = 0
  <2>1. P!Detached({w})[i][o] = IF o \in P!Namesakes({w}) /\ Bound[NameOf[o]] = i
                                THEN 0 ELSE Entries[i][o]
    BY Naming DEF P!Detached
  <2>2. Entries'[i][o] = Count(n.objects[i], o) /\ Entries[i][o] = Count(objects[i], o)
    BY <1>3, Mapped, MappedNext DEF Becomes
  <2>3. NameOf[o] = name => P!Detached({w})[i][o] = 0
    <3> SUFFICES ASSUME NameOf[o] = name PROVE P!Detached({w})[i][o] = 0
      OBVIOUS
    <3>1. o \in Widgets
      BY WindowsAssumption DEF Objects
    <3>2. Entries[i][o] \in Nat
      <4>1. Entries[i][o] \in 0..MaxGraphs
        BY Naming DEF P!Registry, P!TypeOK, P!SomeEntries
      <4> QED BY <4>1, WindowsAssumption
    <3>3. Entries[i][o] > 0 => Bound[NameOf[o]] = i
      BY <3>1 DEF P!Registry, P!HomeByName
    <3> QED BY <1>6, <2>1, <3>2, <3>3
  <2>4. NameOf[o] # name => P!Detached({w})[i][o] = Entries[i][o]
    BY <1>6, <2>1
  <2>5. /\ i = id /\ o = w => Count(n.objects[i], o) = 1
        /\ ~(i = id /\ o = w) /\ NameOf[o] = name => Count(n.objects[i], o) = 0
        /\ NameOf[o] # name => Count(n.objects[i], o) = Count(objects[i], o)
    BY <1>2, ManagerFields DEF Rehomes
  <2> QED BY <2>2, <2>3, <2>4, <2>5
<1> DEFINE moved == [P!Detached({w}) EXCEPT ![id][w] = @ + 1]
<1>8. Entries' = moved
  <2> DEFINE d == P!Detached({w})
  <2>1. IsTable(moved)
    <3>1. IsTable(d)
      BY Tables
    <3>2. \A i \in Ids : d[i] = [o \in Objects |-> d[i][o]]
      <4> HIDE DEF d
      <4> QED BY <3>1 DEF IsTable
    <3>3. DOMAIN d = Ids
      <4> HIDE DEF d
      <4> QED BY <3>1 DEF IsTable
    <3> HIDE DEF d
    <3>4. moved = [i \in Ids |-> IF i = id THEN [d[id] EXCEPT ![w] = @ + 1] ELSE d[i]]
      BY <3>3 DEF d
    <3>5. \A i \in Ids : moved[i] = [o \in Objects |-> moved[i][o]]
      BY <3>2, <3>4
    <3>6. moved = [i \in Ids |-> moved[i]]
      BY <3>4
    <3> HIDE DEF moved
    <3> QED BY <3>5, <3>6 DEF IsTable
  <2>2. ASSUME NEW i \in Ids, NEW o \in Objects
        PROVE  /\ i = id /\ o = w => moved[i][o] = P!Detached({w})[i][o] + 1
               /\ ~(i = id /\ o = w) => moved[i][o] = P!Detached({w})[i][o]
    BY <1>1, Tables DEF IsTable
  <2> HIDE DEF moved
  <2>3. \A i \in Ids, o \in Objects : Entries'[i][o] = moved[i][o]
    BY <1>7, <2>2
  <2> QED BY <2>1, <2>3, Tables, SameTable
<1>9. Bound' = [Bound EXCEPT ![name] = id]
  <2>1. binding' = [binding EXCEPT ![name] = id]
    BY <1>2, <1>3, ManagerFields DEF Rehomes, Becomes
  <2>2. DOMAIN binding = Names
    BY DEF TypeOK, ManagerStates, Manager
  <2> QED BY <1>1, <2>1, <2>2 DEF Bound
<1>10. Drawings' = Drawings
  BY DEF Drawings, Alike
<1>11. Manager' \in ManagerStates
  BY <1>2, <1>3, BecomesType DEF Rehomes
<1> QED BY <1>4, <1>5, <1>8, <1>9, <1>10, <1>11 DEF P!Bind, Alike, AllIds

\* The graphs of a plot, and how many there are.
LEMMA SomeDrawings ==
    ASSUME TypeOK, P!TypeOK, NEW p \in Plots
    PROVE  /\ graphs[p] \in Seq(Ids) /\ p \in Objects /\ NameOf[p] \in Names
           /\ \A id \in Ids : Drawings[p][id] \in 0..MaxGraphs
           /\ MaxGraphs \in Nat
<1>1. graphs[p] \in Seq(Ids) /\ p \in Objects /\ MaxGraphs \in Nat
  BY WindowsAssumption DEF TypeOK, Objects
<1>2. Drawings \in [Plots -> [Ids -> 0..MaxGraphs]]
  BY DEF P!TypeOK, P!SomeGraphs
<1> QED BY <1>1, <1>2, WindowsAssumption

\* A vector has no more occurrences than elements.
LEMMA CountBelow ==
    ASSUME NEW S, NEW v \in Seq(S), NEW o
    PROVE  Count(v, o) <= Len(v)
<1> DEFINE N == Len(v)
           T == {n \in 0..N : CountTo(v, o, n) <= n}
<1>1. N \in Nat /\ Count(v, o) = CountTo(v, o, N)
  BY CountType
<1> HIDE DEF N
<1>2. 0 \in T
  BY <1>1, CountStep
<1>3. ASSUME NEW n \in 0..N, n < N, n \in T
      PROVE  n + 1 \in T
  <2>1. n \in Nat /\ n + 1 \in 0..N
    BY <1>1, <1>3
  <2>2. CountTo(v, o, n + 1) = CountTo(v, o, n) + 1 \/ CountTo(v, o, n + 1) = CountTo(v, o, n)
    BY <2>1, CountStep
  <2>3. CountTo(v, o, n) \in Nat
    BY <2>1, CountType
  <2> QED BY <1>3, <2>1, <2>2, <2>3
<1>4. 0..N \subseteq T
  <2> HIDE DEF T
  <2> QED BY <1>1, <1>2, <1>3, BoundedInduction
<1>5. CountTo(v, o, N) <= N
  BY <1>1, <1>4
<1> QED BY <1>1, <1>5 DEF N

\* A plot draws one graph more.
LEMMA StepAddGraph ==
    ASSUME TypeOK, P!Registry, NEW p \in Plots, NEW id \in Ids, life[p] # "gone",
           mapper[id] = "mapper", RoomFor(p, id),
           Becomes(AddElement(Manager, p, id)),
           graphs' = [graphs EXCEPT ![p] = Append(@, id)],
           adopted' = IF life[p] = "dying" THEN adopted \cup {NameOf[p]} ELSE adopted,
           UNCHANGED life
    PROVE  /\ P!AddGraph(p, id)
           /\ Manager' \in ManagerStates
           /\ graphs' \in [Plots -> Seq(Ids)]
           /\ UNCHANGED mapper
<1> DEFINE n == AddElement(Manager, p, id)
<1>1. p \in Objects /\ NameOf[p] \in Names /\ id # NoId
  BY WindowsAssumption DEF Objects
<1>2. Subscribes(Manager, n, p, id) /\ Becomes(n)
  BY AddElementSubscribes DEF TypeOK
<1> HIDE DEF n
<1>3. UNCHANGED mapper /\ UNCHANGED Stored /\ id \in Stored
  BY <1>2, ManagerFields DEF Subscribes, Becomes, Stored
<1>4. \A i \in Ids, o \in Objects :
        /\ i = id /\ o = p => Entries'[i][o] = Entries[i][o] + 1
        /\ ~(i = id /\ o = p) => Entries'[i][o] = Entries[i][o]
  BY <1>2, Mapped, MappedNext, ManagerFields DEF Subscribes, Becomes
<1> DEFINE more == [Entries EXCEPT ![id][p] = @ + 1]
<1>5. Entries' = more
  <2>1. IsTable(more)
    BY <1>1 DEF IsTable, Entries
  <2>2. \A i \in Ids, o \in Objects :
          /\ i = id /\ o = p => more[i][o] = Entries[i][o] + 1
          /\ ~(i = id /\ o = p) => more[i][o] = Entries[i][o]
    BY <1>1 DEF Entries
  <2> HIDE DEF more
  <2>3. \A i \in Ids, o \in Objects : Entries'[i][o] = more[i][o]
    BY <1>4, <2>2
  <2> QED BY <2>1, <2>3, Tables, SameTable
<1>6. graphs[p] \in Seq(Ids) /\ graphs' \in [Plots -> Seq(Ids)]
  <2>1. graphs[p] \in Seq(Ids)
    BY DEF TypeOK
  <2>2. Append(graphs[p], id) \in Seq(Ids)
    BY <2>1
  <2> QED BY <2>1, <2>2 DEF TypeOK
<1>7. Drawings' = [Drawings EXCEPT ![p][id] = @ + 1]
  <2>1. ASSUME NEW q \in Plots, NEW i \in Ids
        PROVE  /\ q = p /\ i = id => Count(graphs'[q], i) = Count(graphs[q], i) + 1
               /\ ~(q = p /\ i = id) => Count(graphs'[q], i) = Count(graphs[q], i)
    <3>1. CASE q = p
      <4>1. graphs'[q] = Append(graphs[p], id)
        BY <3>1 DEF TypeOK
      <4>2. /\ id = i => Count(Append(graphs[p], id), i) = Count(graphs[p], i) + 1
            /\ id # i => Count(Append(graphs[p], id), i) = Count(graphs[p], i)
        BY <1>6, CountAppend
      <4> QED BY <3>1, <4>1, <4>2
    <3>2. CASE q # p
      BY <3>2 DEF TypeOK
    <3> QED BY <3>1, <3>2
  <2>2. ASSUME NEW q \in Plots
        PROVE  Drawings'[q] = [Drawings EXCEPT ![p][id] = @ + 1][q]
    <3>1. CASE q = p
      <4>1. [Drawings EXCEPT ![p][id] = @ + 1][q] = [Drawings[p] EXCEPT ![id] = @ + 1]
        BY <3>1 DEF Drawings
      <4>2. Drawings[p] = [i \in Ids |-> Count(graphs[p], i)]
        BY DEF Drawings
      <4>3. Drawings'[p] = [i \in Ids |-> Count(graphs'[p], i)]
        BY DEF Drawings
      <4>4. /\ Count(graphs'[p], id) = Count(graphs[p], id) + 1
            /\ \A i \in Ids : i # id => Count(graphs'[p], i) = Count(graphs[p], i)
        BY <2>1
      <4> QED BY <3>1, <4>1, <4>2, <4>3, <4>4
    <3>2. CASE q # p
      BY <2>1, <3>2 DEF Drawings
    <3> QED BY <3>1, <3>2
  <2>3. /\ Drawings' = [q \in Plots |-> Drawings'[q]]
        /\ [Drawings EXCEPT ![p][id] = @ + 1] =
              [q \in Plots |-> [Drawings EXCEPT ![p][id] = @ + 1][q]]
    BY DEF Drawings
  <2> QED BY <2>2, <2>3
<1>8. Bound' = [Bound EXCEPT ![NameOf[p]] = id]
  <2>1. binding' = [binding EXCEPT ![NameOf[p]] = id]
    BY <1>2, ManagerFields DEF Subscribes, Becomes
  <2>2. DOMAIN binding = Names
    BY DEF TypeOK, ManagerStates, Manager
  <2> QED BY <1>1, <2>1, <2>2 DEF Bound
<1>9. Drawings[p][id] < MaxGraphs /\ Entries[id][p] < MaxGraphs
  <2>1. Count(graphs[p], id) <= Len(graphs[p]) /\ Len(graphs[p]) < MaxGraphs
    BY <1>6, CountBelow DEF RoomFor
  <2>2. Count(graphs[p], id) \in Nat /\ Len(graphs[p]) \in Nat
    BY <1>6, CountType
  <2>3. Count(objects[id], p) < MaxGraphs
    BY DEF RoomFor
  <2> QED BY <1>1, <2>1, <2>2, <2>3, Mapped, WindowsAssumption
<1>10. Manager' \in ManagerStates
  BY <1>2, BecomesType DEF Subscribes
<1> QED BY <1>3, <1>5, <1>6, <1>7, <1>8, <1>9, <1>10 DEF P!AddGraph

\* A plot removes graphs, and its subscriptions with them.
LEMMA StepDropGraphs ==
    ASSUME TypeOK, P!Registry, NEW p \in Plots, NEW removed, life[p] = "open",
           RemoveGraphs(p, removed)
    PROVE  /\ P!DropGraphs(p)
           /\ Manager' \in ManagerStates
           /\ graphs' \in [Plots -> Seq(Ids)]
           /\ \A i \in Ids : mapper[i] = "mapper" => mapper'[i] = "mapper"
<1> DEFINE n == DeleteRemoved(Manager, p, removed)
           kept == KeptGraphs(p, removed)
           k == [id \in Ids |-> Count(graphs[p], id) - Count(kept, id)]
<1>1. /\ graphs[p] \in Seq(Ids) /\ p \in Objects
      /\ \A id \in Ids : Drawings[p][id] \in 0..MaxGraphs
      /\ MaxGraphs \in Nat /\ P!TypeOK /\ Manager \in ManagerStates
  BY SomeDrawings DEF P!Registry, TypeOK
<1>2. /\ Erases(Manager, n, {NameOf[p]})
      /\ n.binding = binding
      /\ kept \in Seq(Ids)
      /\ \A id \in Ids : Count(kept, id) <= Count(graphs[p], id)
      /\ ErasesOwn(Manager, n, p, k)
  BY <1>1, RemoveErases, ManagerFields
<1>3. Becomes(n) /\ graphs' = [graphs EXCEPT ![p] = kept] /\ UNCHANGED <<life, adopted>>
  BY DEF RemoveGraphs
<1> HIDE DEF n, kept, k
<1>4. graphs' \in [Plots -> Seq(Ids)] /\ graphs'[p] = kept
  BY <1>2, <1>3 DEF TypeOK
<1>5. /\ Stored' = Stored
      /\ Manager' \in ManagerStates
      /\ \A id \in Ids, o \in Objects :
            /\ Entries'[id][o] \in 0..MaxGraphs
            /\ NameOf[o] \notin {NameOf[p]} => Entries'[id][o] = Entries[id][o]
  BY <1>1, <1>2, <1>3, ErasesMapped
<1>6. Entries' \in P!Redrawn(P!Namesakes({p}), Entries)
  <2>1. P!Namesakes({p}) \in SUBSET Objects
        /\ \A o \in Objects : o \notin P!Namesakes({p}) => NameOf[o] \notin {NameOf[p]}
    BY Naming DEF P!Namesakes
  <2> QED BY <1>5, <2>1, RedrawnIntro
<1>7. k \in [Ids -> Int]
  <2>1. \A id \in Ids : Count(graphs[p], id) \in Nat /\ Count(kept, id) \in Nat
    BY <1>1, <1>2, CountType
  <2> QED BY <2>1 DEF k
<1>8. P!Erased(p, k)
  BY <1>1, <1>2, <1>3, <1>7, ErasedIntro
<1> DEFINE drawn == [id \in Ids |-> Count(kept, id)]
<1>9. drawn \in [Ids -> 0..MaxGraphs] /\ \A id \in Ids : drawn[id] <= Drawings[p][id]
  <2> SUFFICES ASSUME NEW id \in Ids
               PROVE  Count(kept, id) \in 0..MaxGraphs /\ Count(kept, id) <= Drawings[p][id]
    OBVIOUS
  <2>1. Count(kept, id) \in Nat
    BY <1>2, CountType
  <2>2. Count(kept, id) <= Drawings[p][id] /\ Drawings[p][id] \in 0..MaxGraphs
    BY <1>1, <1>2, Mapped
  <2> QED BY <1>1, <2>1, <2>2
<1>10. Drawings' = [Drawings EXCEPT ![p] = drawn]
  <2>1. Drawings'[p] = drawn /\ \A q \in Plots : q # p => Drawings'[q] = Drawings[q]
    BY <1>3, <1>4 DEF Drawings, TypeOK
  <2>2. /\ Drawings' = [q \in Plots |-> Drawings'[q]]
        /\ Drawings = [q \in Plots |-> Drawings[q]]
    BY DEF Drawings
  <2> HIDE DEF drawn
  <2> QED BY <2>1, <2>2
<1>11. k = [id \in Ids |-> Drawings[p][id] - Drawings'[p][id]]
  BY <1>4, Mapped, MappedNext DEF k
<1>12. Bound' = Bound
  BY <1>2, <1>3 DEF Bound, Becomes
<1>13. \A i \in Ids : mapper[i] = "mapper" => mapper'[i] = "mapper"
  BY <1>5, Mapped, MappedNext
<1> HIDE DEF drawn
<1> QED BY <1>3, <1>4, <1>5, <1>6, <1>8, <1>9, <1>10, <1>11, <1>12, <1>13 DEF P!DropGraphs

\* What closing the plots of a window does, as Bindings sees it.
LEMMA StepCleared ==
    ASSUME TypeOK, P!TypeOK, NEW S \in SUBSET Objects, NEW m, NEW N,
           ClearsAll(Manager, m, S \cap Plots), NEW n, Erases(m, n, N), Becomes(n),
           \A id \in Ids, o \in Objects :
              o \notin P!Namesakes(S \cap Plots) =>
                 Entries'[id][o] = P!Detached(S \ (S \cap Plots))[id][o]
    PROVE  P!Cleared(S) /\ Manager' \in ManagerStates /\ Stored' = Stored
<1> DEFINE T == S \cap Plots
<1>1. Manager \in ManagerStates /\ m \in ManagerStates
  BY DEF TypeOK, ClearsAll, Erases
<1>2. Erases(Manager, n, {NameOf[p] : p \in T} \cup N)
  BY <1>1, ErasesTwice DEF ClearsAll
<1>3. /\ Stored' = Stored
      /\ Manager' \in ManagerStates
      /\ \A id \in Ids, o \in Objects : Entries'[id][o] \in 0..MaxGraphs
  BY <1>2, ErasesMapped
<1>4. Entries' \in P!Redrawn(P!Namesakes(T), P!Detached(S \ T))
  <2>1. P!Namesakes(T) \in SUBSET Objects
    BY Naming DEF P!Namesakes
  <2> QED BY <1>3, <2>1, RedrawnIntro
<1>5. ASSUME NEW p \in T
      PROVE  P!Erased(p, Drawings[p])
  <2>1. p \in Objects /\ p \in Plots /\ graphs[p] \in Seq(Ids)
    BY SomeDrawings
  <2>2. DrawnBy(p) \in [Ids -> Nat] /\ DrawnBy(p) \in [Ids -> Int]
    BY <2>1, CountType DEF DrawnBy
  <2>3. ErasesOwn(Manager, m, p, DrawnBy(p)) /\ Erases(Manager, Manager, {})
    BY <1>1, ErasesNothing DEF ClearsAll
  <2>4. ErasesOwn(Manager, n, p, DrawnBy(p))
    BY <1>1, <2>1, <2>2, <2>3, ErasesOwnBetween
  <2>5. P!Erased(p, DrawnBy(p))
    BY <1>2, <2>1, <2>2, <2>4, ErasedIntro
  <2>6. DrawnBy(p) = Drawings[p]
    BY <2>1 DEF DrawnBy, Drawings
  <2> QED BY <2>5, <2>6
<1> QED BY <1>3, <1>4, <1>5 DEF P!Cleared

\* The objects of a window, and what clearing its plots does.
LEMMA WindowObjects ==
    ASSUME TypeOK, NEW w \in Windows
    PROVE  /\ Content[w] \in Seq(Objects)
           /\ Members(w) \in SUBSET Objects
           /\ w \in Figures => Members(w) \in SUBSET Plots
           /\ ClearsAll(Manager, ClearPlots(Manager, Content[w]), Members(w) \cap Plots)
<1>1. Content[w] \in Seq(Objects)
  BY WindowsAssumption
<1>2. Members(w) \in SUBSET Objects /\ (w \in Figures => Members(w) \in SUBSET Plots)
  BY <1>1, WindowsAssumption DEF Members, ToSet
<1>3. ClearsAll(Manager, ClearPlots(Manager, Content[w]), Members(w) \cap Plots)
  BY <1>1, ClearPlotsErases DEF TypeOK, Members
<1> QED BY <1>1, <1>2, <1>3

\* A figure closes: its plots unsubscribe and wait for their deletion.
LEMMA StepCloseFigure ==
    ASSUME TypeOK, P!Registry, NEW f \in Figures, CloseFigure(f)
    PROVE  /\ P!CloseFigure(Members(f)) /\ Members(f) \in SUBSET Plots
           /\ Manager' \in ManagerStates
           /\ \A i \in Ids : mapper[i] = "mapper" => mapper'[i] = "mapper"
<1> DEFINE S == Members(f)
           m == ClearPlots(Manager, Content[f])
<1>1. /\ ClearsAll(Manager, m, S \cap Plots) /\ S \in SUBSET Plots /\ S \in SUBSET Objects
      /\ P!TypeOK /\ m \in ManagerStates
  BY WindowObjects DEF Windows, P!Registry, ClearsAll, Erases
<1>2. /\ Becomes(m) /\ Relive(S, "dying") /\ OpenWindow(f)
      /\ UNCHANGED <<graphs, adopted>>
  BY DEF CloseFigure
<1> HIDE DEF m
<1>3. Erases(m, m, {}) /\ Erases(Manager, m, {NameOf[p] : p \in S \cap Plots})
  BY <1>1, ErasesNothing DEF ClearsAll
<1>4. ASSUME NEW id \in Ids, NEW o \in Objects, o \notin P!Namesakes(S \cap Plots)
      PROVE  Entries'[id][o] = P!Detached(S \ (S \cap Plots))[id][o]
  <2>1. NameOf[o] \notin {NameOf[p] : p \in S \cap Plots}
    BY <1>4, Naming DEF P!Namesakes
  <2>2. Entries'[id][o] = Entries[id][o]
    BY <1>1, <1>2, <1>3, <2>1, ErasesMapped
  <2>3. S \ (S \cap Plots) = {} /\ o \notin P!Namesakes({})
    BY <1>1 DEF P!Namesakes
  <2> QED BY <2>2, <2>3, Naming DEF P!Detached
<1>5. P!Cleared(S) /\ Manager' \in ManagerStates /\ Stored' = Stored
  BY <1>1, <1>2, <1>3, <1>4, StepCleared
<1>6. Bound' = Bound /\ Drawings' = Drawings
  BY <1>1, <1>2, ManagerFields DEF Bound, Drawings, Becomes, ClearsAll
<1>7. life' = [o \in P!Objects |-> IF o \in S THEN "dying" ELSE life[o]]
  BY <1>2, Naming DEF Relive
<1>8. P!CloseFigure(S)
  BY <1>2, <1>5, <1>6, <1>7 DEF P!CloseFigure, OpenWindow, Live
<1> QED BY <1>1, <1>5, <1>8, Mapped, MappedNext

\* Counting the graphs of plots whose graphs are gone.
LEMMA NoDrawings ==
    ASSUME NEW S, graphs' = [p \in Plots |-> IF p \in S THEN <<>> ELSE graphs[p]]
    PROVE  Drawings' = [p \in Plots |-> IF p \in S THEN P!NoGraphs ELSE Drawings[p]]
<1>1. ASSUME NEW p \in Plots
      PROVE  Drawings'[p] = IF p \in S THEN P!NoGraphs ELSE Drawings[p]
  BY CountEmpty DEF Drawings, P!NoGraphs
<1>2. Drawings' = [p \in Plots |-> Drawings'[p]]
  BY DEF Drawings
<1> QED BY <1>1, <1>2

\* The closed figure is deleted.
LEMMA StepDeleteFigure ==
    ASSUME TypeOK, NEW f \in Figures, DeleteFigure(f)
    PROVE  P!DeleteFigure(Members(f)) /\ Members(f) \in SUBSET Plots
<1>1. Members(f) \in SUBSET Plots
  BY WindowObjects DEF Windows
<1>2. Drawings' = [p \in Plots |-> IF p \in Members(f) THEN P!NoGraphs ELSE Drawings[p]]
  BY NoDrawings DEF DeleteFigure
<1>3. /\ \A p \in Members(f) : life[p] = "dying"
      /\ life' = [o \in P!Objects |-> IF o \in Members(f) THEN "gone" ELSE life[o]]
  BY Naming DEF DeleteFigure, Live, Relive
<1>4. UNCHANGED <<Stored, Bound, Entries, adopted>>
  BY DEF DeleteFigure, manager, Stored, Bound, Entries
<1> QED BY <1>1, <1>2, <1>3, <1>4 DEF P!DeleteFigure

\* A form closes: everything in it leaves the registry.
LEMMA StepCloseForm ==
    ASSUME TypeOK, P!Registry, NEW f \in Forms, CloseForm(f)
    PROVE  /\ P!CloseForm(Members(f)) /\ Members(f) \in SUBSET Objects
           /\ Manager' \in ManagerStates
           /\ \A i \in Ids : mapper[i] = "mapper" => mapper'[i] = "mapper"
<1> DEFINE S == Members(f)
           N == {NameOf[o] : o \in S}
           m == ClearPlots(Manager, Content[f])
           n == DeleteEntries(m, Content[f])
<1>1. /\ ClearsAll(Manager, m, S \cap Plots) /\ S \in SUBSET Objects
      /\ P!TypeOK /\ m \in ManagerStates /\ Manager \in ManagerStates
      /\ Content[f] \in Seq(Objects)
  BY WindowObjects DEF Windows, P!Registry, ClearsAll, Erases, TypeOK
<1>2. Unbinds(m, n, N)
  <2> HIDE DEF m
  <2> QED BY <1>1, DeleteEntriesUnbinds DEF Members
<1>3. /\ Becomes(n) /\ Relive(S, "gone") /\ OpenWindow(f) /\ UNCHANGED adopted
      /\ graphs' = [p \in Plots |-> IF p \in S THEN <<>> ELSE graphs[p]]
  BY DEF CloseForm
<1> HIDE DEF m, n
<1>4. /\ Erases(m, n, N)
      /\ Erases(Manager, m, {NameOf[p] : p \in S \cap Plots})
      /\ m.binding = binding
  BY <1>1, <1>2, ManagerFields DEF Unbinds, ClearsAll
<1>5. Erases(Manager, n, {NameOf[p] : p \in S \cap Plots} \cup N)
  BY <1>1, <1>4, ErasesTwice
<1>6. Homed(m)
  BY <1>1, <1>4, HomedManager, HomedErased, ManagerFields
<1>7. ASSUME NEW id \in Ids, NEW o \in Objects, o \notin P!Namesakes(S \cap Plots)
      PROVE  Entries'[id][o] = P!Detached(S \ (S \cap Plots))[id][o]
  <2> DEFINE W == S \ (S \cap Plots)
  <2>1. CASE o \in P!Namesakes(W)
    <3>1. PICK w \in W : NameOf[o] = NameOf[w]
      BY <2>1 DEF P!Namesakes
    <3>2. w \in Widgets /\ NameOf[o] \in N
      BY <1>1, <3>1 DEF Objects
    <3>3. o \in Widgets
      BY <3>1, <3>2, WindowsAssumption DEF Objects
    <3>4. Entries'[id][o] = 0
      BY <1>2, <1>3, <1>6, <3>2, <3>3, MappedNext DEF Unbinds, Becomes
    <3>5. P!Detached(W)[id][o] = 0
      <4> HIDE DEF W
      <4> QED BY <2>1, <3>3, P!DetachedWidget, Naming
    <3> QED BY <3>4, <3>5
  <2>2. CASE o \notin P!Namesakes(W)
    <3>1. NameOf[o] \notin {NameOf[p] : p \in S \cap Plots} \cup N
      BY <1>1, <1>7, <2>2, Naming DEF P!Namesakes
    <3>2. Entries'[id][o] = Entries[id][o]
      BY <1>1, <1>3, <1>5, <3>1, ErasesMapped
    <3>3. P!Detached(W)[id][o] = Entries[id][o]
      <4> HIDE DEF W
      <4> QED BY <2>2, Naming DEF P!Detached
    <3> QED BY <3>2, <3>3
  <2> QED BY <2>1, <2>2
<1>8. P!Cleared(S) /\ Manager' \in ManagerStates /\ Stored' = Stored
  BY <1>1, <1>3, <1>4, <1>7, StepCleared
<1>9. Bound' = [x \in Names |-> IF x \in P!NamesOf(S) THEN None ELSE Bound[x]]
  <2>1. binding' = [x \in Names |-> IF x \in N THEN None ELSE binding[x]]
    BY <1>2, <1>3, <1>4 DEF Unbinds, Becomes
  <2>2. N = P!NamesOf(S)
    BY DEF P!NamesOf
  <2> HIDE DEF N
  <2> QED BY <2>1, <2>2, WindowsAssumption DEF Bound
<1>10. Drawings' = [p \in Plots |-> IF p \in S THEN P!NoGraphs ELSE Drawings[p]]
  BY <1>3, NoDrawings
<1>11. life' = [o \in P!Objects |-> IF o \in S THEN "gone" ELSE life[o]]
  BY <1>3, Naming DEF Relive
<1>12. P!CloseForm(S)
  BY <1>3, <1>8, <1>9, <1>10, <1>11 DEF P!CloseForm, OpenWindow, Live
<1> QED BY <1>1, <1>8, <1>12, Mapped, MappedNext

\* The open objects that are in no form: those of the figures.
InFigures == {o \in Objects : life[o] = "open" /\ \A f \in Forms : o \notin Members(f)}

\* The project closes.
LEMMA StepCloseProject ==
    ASSUME TypeOK, Placed, CloseEverything
    PROVE  /\ P!CloseProject(InFigures) /\ InFigures \in SUBSET Plots
           /\ Manager' \in ManagerStates
<1>1. InFigures \in SUBSET Plots
  <2> SUFFICES ASSUME NEW o \in InFigures PROVE o \in Plots
    OBVIOUS
  <2>1. o \in Objects /\ life[o] = "open" /\ \A f \in Forms : o \notin Members(f)
    BY DEF InFigures
  <2>2. PICK w \in Windows : o \in Members(w)
    BY <2>1 DEF Placed
  <2>3. w \in Figures
    BY <2>1, <2>2 DEF Windows
  <2> QED BY <2>2, <2>3, WindowObjects
<1>2. /\ mapper' = [id \in AllIds |-> "absent"]
      /\ objects' = [id \in AllIds |-> <<>>]
      /\ binding' = [n \in Names |-> None]
      /\ adopted' = {}
  BY DEF CloseEverything, Becomes, EmptyManager
<1>3. Stored' = {} /\ Bound' = [n \in Names |-> None]
  BY <1>2 DEF Stored, Bound, AllIds
<1>4. Entries' = P!NoEntries
  <2>1. \A id \in Ids, o \in Objects : Entries'[id][o] = 0
    BY <1>2, CountEmpty, MappedNext DEF AllIds
  <2> QED BY <2>1, Naming DEF P!NoEntries, Entries
<1>5. life' = [o \in P!Objects |-> IF life[o] # "open" THEN life[o]
                                  ELSE IF o \in InFigures THEN "dying" ELSE "gone"]
  <2>1. life' = [o \in Objects |-> IF life[o] # "open" THEN life[o]
                                   ELSE IF \E form \in Forms : o \in Members(form)
                                        THEN "gone" ELSE "dying"]
    BY DEF CloseEverything
  <2>2. \A o \in Objects : life[o] = "open" =>
           (o \in InFigures <=> ~ \E form \in Forms : o \in Members(form))
    BY DEF InFigures
  <2> QED BY <2>1, <2>2, Naming
<1>6. Drawings' = [p \in Plots |-> IF life[p] = "open" /\ p \notin InFigures
                                  THEN P!NoGraphs ELSE Drawings[p]]
  <2> DEFINE S == {p \in Plots : life'[p] = "gone"}
  <2>1. graphs' = [p \in Plots |-> IF p \in S THEN <<>> ELSE graphs[p]]
    BY DEF CloseEverything
  <2>2. Drawings' = [p \in Plots |-> IF p \in S THEN P!NoGraphs ELSE Drawings[p]]
    BY <2>1, NoDrawings
  <2>3. ASSUME NEW p \in Plots
        PROVE  (IF p \in S THEN P!NoGraphs ELSE Drawings[p])
                  = IF life[p] = "open" /\ p \notin InFigures THEN P!NoGraphs ELSE Drawings[p]
    <3>1. p \in Objects
      BY DEF Objects
    <3>2. CASE life[p] = "open"
      BY <1>5, <3>1, <3>2, Naming
    <3>3. CASE life[p] = "gone"
      <4>1. Drawings[p] = P!NoGraphs
        BY <3>3, CountEmpty DEF Placed, Drawings, P!NoGraphs
      <4> QED BY <3>3, <4>1
    <3>4. CASE life[p] = "dying"
      BY <1>5, <3>1, <3>4, Naming
    <3> QED BY <3>1, <3>2, <3>3, <3>4 DEF TypeOK
  <2> QED BY <2>2, <2>3
<1>7. Manager' \in ManagerStates
  BY <1>2 DEF Manager, ManagerStates
<1> QED BY <1>1, <1>2, <1>3, <1>4, <1>5, <1>6, <1>7 DEF P!CloseProject

-----------------------------------------------------------------------------
(* Each action keeps Local, and is a step of Bindings or a stutter.        *)

Sound == Local' /\ [P!Next]_P!vars

Growing == \A i \in Ids : mapper[i] = "mapper" => mapper'[i] = "mapper"

SameDialog == \/ dialog' = NoDialog
              \/ /\ dialog # NoDialog
                 /\ dialog'.widget = dialog.widget /\ dialog'.id = dialog.id

Quiet == /\ fault = "none"
         /\ UNCHANGED fault

\* An action under which no container goes and no dialog opens or is given a
\* live widget again keeps Local if it keeps its first two parts.
LEMMA LocalMoved ==
    ASSUME Local, TypeOK', Placed', Growing, SameDialog, Quiet,
           \A w \in Widgets : life'[w] = "open" => life[w] = "open" \/ dialog = NoDialog
    PROVE  Local'
<1>1. AnswerFindsMapper'
  <2> SUFFICES ASSUME dialog' # NoDialog, life'[dialog'.widget] = "open"
               PROVE  mapper'[dialog'.id] = "mapper"
    BY DEF AnswerFindsMapper
  <2>1. dialog # NoDialog /\ dialog'.widget = dialog.widget /\ dialog'.id = dialog.id
    BY DEF SameDialog
  <2>2. dialog.widget \in Widgets /\ dialog.id \in Ids
    BY <2>1 DEF Local, TypeOK, Dialogs
  <2>3. mapper[dialog.id] = "mapper"
    BY <2>1, <2>2 DEF Local, AnswerFindsMapper
  <2> QED BY <2>1, <2>2, <2>3 DEF Growing
<1>2. DanglingNeedsAdoption'
  BY DEF Quiet, DanglingNeedsAdoption
<1> QED BY <1>1, <1>2 DEF Local

\* The same where no object opens, closes or is destroyed.
LEMMA LocalStays ==
    ASSUME Local, TypeOK', UNCHANGED life, Growing, SameDialog, Quiet,
           \A p \in Plots : life[p] = "gone" => graphs'[p] = graphs[p]
    PROVE  Local'
<1>1. Placed'
  BY DEF Local, Placed, Members
<1> QED BY <1>1, LocalMoved

\* A plugin publishes.
LEMMA SoundPublish ==
    ASSUME Inv, NEW id \in Ids, Publish(id)
    PROVE  Sound
<1>1. Local /\ TypeOK /\ EventLoop /\ Becomes(AddContainer(Manager, id)) /\ Alike
  BY DEF Inv, Local, Publish, Alike
<1>2. P!Publish(id) /\ Manager' \in ManagerStates
  BY <1>1, StepPublish
<1>3. Growing
  BY <1>2, Mapped, MappedNext DEF P!Publish, Growing
<1>4. dialog' \in Dialogs \cup {NoDialog} /\ SameDialog
  <2>1. CASE dialog = NoDialog
    <3>1. dialog.id # id
      BY <2>1, WindowsAssumption DEF NoDialog
    <3> QED BY <2>1, <3>1 DEF Publish, SameDialog
  <2>2. CASE dialog # NoDialog
    BY <1>1, <2>2 DEF Publish, SameDialog, TypeOK, Dialogs
  <2> QED BY <2>1, <2>2
<1>5. TypeOK' /\ Quiet /\ UNCHANGED <<life, graphs>>
  BY <1>1, <1>2, <1>4 DEF Publish, TypeOK, load, EventLoop, Quiet
<1>6. Local'
  BY <1>1, <1>3, <1>4, <1>5, LocalStays
<1> QED BY <1>2, <1>6 DEF Sound, P!Next

\* A plugin sends a value: the process crashes only on an adopted plot.
LEMMA SoundSetData ==
    ASSUME Inv, NEW id \in Ids, SetData(id)
    PROVE  Sound
<1>1. PICK o \in ToSet(objects[id]) : life[o] = "gone"
  BY DEF SetData
<1>2. objects[id] \in Seq(Objects) /\ o \in Objects
  <2>1. objects[id] \in Seq(Objects)
    BY ManagerCounts, ManagerFields DEF Inv, Local, TypeOK, AllIds
  <2> QED BY <1>1, <2>1 DEF ToSet
<1>3. Entries[id][o] > 0
  BY <1>1, <1>2, CountPositive, Mapped
<1>4. NameOf[o] \in adopted
  BY <1>1, <1>2, <1>3 DEF Inv, P!Alive, P!OpenWidgets, P!OpenPlots, Objects
<1>5. /\ fault' = "dangling pointer"
      /\ UNCHANGED <<mapper, objects, binding, life, graphs, adopted, wired, timer, dialog,
                     loads, pumping, isloading>>
  BY DEF SetData, manager, load
<1>6. TypeOK' /\ Placed' /\ AnswerFindsMapper' /\ DanglingNeedsAdoption'
  BY <1>4, <1>5 DEF Inv, Local, TypeOK, Placed, Members, AnswerFindsMapper, DanglingNeedsAdoption,
                    Manager
<1>7. UNCHANGED P!vars
  BY <1>5 DEF P!vars, Stored, Bound, Entries, Drawings
<1> QED BY <1>6, <1>7 DEF Sound, Local

\* Crashing otherwise, or staying crashed.
LEMMA SoundCrash ==
    ASSUME Inv, fault' = fault \/ fault' \in {"use after free", "null mapper"},
           UNCHANGED <<manager, life, graphs, adopted, wired, timer, dialog, load>>
    PROVE  Sound
<1>1. UNCHANGED <<mapper, objects, binding, life, graphs, adopted, wired, timer, dialog,
                  loads, pumping, isloading>>
  BY DEF manager, load
<1>2. TypeOK' /\ Placed' /\ AnswerFindsMapper' /\ DanglingNeedsAdoption'
  BY <1>1 DEF Inv, Local, TypeOK, Placed, Members, AnswerFindsMapper, DanglingNeedsAdoption,
              Manager
<1>3. UNCHANGED P!vars
  BY <1>1 DEF P!vars, Stored, Bound, Entries, Drawings
<1> QED BY <1>2, <1>3 DEF Sound, Local

\* A window is opened, by the user or by a load: no drop is waiting.
LEMMA SoundOpen ==
    ASSUME Inv, NEW w \in Windows, CanCreate(w), Relive(Members(w), "open"),
           dialog = NoDialog, UNCHANGED <<manager, graphs, adopted, wired, timer, dialog>>,
           loads' \in Seq(Loads), pumping' \in BOOLEAN, UNCHANGED isloading, Quiet
    PROVE  Sound
<1>1. Local /\ TypeOK /\ UNCHANGED <<mapper, objects, binding>>
  BY DEF Inv, Local, manager
<1>2. P!Create(Members(w)) /\ Members(w) \in SUBSET Objects
  BY <1>1, StepCreate
<1>3. Manager' = Manager /\ life' \in [Objects -> {"open", "dying", "gone"}]
  BY <1>1 DEF Manager, Relive, TypeOK
<1>4. TypeOK'
  BY <1>1, <1>3 DEF TypeOK, Quiet
<1>5. Placed'
  <2>1. \A o \in Objects : life'[o] = IF o \in Members(w) THEN "open" ELSE life[o]
    BY DEF Relive
  <2>2. \A p \in Plots : life'[p] = "gone" => graphs'[p] = <<>>
    BY <1>1, <2>1 DEF Local, Placed, Objects
  <2>3. \A o \in Objects : life'[o] = "open" => \E v \in Windows : o \in Members(v)
    BY <1>1, <2>1 DEF Local, Placed
  <2>4. \A v \in Widgets : life'[v] # "dying"
    BY <1>1, <2>1 DEF Local, Placed, Objects
  <2> QED BY <2>2, <2>3, <2>4 DEF Placed, Members
<1>6. Growing /\ SameDialog
  BY <1>1 DEF Growing, SameDialog
<1>7. Local'
  BY <1>1, <1>4, <1>5, <1>6, LocalMoved
<1> QED BY <1>2, <1>7, Naming DEF Sound, P!Next

\* A figure closes.
LEMMA SoundCloseFigure ==
    ASSUME Inv, NEW f \in Figures, CloseFigure(f)
    PROVE  Sound
<1>1. /\ Local /\ TypeOK /\ P!Registry /\ Quiet
      /\ Relive(Members(f), "dying")
      /\ UNCHANGED <<graphs, adopted, wired, timer, dialog, loads, pumping, isloading, fault>>
  BY DEF Inv, Local, CloseFigure, load, Idle, EventLoop, Quiet
<1>2. /\ P!CloseFigure(Members(f)) /\ Members(f) \in SUBSET Plots
      /\ Manager' \in ManagerStates /\ Growing
  BY <1>1, StepCloseFigure DEF Growing
<1>3. life' \in [Objects -> {"open", "dying", "gone"}]
  BY <1>1 DEF Relive, TypeOK
<1>4. TypeOK'
  BY <1>1, <1>2, <1>3 DEF TypeOK
<1>5. \A o \in Objects : life'[o] = IF o \in Members(f) THEN "dying" ELSE life[o]
  BY <1>1 DEF Relive
<1>6. Placed'
  <2>1. \A v \in Widgets : v \in Objects /\ v \notin Members(f)
    BY <1>2, WindowsAssumption DEF Objects
  <2>2. \A p \in Plots : p \in Objects
    BY DEF Objects
  <2> QED BY <1>1, <1>5, <2>1, <2>2 DEF Local, Placed, Members
<1>7. SameDialog /\ \A w \in Widgets : life'[w] = "open" => life[w] = "open" \/ dialog = NoDialog
  BY <1>1, <1>5 DEF SameDialog, Objects
<1>8. Local'
  BY <1>1, <1>2, <1>4, <1>6, <1>7, LocalMoved
<1> QED BY <1>2, <1>8 DEF Sound, P!Next

\* A closed figure is deleted.
LEMMA SoundDeleteFigure ==
    ASSUME Inv, NEW f \in Figures, DeleteFigure(f)
    PROVE  Sound
<1>1. /\ Local /\ TypeOK /\ Quiet
      /\ Relive(Members(f), "gone")
      /\ graphs' = [p \in Plots |-> IF p \in Members(f) THEN <<>> ELSE graphs[p]]
      /\ UNCHANGED <<mapper, objects, binding, adopted, wired, timer, dialog, loads, pumping,
                     isloading, fault>>
  BY DEF Inv, Local, DeleteFigure, manager, load, EventLoop, Quiet
<1>2. P!DeleteFigure(Members(f)) /\ Members(f) \in SUBSET Plots
  BY <1>1, StepDeleteFigure
<1>3. life' \in [Objects -> {"open", "dying", "gone"}] /\ graphs' \in [Plots -> Seq(Ids)]
  <2>1. life' \in [Objects -> {"open", "dying", "gone"}]
    BY <1>1 DEF Relive, TypeOK
  <2>2. graphs' \in [Plots -> Seq(Ids)]
    <3>1. graphs \in [Plots -> Seq(Ids)]
      BY <1>1 DEF TypeOK
    <3>2. <<>> \in Seq(Ids)
      OBVIOUS
    <3>3. graphs' = [p \in Plots |-> IF p \in Members(f) THEN <<>> ELSE graphs[p]]
      BY <1>1
    <3> QED BY <3>1, <3>2, <3>3
  <2> QED BY <2>1, <2>2
<1>4. TypeOK'
  BY <1>1, <1>3 DEF TypeOK, Manager
<1>5. \A o \in Objects : life'[o] = IF o \in Members(f) THEN "gone" ELSE life[o]
  BY <1>1 DEF Relive
<1>6. Placed'
  <2>1. \A p \in Plots : life'[p] = "gone" => graphs'[p] = <<>>
    BY <1>1, <1>5 DEF Local, Placed, Objects
  <2>2. \A o \in Objects : life'[o] = "open" => \E w \in Windows : o \in Members(w)
    BY <1>1, <1>5 DEF Local, Placed
  <2>3. \A w \in Widgets : life'[w] # "dying"
    BY <1>1, <1>5 DEF Local, Placed, Objects
  <2> QED BY <2>1, <2>2, <2>3 DEF Placed, Members
<1>7. /\ SameDialog /\ Growing
      /\ \A w \in Widgets : life'[w] = "open" => life[w] = "open" \/ dialog = NoDialog
  BY <1>1, <1>5 DEF SameDialog, Growing, Objects
<1>8. Local'
  BY <1>1, <1>4, <1>6, <1>7, LocalMoved
<1> QED BY <1>2, <1>8 DEF Sound, P!Next

\* A form closes.
LEMMA SoundCloseForm ==
    ASSUME Inv, NEW f \in Forms, CloseForm(f)
    PROVE  Sound
<1>1. /\ Local /\ TypeOK /\ P!Registry /\ Quiet
      /\ Relive(Members(f), "gone")
      /\ graphs' = [p \in Plots |-> IF p \in Members(f) THEN <<>> ELSE graphs[p]]
      /\ wired' = wired \ Members(f) /\ timer' = timer \ Members(f)
      /\ UNCHANGED <<adopted, dialog, loads, pumping, isloading, fault>>
  BY DEF Inv, Local, CloseForm, load, Idle, EventLoop, Quiet
<1>2. /\ P!CloseForm(Members(f)) /\ Members(f) \in SUBSET Objects
      /\ Manager' \in ManagerStates /\ Growing
  BY <1>1, StepCloseForm DEF Growing
<1>3. life' \in [Objects -> {"open", "dying", "gone"}] /\ graphs' \in [Plots -> Seq(Ids)]
  <2>1. life' \in [Objects -> {"open", "dying", "gone"}]
    BY <1>1 DEF Relive, TypeOK
  <2>2. graphs' \in [Plots -> Seq(Ids)]
    <3>1. graphs \in [Plots -> Seq(Ids)]
      BY <1>1 DEF TypeOK
    <3>2. <<>> \in Seq(Ids)
      OBVIOUS
    <3>3. graphs' = [p \in Plots |-> IF p \in Members(f) THEN <<>> ELSE graphs[p]]
      BY <1>1
    <3> QED BY <3>1, <3>2, <3>3
  <2> QED BY <2>1, <2>2
<1>4. TypeOK'
  BY <1>1, <1>2, <1>3 DEF TypeOK
<1>5. \A o \in Objects : life'[o] = IF o \in Members(f) THEN "gone" ELSE life[o]
  BY <1>1 DEF Relive
<1>6. Placed'
  <2>1. \A p \in Plots : life'[p] = "gone" => graphs'[p] = <<>>
    BY <1>1, <1>5 DEF Local, Placed, Objects
  <2>2. \A o \in Objects : life'[o] = "open" => \E w \in Windows : o \in Members(w)
    BY <1>1, <1>5 DEF Local, Placed
  <2>3. \A w \in Widgets : life'[w] # "dying"
    BY <1>1, <1>5 DEF Local, Placed, Objects
  <2> QED BY <2>1, <2>2, <2>3 DEF Placed, Members
<1>7. SameDialog /\ \A w \in Widgets : life'[w] = "open" => life[w] = "open" \/ dialog = NoDialog
  BY <1>1, <1>5 DEF SameDialog, Objects
<1>8. Local'
  BY <1>1, <1>2, <1>4, <1>6, <1>7, LocalMoved
<1> QED BY <1>2, <1>8, Naming DEF Sound, P!Next

\* The project closes, by itself or for a load.
LEMMA SoundClose ==
    ASSUME Inv, fault = "none", CloseEverything,
           dialog' \in Dialogs \cup {NoDialog}, loads' \in Seq(Loads),
           pumping' \in BOOLEAN, isloading' \in BOOLEAN
    PROVE  Sound
<1>1. Local /\ TypeOK /\ Placed
  BY DEF Inv, Local
<1>2. /\ P!CloseProject(InFigures) /\ InFigures \in SUBSET Plots
      /\ Manager' \in ManagerStates
  BY <1>1, StepCloseProject
<1>3. /\ adopted' = {} /\ wired' = {} /\ timer' = {} /\ fault' = fault
      /\ graphs' = [p \in Plots |-> IF life'[p] = "gone" THEN <<>> ELSE graphs[p]]
  BY DEF CloseEverything
<1>4. \A o \in Objects : life'[o] = IF life[o] # "open" THEN life[o]
                                   ELSE IF o \in InFigures THEN "dying" ELSE "gone"
  BY <1>2, Naming DEF P!CloseProject
<1>5. life' \in [Objects -> {"open", "dying", "gone"}]
  <2>1. DOMAIN life' = Objects /\ life' = [o \in Objects |-> life'[o]]
    BY <1>2, Naming DEF P!CloseProject
  <2> QED BY <1>1, <1>4, <2>1 DEF TypeOK
<1>6. graphs' \in [Plots -> Seq(Ids)]
  BY <1>1, <1>3 DEF TypeOK
<1>7. TypeOK'
  BY <1>1, <1>2, <1>3, <1>5, <1>6 DEF TypeOK
<1>8. \A o \in Objects : life'[o] # "open"
  BY <1>4
<1>9. Placed'
  <2>1. \A w \in Widgets : w \in Objects /\ w \notin InFigures
    BY <1>2, WindowsAssumption DEF Objects
  <2>2. \A w \in Widgets : life'[w] # "dying"
    BY <1>1, <1>4, <2>1 DEF Placed
  <2> QED BY <1>3, <1>8, <2>2 DEF Placed
<1>10. AnswerFindsMapper'
  <2> SUFFICES ASSUME dialog' # NoDialog PROVE life'[dialog'.widget] # "open"
    BY DEF AnswerFindsMapper
  <2>1. dialog'.widget \in Objects
    BY DEF Dialogs, Objects
  <2> QED BY <1>8, <2>1
<1>11. DanglingNeedsAdoption'
  BY <1>3 DEF DanglingNeedsAdoption
<1> QED BY <1>2, <1>7, <1>9, <1>10, <1>11 DEF Sound, Local, P!Next

\* The project is closed by the user or by a plugin.
LEMMA SoundCloseProject ==
    ASSUME Inv, CloseProject
    PROVE  Sound
<1>1. /\ fault = "none" /\ CloseEverything /\ TypeOK
      /\ UNCHANGED <<loads, pumping, isloading>>
  BY DEF CloseProject, EventLoop, load, Inv, Local
<1>2. dialog' \in Dialogs \cup {NoDialog}
  BY <1>1 DEF CloseProject, TypeOK, Dialogs
<1> QED BY <1>1, <1>2, SoundClose DEF TypeOK

\* A widget is bound: by a drop, by the answer to one, by a load.
LEMMA SoundBind ==
    ASSUME Inv, NEW w \in Widgets, NEW id \in Ids, life[w] = "open", mapper[id] = "mapper",
           Becomes(AddElement(Manager, w, id)), Alike, Quiet, SameDialog,
           dialog' \in Dialogs \cup {NoDialog}, wired' \in SUBSET Buttons, UNCHANGED timer,
           loads' \in Seq(Loads), pumping' \in BOOLEAN, UNCHANGED isloading
    PROVE  Sound
<1>1. Local /\ TypeOK /\ P!Registry
  BY DEF Inv, Local
<1>2. P!Bind(w, id) /\ Manager' \in ManagerStates /\ Growing
  BY <1>1, StepBind DEF Growing
<1>3. TypeOK' /\ UNCHANGED <<life, graphs>>
  BY <1>1, <1>2 DEF TypeOK, Alike, Quiet
<1>4. Local'
  BY <1>1, <1>2, <1>3, LocalStays
<1> QED BY <1>2, <1>4 DEF Sound, P!Next

\* A drop that asks nothing.
LEMMA SoundDrop ==
    ASSUME Inv, NEW w \in Widgets, NEW id \in Ids, Drop(w, id)
    PROVE  Sound
<1>1. /\ life[w] = "open" /\ mapper[id] = "mapper" /\ Becomes(AddElement(Manager, w, id))
      /\ Alike /\ Quiet /\ SameDialog /\ TypeOK
      /\ UNCHANGED <<timer, dialog, loads, pumping, isloading>>
  BY DEF Drop, CanDrop, Idle, EventLoop, Alike, Quiet, SameDialog, load, Inv, Local
<1>2. wired' \in SUBSET Buttons
  BY <1>1 DEF Drop, TypeOK
<1>3. /\ dialog' \in Dialogs \cup {NoDialog} /\ loads' \in Seq(Loads)
      /\ pumping' \in BOOLEAN
  BY <1>1 DEF TypeOK
<1> QED BY <1>1, <1>2, <1>3, SoundBind

\* The widget of a dialog is a live one, and its id has a mapper.
LEMMA SoundAnswer ==
    ASSUME Inv, Answer
    PROVE  Sound
<1>1. /\ TypeOK /\ dialog # NoDialog /\ life[dialog.widget] = "open"
      /\ Becomes(AddElement(Manager, dialog.widget, dialog.id))
      /\ Alike /\ Quiet /\ SameDialog /\ dialog' = NoDialog
      /\ UNCHANGED <<wired, timer, loads, pumping, isloading>>
  BY DEF Answer, Answerable, EventLoop, Alike, Quiet, SameDialog, load, Inv, Local
<1>2. dialog.widget \in Widgets /\ dialog.id \in Ids
  BY <1>1 DEF TypeOK, Dialogs
<1>3. mapper[dialog.id] = "mapper"
  BY <1>1 DEF Inv, Local, AnswerFindsMapper
<1>4. /\ dialog' \in Dialogs \cup {NoDialog} /\ loads' \in Seq(Loads)
      /\ pumping' \in BOOLEAN /\ wired' \in SUBSET Buttons
  BY <1>1 DEF TypeOK
<1> QED BY <1>1, <1>2, <1>3, <1>4, SoundBind

\* A widget leaves the registry, by itself or because its drop asks first.
LEMMA SoundUnbind ==
    ASSUME Inv, NEW w \in Widgets, RemoveConnection(w)
    PROVE  Sound
<1>1. /\ Local /\ TypeOK /\ P!Registry
      /\ life[w] = "open" /\ Becomes(DeleteEntry(Manager, NameOf[w]))
      /\ Alike /\ Quiet /\ SameDialog
      /\ UNCHANGED <<wired, timer, dialog, loads, pumping, isloading, fault>>
  BY DEF RemoveConnection, Idle, EventLoop, Alike, Quiet, SameDialog, load, Inv, Local
<1>2. P!Unbind(w) /\ Manager' \in ManagerStates /\ Growing
  BY <1>1, StepUnbind DEF Growing
<1>3. TypeOK' /\ UNCHANGED <<life, graphs>>
  BY <1>1, <1>2 DEF TypeOK, Alike
<1>4. Local'
  BY <1>1, <1>2, <1>3, LocalStays
<1> QED BY <1>2, <1>4 DEF Sound, P!Next

\* The id of a drop that asks has a mapper when it asks.
LEMMA SoundDropAndAsk ==
    ASSUME Inv, NEW w \in Widgets, NEW id \in Ids, DropAndAsk(w, id)
    PROVE  Sound
<1>1. /\ Local /\ TypeOK /\ P!Registry
      /\ life[w] = "open" /\ mapper[id] = "mapper"
      /\ Becomes(IF w \in Sliders THEN DeleteEntry(Manager, NameOf[w]) ELSE Manager)
      /\ Alike /\ Quiet
      /\ dialog' = [widget |-> w, id |-> id, container |-> "valid"]
      /\ UNCHANGED <<life, graphs, adopted, wired, timer, loads, pumping, isloading, fault>>
  BY DEF DropAndAsk, CanDrop, Idle, EventLoop, Alike, Quiet, load, Inv, Local
<1>2. [P!Next]_P!vars /\ Manager' \in ManagerStates /\ Growing
  <2>1. CASE w \in Sliders
    <3>1. P!Unbind(w) /\ Manager' \in ManagerStates /\ Growing
      BY <1>1, <2>1, StepUnbind DEF Growing
    <3> QED BY <3>1 DEF P!Next
  <2>2. CASE w \notin Sliders
    <3>1. UNCHANGED <<mapper, objects, binding>>
      BY <1>1, <2>2, ManagerFields DEF Becomes
    <3>2. UNCHANGED P!vars
      BY <1>1, <3>1 DEF P!vars, Stored, Bound, Entries, Drawings
    <3>3. Manager' = Manager /\ Growing
      BY <3>1 DEF Manager, Growing
    <3> QED BY <1>1, <3>2, <3>3 DEF TypeOK
  <2> QED BY <2>1, <2>2
<1>3. TypeOK'
  <2>1. dialog' \in Dialogs \cup {NoDialog}
    BY <1>1 DEF Dialogs
  <2> QED BY <1>1, <1>2, <2>1 DEF TypeOK
<1>4. Placed'
  BY <1>1 DEF Local, Placed, Members
<1>5. AnswerFindsMapper'
  BY <1>1, <1>2 DEF AnswerFindsMapper, Growing
<1>6. DanglingNeedsAdoption'
  BY <1>1 DEF DanglingNeedsAdoption, Quiet
<1> QED BY <1>2, <1>3, <1>4, <1>5, <1>6 DEF Sound, Local

\* A pressed button starts its timer.
LEMMA SoundPress ==
    ASSUME Inv, NEW b \in Buttons, Press(b)
    PROVE  Sound
<1>1. /\ Local /\ TypeOK /\ Quiet /\ timer' = timer \cup {b}
      /\ UNCHANGED <<mapper, objects, binding, life, graphs, adopted, wired, dialog, loads,
                     pumping, isloading, fault>>
  BY DEF Press, Idle, EventLoop, Quiet, manager, load, Inv, Local
<1>2. TypeOK' /\ Growing /\ SameDialog
  BY <1>1 DEF TypeOK, Manager, Growing, SameDialog
<1>3. Local'
  BY <1>1, <1>2, LocalStays
<1>4. UNCHANGED P!vars
  BY <1>1 DEF P!vars, Stored, Bound, Entries, Drawings
<1> QED BY <1>3, <1>4 DEF Sound

\* A timer inserts at most the empty binding and a null mapper, which Bindings
\* does not see.
LEMMA SoundTimeOut ==
    ASSUME Inv, NEW b \in Buttons, TimeOut(b)
    PROVE  Sound
<1> DEFINE name == NameOf[b]
           m == GetContainerOf(Manager, name)
<1>1. /\ Local /\ TypeOK /\ Quiet /\ Becomes(m) /\ Alike
      /\ timer' \in SUBSET Buttons
      /\ UNCHANGED <<wired, dialog, loads, pumping, isloading>>
  BY DEF TimeOut, EventLoop, Quiet, load, Alike, Inv, Local, TypeOK
<1>2. name \in Names /\ Manager \in ManagerStates
  BY <1>1, WindowsAssumption DEF Objects, TypeOK
<1>3. /\ m \in ManagerStates /\ m.objects = objects
      /\ \A i \in AllIds : m.mapper[i] = "mapper" <=> mapper[i] = "mapper"
      /\ m.binding = binding \/ (binding[name] = None /\ m.binding = [binding EXCEPT ![name] = NoId])
  <2>1. ASSUME NEW n \in ManagerStates, NEW id \in AllIds
        PROVE  /\ LookupOrInsert(n, id) \in ManagerStates
               /\ LookupOrInsert(n, id).objects = n.objects
               /\ LookupOrInsert(n, id).binding = n.binding
               /\ \A i \in AllIds : LookupOrInsert(n, id).mapper[i] = "mapper" <=> n.mapper[i] = "mapper"
    BY DEF LookupOrInsert, ManagerStates
  <2>2. CASE binding[name] # None
    <3>1. binding[name] \in AllIds
      BY <1>2, <2>2, ManagerFields DEF ManagerStates
    <3>2. m = LookupOrInsert(Manager, binding[name])
      BY <2>2, ManagerFields DEF GetContainerOf
    <3> HIDE DEF m
    <3> QED BY <1>2, <2>1, <3>1, <3>2, ManagerFields
  <2>3. CASE binding[name] = None
    <3> DEFINE k == [Manager EXCEPT !.binding[name] = NoId]
    <3>1. k \in ManagerStates /\ k.objects = objects /\ k.mapper = mapper
          /\ k.binding = [binding EXCEPT ![name] = NoId]
      BY <1>2, ManagerFields DEF ManagerStates, AllIds
    <3>2. m = LookupOrInsert(k, NoId) /\ NoId \in AllIds
      BY <2>3, ManagerFields DEF GetContainerOf, AllIds
    <3> HIDE DEF m, k
    <3> QED BY <2>1, <2>3, <3>1, <3>2
  <2> QED BY <2>2, <2>3
<1> HIDE DEF m
<1>4. UNCHANGED objects /\ \A i \in Ids : mapper'[i] = "mapper" <=> mapper[i] = "mapper"
  BY <1>1, <1>3 DEF Becomes, AllIds
<1>5. \A n \in Names : Bound'[n] = Bound[n]
  <2>1. binding' = binding \/ (binding[name] = None /\ binding' = [binding EXCEPT ![name] = NoId])
    BY <1>1, <1>3 DEF Becomes
  <2>2. DOMAIN binding = Names
    BY <1>2, ManagerFields DEF ManagerStates
  <2>3. \A n \in Names : binding'[n] = binding[n] \/ (binding[n] = None /\ binding'[n] = NoId)
    BY <1>2, <2>1, <2>2
  <2> QED BY <2>3, Mapped, MappedNext
<1>6. UNCHANGED P!vars
  BY <1>1, <1>4, <1>5, StepStutters
<1>7. TypeOK' /\ Growing /\ SameDialog /\ UNCHANGED <<life, graphs>>
  BY <1>1, <1>3, <1>4, BecomesType DEF TypeOK, Growing, SameDialog, Alike, Quiet
<1>8. Local'
  BY <1>1, <1>7, LocalStays
<1> QED BY <1>6, <1>8 DEF Sound

\* A plot draws one graph more: by a drop, by a load.
LEMMA SoundAddGraph ==
    ASSUME Inv, NEW p \in Plots, NEW id \in Ids, life[p] # "gone", mapper[id] = "mapper",
           RoomFor(p, id), Becomes(AddElement(Manager, p, id)),
           graphs' = [graphs EXCEPT ![p] = Append(@, id)],
           adopted' = IF life[p] = "dying" THEN adopted \cup {NameOf[p]} ELSE adopted,
           UNCHANGED <<life, wired, timer, dialog, isloading>>,
           Quiet, loads' \in Seq(Loads), pumping' \in BOOLEAN
    PROVE  Sound
<1>1. Local /\ TypeOK /\ P!Registry
  BY DEF Inv, Local
<1>2. /\ P!AddGraph(p, id) /\ Manager' \in ManagerStates
      /\ graphs' \in [Plots -> Seq(Ids)] /\ UNCHANGED mapper
  BY <1>1, StepAddGraph
<1>3. adopted' \in SUBSET Names
  <2>1. adopted \in SUBSET Names
    BY <1>1 DEF TypeOK
  <2>2. p \in Objects
    BY DEF Objects
  <2>3. NameOf[p] \in Names
    BY <2>2, WindowsAssumption
  <2>4. adopted \cup {NameOf[p]} \in SUBSET Names
    BY <2>1, <2>3
  <2>5. CASE life[p] = "dying"
    <3>1. adopted' = adopted \cup {NameOf[p]}
      BY <2>5
    <3> QED BY ONLY <2>4, <3>1
  <2>6. CASE life[p] # "dying"
    BY <2>1, <2>6
  <2> QED BY <2>5, <2>6
<1>4. TypeOK' /\ Growing /\ SameDialog
  BY <1>1, <1>2, <1>3 DEF TypeOK, Growing, SameDialog, Quiet
<1>5. \A q \in Plots : life[q] = "gone" => graphs'[q] = graphs[q]
  BY <1>1 DEF TypeOK
<1>6. Local'
  BY <1>1, <1>4, <1>5, LocalStays
<1> QED BY <1>2, <1>6 DEF Sound, P!Next

\* The user drops an id on a plot.
LEMMA SoundDropOnPlot ==
    ASSUME Inv, NEW p \in Plots, NEW id \in Ids, DropOnPlot(p, id)
    PROVE  Sound
<1>1. /\ life[p] = "open" /\ mapper[id] = "mapper" /\ RoomFor(p, id)
      /\ Becomes(AddElement(Manager, p, id))
      /\ graphs' = [graphs EXCEPT ![p] = Append(@, id)]
      /\ Quiet /\ TypeOK
      /\ UNCHANGED <<life, adopted, wired, timer, dialog, loads, pumping, isloading>>
  BY DEF DropOnPlot, CanDrop, Idle, EventLoop, Quiet, load, Inv, Local
<1>2. loads' \in Seq(Loads) /\ pumping' \in BOOLEAN
  BY <1>1 DEF TypeOK
<1> QED BY <1>1, <1>2, SoundAddGraph

\* The user removes graphs.
LEMMA SoundRemoveGraphs ==
    ASSUME Inv, NEW p \in Plots, NEW removed, Idle, life[p] = "open", RemoveGraphs(p, removed)
    PROVE  Sound
<1>1. /\ Local /\ TypeOK /\ P!Registry /\ Quiet
      /\ UNCHANGED <<life, adopted, wired, timer, dialog, loads, pumping, isloading, fault>>
  BY DEF RemoveGraphs, Idle, EventLoop, Quiet, load, Inv, Local
<1>2. /\ P!DropGraphs(p) /\ Manager' \in ManagerStates
      /\ graphs' \in [Plots -> Seq(Ids)] /\ Growing
  BY <1>1, StepDropGraphs DEF Growing
<1>3. TypeOK' /\ SameDialog
  BY <1>1, <1>2 DEF TypeOK, SameDialog
<1>4. \A q \in Plots : life[q] = "gone" => graphs'[q] = graphs[q]
  BY <1>1 DEF RemoveGraphs, TypeOK
<1>5. Local'
  BY <1>1, <1>2, <1>3, <1>4, LocalStays
<1> QED BY <1>2, <1>5 DEF Sound, P!Next

\* The stack of loads.
LEMMA LoadStack ==
    ASSUME TypeOK
    PROVE  /\ \A file \in Loads : <<file>> \o loads \in Seq(Loads)
           /\ loads # <<>> =>
                 /\ File \in Loads /\ Tail(loads) \in Seq(Loads)
                 /\ \A file \in Loads : <<file>> \o Tail(loads) \in Seq(Loads)
<1>1. loads \in Seq(Loads)
  BY DEF TypeOK
<1>2. \A file \in Loads : <<file>> \in Seq(Loads)
  OBVIOUS
<1> HIDE DEF Loads
<1>3. \A file \in Loads : <<file>> \o loads \in Seq(Loads)
  BY <1>1, <1>2
<1>4. loads # <<>> => Head(loads) \in Loads /\ Tail(loads) \in Seq(Loads)
  BY <1>1
<1> QED BY <1>2, <1>3, <1>4 DEF File

\* Loads go on without the manager.
LEMMA SoundReader ==
    ASSUME Inv, Quiet, loads' \in Seq(Loads), pumping' \in BOOLEAN, isloading' \in BOOLEAN,
           UNCHANGED <<manager, life, graphs, adopted, wired, timer, dialog>>
    PROVE  Sound
<1>1. Local /\ TypeOK /\ UNCHANGED <<mapper, objects, binding>>
  BY DEF Inv, Local, manager
<1>2. TypeOK' /\ Growing /\ SameDialog
  BY <1>1 DEF TypeOK, Manager, Growing, SameDialog, Quiet
<1>3. Local'
  BY <1>1, <1>2, LocalStays
<1>4. UNCHANGED P!vars
  BY <1>1 DEF P!vars, Stored, Bound, Entries, Drawings
<1> QED BY <1>3, <1>4 DEF Sound

\* A file is read: the project closes first, unless another load is going on.
LEMMA SoundLoadExperiment ==
    ASSUME Inv, NEW file \in Experiments, LoadExperiment(file)
    PROVE  Sound
<1> DEFINE top == [windows |-> file.windows, connections |-> file.connections,
                   held |-> {o \in Objects : life'[o] = "dying"}]
<1>1. TypeOK /\ fault = "none" /\ isloading' = TRUE /\ pumping' = FALSE /\ UNCHANGED dialog
  BY DEF LoadExperiment, Idle, EventLoop, Inv, Local
<1>2. loads' \in Seq(Loads)
  <2>1. loads' = <<top>> \o loads
    BY DEF LoadExperiment
  <2>2. top \in Loads
    BY WindowsAssumption DEF Loads, Connections
  <2> HIDE DEF top
  <2> QED BY <1>1, <2>1, <2>2, LoadStack
<1>3. CASE isloading
  BY <1>1, <1>2, <1>3, SoundReader DEF LoadExperiment, Quiet
<1>4. CASE ~isloading
  <2>1. CloseEverything
    BY <1>4 DEF LoadExperiment
  <2>2. dialog' \in Dialogs \cup {NoDialog}
    BY <1>1 DEF TypeOK
  <2> QED BY <1>1, <1>2, <2>1, <2>2, SoundClose
<1> QED BY <1>3, <1>4

\* The next window of the file.
LEMMA SoundLoadWindow ==
    ASSUME Inv, LoadWindow
    PROVE  Sound
<1> DEFINE rest == [File EXCEPT !.windows = Tail(@)]
<1>1. /\ TypeOK /\ loads # <<>> /\ dialog = NoDialog /\ Quiet /\ File.windows # <<>>
      /\ loads' = <<rest>> \o Tail(loads)
      /\ UNCHANGED <<manager, graphs, adopted, wired, timer, dialog, isloading>>
  BY DEF LoadWindow, Reading, Continue, Quiet, Inv, Local
<1>2. File \in Loads
  BY <1>1, LoadStack
<1>3. rest \in Loads
  <2>1. File.windows \in Seq(Windows)
    BY <1>2 DEF Loads
  <2>2. Tail(File.windows) \in Seq(Windows)
    BY <1>1, <2>1
  <2> QED BY <1>2, <2>2 DEF Loads
<1> HIDE DEF rest
<1>4. loads' \in Seq(Loads)
  BY <1>1, <1>3, LoadStack
<1>5. CASE pumping' = FALSE /\ UNCHANGED life
  BY <1>1, <1>4, <1>5, SoundReader DEF TypeOK
<1>6. CASE \E v \in Windows : /\ CanCreate(v) /\ Relive(Members(v), "open")
                              /\ pumping' = (v \in Forms)
  BY <1>1, <1>4, <1>6, SoundOpen
<1> QED BY <1>5, <1>6 DEF LoadWindow

\* An id of the file without a mapper is published.
LEMMA SoundLoadId ==
    ASSUME Inv, LoadId
    PROVE  Sound
<1> DEFINE id == Head(File.connections).id
<1>1. /\ Local /\ TypeOK /\ loads # <<>> /\ File.connections # <<>> /\ Quiet
      /\ Becomes(AddContainer(Manager, id)) /\ Alike /\ pumping' = FALSE
      /\ UNCHANGED <<wired, timer, dialog, loads, isloading>>
  BY DEF LoadId, Connecting, Reading, Quiet, Alike, Inv, Local
<1>2. id \in Ids
  <2>1. File.connections \in Seq(Connections)
    BY <1>1, LoadStack DEF Loads
  <2>2. Head(File.connections) \in Connections
    BY <1>1, <2>1
  <2> QED BY <2>2 DEF Connections
<1> HIDE DEF id
<1>3. P!Publish(id) /\ Manager' \in ManagerStates
  BY <1>1, <1>2, StepPublish
<1>4. Growing /\ SameDialog
  BY <1>1, <1>3, Mapped, MappedNext DEF P!Publish, Growing, SameDialog
<1>5. TypeOK' /\ UNCHANGED <<life, graphs>>
  BY <1>1, <1>3 DEF TypeOK, Alike, Quiet
<1>6. Local'
  BY <1>1, <1>4, <1>5, LocalStays
<1> QED BY <1>2, <1>3, <1>6 DEF Sound, P!Next

\* The next connection of the file.
LEMMA SoundLoadConnection ==
    ASSUME Inv, LoadConnection
    PROVE  Sound
<1> DEFINE c == Head(File.connections)
           rest == [File EXCEPT !.connections = Tail(@)]
<1>1. /\ TypeOK /\ loads # <<>> /\ File.connections # <<>> /\ Quiet
      /\ mapper[c.id] = "mapper" /\ pumping' = FALSE
      /\ loads' = <<rest>> \o Tail(loads)
      /\ UNCHANGED <<life, wired, timer, dialog, isloading>>
  BY DEF LoadConnection, Connecting, Reading, Continue, Quiet, Inv, Local
<1>2. File \in Loads /\ File.connections \in Seq(Connections)
  BY <1>1, LoadStack DEF Loads
<1>3. c.id \in Ids /\ c.name \in Names
  <2>1. c \in Connections
    BY <1>1, <1>2
  <2> QED BY <2>1 DEF Connections
<1>4. loads' \in Seq(Loads)
  <2>1. Tail(File.connections) \in Seq(Connections)
    BY <1>1, <1>2
  <2>2. rest \in Loads
    BY <1>2, <2>1 DEF Loads
  <2> HIDE DEF rest
  <2> QED BY <1>1, <2>2, LoadStack
<1> HIDE DEF rest
<1>5. CASE UNCHANGED <<manager, graphs, adopted>>
  BY <1>1, <1>4, <1>5, SoundReader DEF TypeOK
<1>6. CASE \E o \in FindChild(c.name) :
              /\ o \in Plots => RoomFor(o, c.id)
              /\ Becomes(AddElement(Manager, o, c.id))
              /\ graphs' = IF o \in Plots THEN [graphs EXCEPT ![o] = Append(@, c.id)]
                           ELSE graphs
              /\ adopted' = IF life[o] = "dying" THEN adopted \cup {c.name} ELSE adopted
  <2>1. PICK o \in FindChild(c.name) :
              /\ o \in Plots => RoomFor(o, c.id)
              /\ Becomes(AddElement(Manager, o, c.id))
              /\ graphs' = IF o \in Plots THEN [graphs EXCEPT ![o] = Append(@, c.id)]
                           ELSE graphs
              /\ adopted' = IF life[o] = "dying" THEN adopted \cup {c.name} ELSE adopted
    BY <1>6
  <2>2. o \in Objects /\ NameOf[o] = c.name /\ life[o] # "gone"
    BY DEF FindChild
  <2> HIDE DEF c
  <2>3. CASE o \in Plots
    BY <1>1, <1>3, <1>4, <2>1, <2>2, <2>3, SoundAddGraph
  <2>4. CASE o \notin Plots
    <3>1. o \in Widgets /\ life[o] = "open"
      BY <2>2, <2>4 DEF Objects, Inv, Local, TypeOK, Placed
    <3>2. Alike /\ SameDialog /\ dialog' \in Dialogs \cup {NoDialog} /\ wired' \in SUBSET Buttons
      BY <1>1, <2>1, <2>4, <3>1 DEF Alike, SameDialog, TypeOK
    <3> QED BY <1>1, <1>3, <1>4, <2>1, <3>1, <3>2, SoundBind
  <2> QED BY <2>3, <2>4
<1> QED BY <1>5, <1>6 DEF LoadConnection

\* A load ends, whatever is left of its file.
LEMMA SoundEndLoad ==
    ASSUME Inv, EndLoad
    PROVE  Sound
<1>1. /\ TypeOK /\ loads # <<>> /\ loads' = Tail(loads) /\ Quiet
      /\ pumping' \in BOOLEAN /\ isloading' \in BOOLEAN
      /\ UNCHANGED <<manager, life, graphs, adopted, wired, timer, dialog>>
  BY DEF EndLoad, Reading, Quiet, Inv, Local
<1>2. loads' \in Seq(Loads)
  BY <1>1, LoadStack
<1> QED BY <1>1, <1>2, SoundReader

\* A window is created by the user.
LEMMA SoundCreate ==
    ASSUME Inv, NEW w \in Windows, Create(w)
    PROVE  Sound
<1>1. /\ TypeOK /\ Quiet /\ dialog = NoDialog /\ UNCHANGED <<loads, pumping, isloading>>
      /\ CanCreate(w) /\ Relive(Members(w), "open")
      /\ UNCHANGED <<manager, graphs, adopted, wired, timer, dialog>>
  BY DEF Create, Idle, EventLoop, Quiet, load, Inv, Local
<1>2. loads' \in Seq(Loads) /\ pumping' \in BOOLEAN
  BY <1>1 DEF TypeOK
<1> QED BY <1>1, <1>2, SoundOpen

-----------------------------------------------------------------------------
(* The inductive invariant.                                                *)

\* The mapped initial state is Bindings' own.
LEMMA MappedInit == Init => P!Init
<1> SUFFICES ASSUME Init PROVE P!Init
  OBVIOUS
<1>1. /\ mapper = [id \in AllIds |-> "absent"]
      /\ objects = [id \in AllIds |-> <<>>]
      /\ binding = [n \in Names |-> None]
      /\ graphs = [p \in Plots |-> <<>>]
  BY DEF Init, EmptyManager
<1>2. Stored = {}
  BY <1>1 DEF Stored, AllIds
<1>3. Bound = [n \in Names |-> None]
  BY <1>1, WindowsAssumption DEF Bound
<1>4. \A x : Count(<<>>, x) = 0
  BY CountEmpty
<1>5. \A id \in Ids : objects[id] = <<>>
  BY <1>1 DEF AllIds
<1>6. Entries = P!NoEntries
  BY <1>4, <1>5, Naming DEF Entries, P!NoEntries
<1>7. Drawings = [p \in Plots |-> P!NoGraphs]
  BY <1>1, <1>4 DEF Drawings, P!NoGraphs
<1> QED BY <1>2, <1>3, <1>6, <1>7, Naming DEF P!Init, Init

\* Nothing is open, drawn, asked or loaded at first.
LEMMA InvInit == Init => Inv
<1> SUFFICES ASSUME Init PROVE Inv
  OBVIOUS
<1>1. P!Registry /\ P!Alive
  BY MappedInit, P!RegistryInit, P!AliveInit, Naming
<1>2. Manager \in ManagerStates
  BY DEF Init, EmptyManager, Manager, ManagerStates
<1>3. TypeOK
  <2>1. life \in [Objects -> {"open", "dying", "gone"}] /\ graphs \in [Plots -> Seq(Ids)]
    <3>1. <<>> \in Seq(Ids)
      OBVIOUS
    <3> QED BY <3>1 DEF Init
  <2>2. loads \in Seq(Loads) /\ pumping \in BOOLEAN /\ isloading \in BOOLEAN
    <3>1. <<>> \in Seq(Loads)
      OBVIOUS
    <3> QED BY <3>1 DEF Init
  <2>3. /\ adopted \in SUBSET Names /\ wired \in SUBSET Buttons /\ timer \in SUBSET Buttons
        /\ dialog \in Dialogs \cup {NoDialog}
        /\ fault \in {"none", "dangling pointer", "use after free", "null mapper"}
    BY DEF Init
  <2> QED BY <1>2, <2>1, <2>2, <2>3 DEF TypeOK
<1>4. Placed /\ AnswerFindsMapper /\ DanglingNeedsAdoption
  BY DEF Init, Placed, AnswerFindsMapper, DanglingNeedsAdoption, Objects
<1> QED BY <1>1, <1>3, <1>4 DEF Inv, Local

\* Each step keeps what is local, and is a step of Bindings or a stutter.
LEMMA StepSound ==
    ASSUME Inv, [Next]_vars
    PROVE  Sound
<1>1. ASSUME PluginStep PROVE Sound
  BY <1>1, SoundPublish, SoundSetData DEF PluginStep
<1>2. ASSUME WindowStep PROVE Sound
  BY <1>2, SoundCreate, SoundCloseFigure, SoundDeleteFigure, SoundCloseForm, SoundCloseProject
     DEF WindowStep
<1>3. ASSUME WidgetStep PROVE Sound
  <2>1. ASSUME AnswerTooLate PROVE Sound
    BY <2>1, SoundCrash DEF AnswerTooLate
  <2> QED BY <1>3, <2>1, SoundDrop, SoundDropAndAsk, SoundUnbind, SoundPress, SoundTimeOut,
             SoundAnswer DEF WidgetStep
<1>4. ASSUME PlotStep PROVE Sound
  <2>1. ASSUME NEW p \in Plots, RemoveSelectedGraph(p) PROVE Sound
    BY <2>1, SoundRemoveGraphs DEF RemoveSelectedGraph
  <2>2. ASSUME NEW p \in Plots, RemoveAllGraphs(p) PROVE Sound
    BY <2>2, SoundRemoveGraphs DEF RemoveAllGraphs
  <2> QED BY <1>4, <2>1, <2>2, SoundDropOnPlot DEF PlotStep
<1>5. ASSUME ExperimentStep PROVE Sound
  <2>1. ASSUME SaveExperiment PROVE Sound
    BY <2>1, SoundCrash DEF SaveExperiment
  <2> QED BY <1>5, <2>1, SoundLoadExperiment, SoundLoadWindow, SoundLoadId,
             SoundLoadConnection, SoundEndLoad DEF ExperimentStep
<1>6. ASSUME Crashed \/ UNCHANGED vars PROVE Sound
  BY <1>6, SoundCrash DEF Crashed, vars, manager, load
<1> QED BY <1>1, <1>2, <1>3, <1>4, <1>5, <1>6 DEF Next

\* The step of Bindings carries the invariants of Bindings.
LEMMA InvNext == Inv /\ [Next]_vars => Inv' /\ [P!Next]_P!vars
<1> SUFFICES ASSUME Inv, [Next]_vars PROVE Inv' /\ [P!Next]_P!vars
  OBVIOUS
<1>1. Local' /\ [P!Next]_P!vars
  BY StepSound DEF Sound
<1>2. P!Registry /\ P!Alive
  BY DEF Inv
<1>3. P!Registry' /\ P!Alive'
  BY <1>1, <1>2, P!RegistryNext, P!AliveNext, Naming
<1> QED BY <1>1, <1>3 DEF Inv

\* The invariant holds.
THEOREM InvInvariant == Spec => []Inv
<1>1. Init => Inv
  BY InvInit
<1>2. Inv /\ [Next]_vars => Inv'
  BY InvNext
<1> QED BY <1>1, <1>2, PTL DEF Spec

-----------------------------------------------------------------------------
(* The specification implemented is Bindings, instantiated twice: P has its *)
(* lemmas, B is the instance the runs check.                                *)

\* The two instances are the same.
LEMMA SameHelpers ==
    /\ P!vars = B!vars /\ P!Objects = B!Objects
    /\ P!NoGraphs = B!NoGraphs /\ P!NoEntries = B!NoEntries
    /\ \A S : P!Namesakes(S) = B!Namesakes(S) /\ P!NamesOf(S) = B!NamesOf(S)
    /\ \A S : P!Detached(S) = B!Detached(S)
    /\ \A N, table : P!Redrawn(N, table) = B!Redrawn(N, table)
    /\ \A p, calls : P!Erased(p, calls) <=> B!Erased(p, calls)
<1>1. P!vars = B!vars /\ P!Objects = B!Objects
      /\ P!NoGraphs = B!NoGraphs
  BY DEF P!vars, B!vars, P!Objects, B!Objects, P!NoGraphs, B!NoGraphs
<1>2. P!NoEntries = B!NoEntries
  BY <1>1 DEF P!NoEntries, B!NoEntries
<1>3. \A S : P!Namesakes(S) = B!Namesakes(S) /\ P!NamesOf(S) = B!NamesOf(S)
  BY <1>1 DEF P!Namesakes, B!Namesakes, P!NamesOf, B!NamesOf
<1>4. \A S : P!Detached(S) = B!Detached(S)
  BY <1>1, <1>3 DEF P!Detached, B!Detached
<1>5. \A N, table : P!Redrawn(N, table) = B!Redrawn(N, table)
  BY <1>1 DEF P!Redrawn, B!Redrawn
<1>6. \A p, calls : P!Erased(p, calls) <=> B!Erased(p, calls)
  BY <1>3 DEF P!Erased, B!Erased
<1> QED BY <1>1, <1>2, <1>3, <1>4, <1>5, <1>6

LEMMA SameInit == P!Init <=> B!Init
BY SameHelpers DEF P!Init, B!Init

LEMMA SameNext == P!Next <=> B!Next
<1>1. \A id : P!Publish(id) <=> B!Publish(id)
  BY SameHelpers DEF P!Publish, B!Publish
<1>2. \A S : P!Create(S) <=> B!Create(S)
  BY SameHelpers DEF P!Create, B!Create
<1>3. \A w : P!Unbind(w) <=> B!Unbind(w)
  BY SameHelpers DEF P!Unbind, B!Unbind
<1>4. \A w, id : P!Bind(w, id) <=> B!Bind(w, id)
  BY SameHelpers DEF P!Bind, B!Bind
<1>5. \A p, id : P!AddGraph(p, id) <=> B!AddGraph(p, id)
  BY SameHelpers DEF P!AddGraph, B!AddGraph
<1>6. \A p : P!DropGraphs(p) <=> B!DropGraphs(p)
  BY SameHelpers DEF P!DropGraphs, B!DropGraphs
<1>7. \A S : P!Cleared(S) <=> B!Cleared(S)
  BY SameHelpers DEF P!Cleared, B!Cleared
<1>8. \A S : P!CloseFigure(S) <=> B!CloseFigure(S)
  BY <1>7, SameHelpers DEF P!CloseFigure, B!CloseFigure
<1>9. \A S : P!DeleteFigure(S) <=> B!DeleteFigure(S)
  BY SameHelpers DEF P!DeleteFigure, B!DeleteFigure
<1>10. \A S : P!CloseForm(S) <=> B!CloseForm(S)
  BY <1>7, SameHelpers DEF P!CloseForm, B!CloseForm
<1>11. \A S : P!CloseProject(S) <=> B!CloseProject(S)
  BY SameHelpers DEF P!CloseProject, B!CloseProject
<1> QED
  BY <1>1, <1>2, <1>3, <1>4, <1>5, <1>6, <1>8, <1>9, <1>10, <1>11, SameHelpers
     DEF P!Next, B!Next

\* Every variable has its type; what crashes the process has a name.
THEOREM TypeInvariant == Spec => []TypeOK
<1>1. Inv => TypeOK
  BY DEF Inv, Local
<1> QED BY <1>1, InvInvariant, PTL

\* The answer to a question finds the mapper it was asked about: no plugin
\* message and no close of the project, below the dialog, takes it away from a
\* widget that still exists.
THEOREM AnswerFindsMapperInvariant == Spec => []AnswerFindsMapper
<1>1. Inv => AnswerFindsMapper
  BY DEF Inv, Local
<1> QED BY <1>1, InvInvariant, PTL

\* A value follows a dangling pointer only after a load has adopted a plot that
\* was dying: closing, unbinding, erasing and replacing mappers leave none.
THEOREM DanglingNeedsAdoptionInvariant == Spec => []DanglingNeedsAdoption
<1>1. Inv => DanglingNeedsAdoption
  BY DEF Inv, Local
<1> QED BY <1>1, InvInvariant, PTL

\* The manager as the code has it implements Bindings, with its invariants.
THEOREM ManagerImplementsBindings == Spec => ImplementsBindings
<1>1. Init => B!Init
  BY MappedInit, SameInit
<1>2. Inv /\ [Next]_vars => [B!Next]_B!vars
  <2> SUFFICES ASSUME Inv, [Next]_vars PROVE [B!Next]_B!vars
    OBVIOUS
  <2>1. CASE P!Next
    BY <2>1, SameNext
  <2>2. CASE UNCHANGED P!vars
    BY <2>2 DEF P!vars, B!vars
  <2> QED BY <2>1, <2>2, InvNext
<1> QED BY <1>1, <1>2, InvInvariant, PTL DEF Spec, ImplementsBindings, B!Spec
=============================================================================
