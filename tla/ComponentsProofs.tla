--------------------------- MODULE ComponentsProofs ---------------------------
(***************************************************************************)
(* Proofs about the figure and plot registry and the archive of            *)
(* MCComponents, for any plots (finitely many), names, figures, figure     *)
(* sizes, channels and values.                                             *)
(*                                                                         *)
(* That two open plots never have one name and that the registry points to *)
(* open plots only is not inductive: a rename deletes the old name of a    *)
(* plot, whichever plot that name points to, so after a load a name may    *)
(* point to another plot of the same figure (Points), and a close stays    *)
(* right only because it takes every plot of the figure with it.  Nor does *)
(* it hold within a load, when a plot is called what one that is renamed   *)
(* later is still called; then the number is in the vector twice           *)
(* (Renaming), which is why erasing one leaves it taken.  And a load finds *)
(* the names of its file free only because the file was saved from a       *)
(* project in which they were different (FileOK).                          *)
(***************************************************************************)
EXTENDS MCComponents, Induction, FiniteSetTheorems, SequenceTheorems

\* What the registry assumes of its bounds.
LEMMA BoundsAssumed == P!BoundsAssumption
BY Assumptions

\* The top of a set of indices.
LEMMA TopIs ==
    ASSUME NEW n \in Nat, NEW s, s \subseteq 1..n, n \in s
    PROVE  P!Max(s) = n
BY MaxTop DEF P!Max, Max

\* It is one of them.
LEMMA TopIn ==
    ASSUME NEW n \in Nat, NEW s, s \subseteq 1..n, s # {}
    PROVE  P!Max(s) \in s
BY MaxIn DEF P!Max, Max

\* Operators of the libraries, as the module and the theorems name them.
LEMMA LibraryIs ==
    /\ \A S : P!IsFiniteSet(S) <=> IsFiniteSet(S)
    /\ \A S : P!Cardinality(S) = Cardinality(S)
    /\ \A f : P!IsInjective(f) <=> IsInjective(f)
<1>1. ASSUME NEW S PROVE P!IsFiniteSet(S) <=> IsFiniteSet(S)
  BY DEF P!IsFiniteSet, IsFiniteSet
<1>2. ASSUME NEW S PROVE P!Cardinality(S) = Cardinality(S)
  BY Zenon DEF P!Cardinality, Cardinality
<1>3. ASSUME NEW f PROVE P!IsInjective(f) <=> IsInjective(f)
  BY Zenon DEF P!IsInjective, IsInjective
<1> QED BY <1>1, <1>2, <1>3

-----------------------------------------------------------------------------
(* Sequences of numbers.                                                   *)

\* The element that InsertAt adds takes its place, and those behind move on.
LEMMA InsertedAt ==
    ASSUME NEW S, NEW s \in Seq(S), NEW i \in 1..(Len(s) + 1), NEW e \in S
    PROVE  LET t == P!InsertAt(s, i, e)
           IN  /\ t \in Seq(S) /\ Len(t) = Len(s) + 1
               /\ DOMAIN t = 1..(Len(s) + 1)
               /\ \A j \in 1..(Len(s) + 1) :
                     t[j] = IF j < i THEN s[j] ELSE IF j = i THEN e ELSE s[j - 1]
<1> DEFINE a == SubSeq(s, 1, i - 1)
           b == SubSeq(s, i, Len(s))
           n == Len(s)
<1>1. n \in Nat /\ i \in Nat /\ i >= 1 /\ i <= n + 1
  OBVIOUS
<1>2. a \in Seq(S) /\ Len(a) = i - 1 /\ \A j \in 1..(i - 1) : a[j] = s[j]
  OBVIOUS
<1>3. b \in Seq(S) /\ Len(b) = n - i + 1 /\ \A j \in 1..(n - i + 1) : b[j] = s[i + j - 1]
  OBVIOUS
<1>4. P!InsertAt(s, i, e) = (a \o <<e>>) \o b
  BY DEF P!InsertAt
<1> HIDE DEF a, b, n
<1> DEFINE c == a \o <<e>>
<1>5. c \in Seq(S) /\ Len(c) = i /\ \A j \in 1..i : c[j] = IF j < i THEN s[j] ELSE e
  BY <1>1, <1>2
<1> HIDE DEF c
<1> DEFINE t == c \o b
<1>6. t \in Seq(S) /\ Len(t) = n + 1 /\ DOMAIN t = 1..(n + 1)
  <2>1. t \in Seq(S) /\ Len(t) = Len(c) + Len(b)
    BY <1>3, <1>5, ConcatProperties
  <2>2. Len(t) = n + 1
    BY <1>1, <1>3, <1>5, <2>1
  <2> HIDE DEF t
  <2> QED BY <2>1, <2>2
<1>7. \A j \in 1..(n + 1) : t[j] = IF j <= i THEN c[j] ELSE b[j - i]
  BY <1>1, <1>3, <1>5
<1>8. ASSUME NEW j \in 1..(n + 1)
      PROVE  t[j] = IF j < i THEN s[j] ELSE IF j = i THEN e ELSE s[j - 1]
  <2>1. CASE j <= i
    <3>1. t[j] = c[j] /\ j \in 1..i
      <4> HIDE DEF t
      <4> QED BY <1>1, <1>7, <2>1
    <3> HIDE DEF t
    <3> QED BY <1>1, <1>5, <2>1, <3>1
  <2>2. CASE j > i
    <3>1. j - i \in 1..(n - i + 1) /\ i + (j - i) - 1 = j - 1
      BY <1>1, <2>2
    <3>2. t[j] = b[j - i]
      <4> HIDE DEF t
      <4> QED BY <1>1, <1>7, <2>2
    <3>3. b[j - i] = s[i + (j - i) - 1]
      BY <1>3, <3>1
    <3>4. ~ (j < i) /\ j # i
      BY <1>1, <2>2
    <3>5. t[j] = s[j - 1]
      BY <3>1, <3>2, <3>3, Zenon
    <3> HIDE DEF t
    <3> QED BY <3>4, <3>5
  <2>3. j <= i \/ j > i
    BY <1>1
  <2> HIDE DEF t
  <2> QED BY <2>1, <2>2, <2>3
<1> HIDE DEF t
<1>9. P!InsertAt(s, i, e) = t
  BY <1>4 DEF t, c
<1> QED BY <1>6, <1>8, <1>9 DEF n

\* Those behind the element that RemoveAt takes away close the gap.
LEMMA RemovedAt ==
    ASSUME NEW S, NEW s \in Seq(S), NEW i \in 1..Len(s)
    PROVE  LET t == P!RemoveAt(s, i)
           IN  /\ t \in Seq(S) /\ Len(t) = Len(s) - 1
               /\ DOMAIN t = 1..(Len(s) - 1)
               /\ \A j \in 1..(Len(s) - 1) : t[j] = IF j < i THEN s[j] ELSE s[j + 1]
<1> DEFINE a == SubSeq(s, 1, i - 1)
           b == SubSeq(s, i + 1, Len(s))
           n == Len(s)
           t == a \o b
<1>1. n \in Nat /\ i \in Nat /\ i >= 1 /\ i <= n
  OBVIOUS
<1>2. a \in Seq(S) /\ Len(a) = i - 1 /\ \A j \in 1..(i - 1) : a[j] = s[j]
  OBVIOUS
<1>3. b \in Seq(S) /\ Len(b) = n - i /\ \A j \in 1..(n - i) : b[j] = s[i + j]
  OBVIOUS
<1>4. P!RemoveAt(s, i) = t
  BY DEF P!RemoveAt
<1> HIDE DEF a, b, n
<1>5. t \in Seq(S) /\ Len(t) = n - 1 /\ DOMAIN t = 1..(n - 1)
  <2>1. t \in Seq(S) /\ Len(t) = Len(a) + Len(b)
    BY <1>2, <1>3, ConcatProperties
  <2>2. Len(t) = n - 1
    BY <1>1, <1>2, <1>3, <2>1
  <2> HIDE DEF t
  <2> QED BY <2>1, <2>2
<1>6. \A j \in 1..(n - 1) : t[j] = IF j <= i - 1 THEN a[j] ELSE b[j - (i - 1)]
  <2>1. Len(a) + Len(b) = n - 1
    BY <1>1, <1>2, <1>3
  <2>2. \A j \in 1..(Len(a) + Len(b)) :
          t[j] = IF j <= Len(a) THEN a[j] ELSE b[j - Len(a)]
    BY <1>2, <1>3, ConcatProperties
  <2> HIDE DEF t
  <2> QED BY <1>2, <2>1, <2>2
<1>7. ASSUME NEW j \in 1..(n - 1)
      PROVE  t[j] = IF j < i THEN s[j] ELSE s[j + 1]
  <2>1. CASE j < i
    <3>1. t[j] = a[j] /\ j \in 1..(i - 1)
      <4> HIDE DEF t
      <4> QED BY <1>1, <1>6, <2>1
    <3> HIDE DEF t
    <3> QED BY <1>1, <1>2, <2>1, <3>1
  <2>2. CASE j >= i
    <3>1. j - (i - 1) \in 1..(n - i) /\ i + (j - (i - 1)) = j + 1
      BY <1>1, <2>2
    <3>2. t[j] = b[j - (i - 1)]
      <4> HIDE DEF t
      <4> QED BY <1>1, <1>6, <2>2
    <3>3. b[j - (i - 1)] = s[i + (j - (i - 1))]
      BY <1>3, <3>1
    <3>4. ~ (j < i)
      BY <1>1, <2>2
    <3>5. t[j] = s[j + 1]
      BY <3>1, <3>2, <3>3, Zenon
    <3> HIDE DEF t
    <3> QED BY <3>4, <3>5
  <2>3. j < i \/ j >= i
    BY <1>1
  <2> HIDE DEF t
  <2> QED BY <2>1, <2>2, <2>3
<1> HIDE DEF t
<1> QED BY <1>4, <1>5, <1>7 DEF n

\* The vector is sorted; it holds n more than once.
Sorted(s) == \A i, j \in DOMAIN s : i < j => s[i] <= s[j]
Twice(s, n) == \E i, j \in DOMAIN s : i # j /\ s[i] = n /\ s[j] = n

\* SortedInsert keeps the numbers sorted, and adds the one.
LEMMA InsertsSorted ==
    ASSUME NEW s \in Seq(Nat), Sorted(s), NEW n \in Nat
    PROVE  LET t == P!SortedInsert(s, n)
           IN  /\ t \in Seq(Nat) /\ Sorted(t)
               /\ P!ToSet(t) = P!ToSet(s) \cup {n}
               /\ n \in P!ToSet(s) => Twice(t, n)
               /\ \A m \in Nat : Twice(s, m) => Twice(t, m)
<1> DEFINE l == Len(s)
           T == {m \in 0..l : m = l \/ s[m + 1] > n}
<1>1. l \in Nat /\ DOMAIN s = 1..l /\ \A i \in 1..l : s[i] \in Nat
  OBVIOUS
<1>2. l \in T /\ T \subseteq Nat
  BY <1>1
<1>3. PICK m \in T : \A k \in T : ~ (k < m)
  <2> HIDE DEF T
  <2> QED BY <1>2, LeastNatural
<1>20. m \in 0..l /\ (m = l \/ s[m + 1] > n) /\ m \in Nat
  OBVIOUS
<1>21. \A k \in 0..l : k < m => k # l /\ ~ (s[k + 1] > n)
  BY <1>3
<1> HIDE DEF T, l
<1>4. \A i \in 1..l : s[i] <= n <=> i <= m
  <2> SUFFICES ASSUME NEW i \in 1..l PROVE s[i] <= n <=> i <= m
    OBVIOUS
  <2>1. m \in 0..l /\ (m = l \/ s[m + 1] > n)
    BY <1>20
  <2>2. CASE i <= m
    <3>1. i - 1 \in 0..l /\ i - 1 < m /\ (i - 1) + 1 = i
      BY <1>1, <2>1, <2>2
    <3>2. ~ (s[(i - 1) + 1] > n)
      BY <1>21, <3>1
    <3>3. ~ (s[i] > n) /\ s[i] \in Nat
      BY <1>1, <3>1, <3>2
    <3> QED BY <1>1, <2>2, <3>3
  <2>3. CASE i > m
    <3>1. m + 1 \in 1..l /\ s[m + 1] > n /\ m + 1 <= i
      BY <1>1, <2>1, <2>3
    <3>4. m + 1 < i \/ m + 1 = i
      BY <1>1, <1>20, <3>1
    <3>3. s[m + 1] \in Nat /\ s[i] \in Nat
      BY <1>1, <3>1
    <3>2. s[m + 1] <= s[i]
      <4>1. CASE m + 1 < i
        BY <1>1, <3>1, <4>1 DEF Sorted
      <4>2. CASE m + 1 = i
        BY <3>3, <4>2
      <4> QED BY <3>4, <4>1, <4>2
    <3> QED BY <2>1, <2>3, <3>1, <3>2, <3>3
  <2> QED BY <1>1, <2>1, <2>2, <2>3
<1>5. {i \in DOMAIN s : s[i] <= n} = 1..m
  BY <1>1, <1>20, <1>4
<1>6. Cardinality(1..m) = m
  BY <1>1, <1>20, FS_Interval
<1> DEFINE t == P!SortedInsert(s, n)
<1>7. t = P!InsertAt(s, m + 1, n) /\ m + 1 \in 1..(l + 1) /\ m \in Nat
  <2>1. t = P!InsertAt(s, m + 1, n)
    BY <1>5, <1>6, LibraryIs DEF P!SortedInsert
  <2> HIDE DEF t
  <2> QED BY <1>1, <1>20, <2>1
<1>8. /\ t \in Seq(Nat) /\ DOMAIN t = 1..(l + 1)
      /\ \A j \in 1..(l + 1) : t[j] = IF j < m + 1 THEN s[j] ELSE IF j = m + 1 THEN n ELSE s[j - 1]
  <2> HIDE DEF t
  <2>1. PICK at \in 1..(Len(s) + 1) : at = m + 1
    BY <1>7 DEF l
  <2>2. LET u == P!InsertAt(s, at, n)
        IN  /\ u \in Seq(Nat) /\ DOMAIN u = 1..(Len(s) + 1)
            /\ \A j \in 1..(Len(s) + 1) :
                  u[j] = IF j < at THEN s[j] ELSE IF j = at THEN n ELSE s[j - 1]
    BY InsertedAt
  <2>3. t = P!InsertAt(s, at, n)
    BY <1>7, <2>1
  <2>4. /\ t \in Seq(Nat) /\ DOMAIN t = 1..(Len(s) + 1)
        /\ \A j \in 1..(Len(s) + 1) :
              t[j] = IF j < at THEN s[j] ELSE IF j = at THEN n ELSE s[j - 1]
    BY <2>2, <2>3
  <2> QED BY <2>1, <2>4 DEF l
<1> HIDE DEF t
<1>17. m \in Nat /\ m <= l /\ m + 1 \in 1..(l + 1)
  BY <1>20, <1>1
<1>18. \A i \in 1..l : /\ i <= m => t[i] = s[i] /\ i \in 1..(l + 1)
                       /\ i > m => t[i + 1] = s[i] /\ i + 1 \in 1..(l + 1)
  <2> SUFFICES ASSUME NEW i \in 1..l
               PROVE  /\ i <= m => t[i] = s[i] /\ i \in 1..(l + 1)
                      /\ i > m => t[i + 1] = s[i] /\ i + 1 \in 1..(l + 1)
    OBVIOUS
  <2>1. i \in 1..(l + 1) /\ i + 1 \in 1..(l + 1) /\ (i + 1) - 1 = i
    BY <1>1
  <2>2. i <= m => i < m + 1
    BY <1>17
  <2>3. i > m => ~ (i + 1 < m + 1) /\ i + 1 # m + 1
    BY <1>17
  <2>4. t[i + 1] = IF i + 1 < m + 1 THEN s[i + 1] ELSE IF i + 1 = m + 1 THEN n ELSE s[(i + 1) - 1]
    BY <1>8, <2>1
  <2>5. t[i] = IF i < m + 1 THEN s[i] ELSE IF i = m + 1 THEN n ELSE s[i - 1]
    BY <1>8, <2>1
  <2> QED BY <2>1, <2>2, <2>3, <2>4, <2>5
<1>19. t[m + 1] = n
  BY <1>8, <1>17
<1> DEFINE At(i) == IF i <= m THEN i ELSE i + 1
<1>9. \A i \in 1..l : At(i) \in 1..(l + 1) /\ t[At(i)] = s[i] /\ At(i) # m + 1
  <2> SUFFICES ASSUME NEW i \in 1..l PROVE At(i) \in 1..(l + 1) /\ t[At(i)] = s[i] /\ At(i) # m + 1
    OBVIOUS
  <2>1. CASE i <= m
    <3>1. At(i) = i /\ i # m + 1
      BY <1>17, <2>1
    <3> HIDE DEF At
    <3>2. t[i] = s[i] /\ i \in 1..(l + 1)
      BY <1>18, <2>1
    <3> QED BY <3>1, <3>2
  <2>2. CASE i > m
    <3>1. At(i) = i + 1
      BY <1>17, <2>2
    <3> HIDE DEF At
    <3> QED BY <1>17, <1>18, <2>2, <3>1
  <2> QED BY <1>17, <2>1, <2>2
<1>10. \A i, j \in 1..l : i # j => At(i) # At(j)
  BY <1>1, <1>7
<1>11. t[m + 1] = n /\ m + 1 \in DOMAIN t
  BY <1>8, <1>17, <1>19
<1>12. \A j \in DOMAIN t : j = m + 1 \/ \E i \in 1..l : j = At(i)
  <2> SUFFICES ASSUME NEW j \in 1..(l + 1), j # m + 1 PROVE \E i \in 1..l : j = At(i)
    BY <1>8
  <2>1. CASE j <= m
    <3>1. j \in 1..l /\ At(j) = j
      BY <1>17, <1>1, <2>1
    <3> HIDE DEF At
    <3> QED BY <3>1
  <2>2. CASE j > m
    <3>1. j - 1 \in 1..l /\ ~ (j - 1 <= m) /\ (j - 1) + 1 = j
      BY <1>1, <1>17, <2>2
    <3>2. At(j - 1) = j
      BY <3>1
    <3> HIDE DEF At
    <3> QED BY <3>1, <3>2
  <2> QED BY <1>17, <2>1, <2>2
<1>13. Sorted(t)
  <2> SUFFICES ASSUME NEW a \in DOMAIN t, NEW b \in DOMAIN t, a < b PROVE t[a] <= t[b]
    BY DEF Sorted
  <2>5. a \in Nat /\ b \in Nat
    BY <1>1, <1>8
  <2> HIDE DEF At
  <2>1. \A i, j \in 1..l : i < j => s[i] <= s[j]
    BY <1>1 DEF Sorted
  <2>2. CASE a = m + 1
    <3>3. b # m + 1
      BY <2>2, <2>5
    <3>1. PICK j \in 1..l : b = At(j)
      BY <1>12, <3>3
    <3>2. ~ (j <= m) /\ t[b] = s[j]
      BY <1>9, <1>17, <2>2, <3>1 DEF At
    <3> QED BY <1>1, <1>4, <1>11, <2>2, <3>2
  <2>3. CASE b = m + 1
    <3>3. a # m + 1
      BY <2>3, <2>5
    <3>1. PICK i \in 1..l : a = At(i)
      BY <1>12, <3>3
    <3>2. i <= m /\ t[a] = s[i]
      BY <1>9, <1>17, <2>3, <3>1 DEF At
    <3> QED BY <1>4, <1>11, <2>3, <3>2
  <2>4. CASE a # m + 1 /\ b # m + 1
    <3>1. PICK i \in 1..l, j \in 1..l : a = At(i) /\ b = At(j)
      BY <1>12, <2>4
    <3>2. i < j /\ t[a] = s[i] /\ t[b] = s[j]
      BY <1>9, <1>17, <3>1 DEF At
    <3> QED BY <2>1, <3>2
  <2> QED BY <2>2, <2>3, <2>4
<1> HIDE DEF At
<1>14. P!ToSet(t) = P!ToSet(s) \cup {n}
  <2>1. ASSUME NEW j \in DOMAIN t PROVE t[j] \in P!ToSet(s) \cup {n}
    <3>1. CASE j = m + 1
      BY <1>11, <3>1
    <3>2. CASE j # m + 1
      <4>1. PICK i \in 1..l : j = At(i)
        BY <1>12, <3>2
      <4> QED BY <1>1, <1>9, <4>1 DEF P!ToSet
    <3> QED BY <3>1, <3>2
  <2>3. P!ToSet(t) \subseteq P!ToSet(s) \cup {n}
    BY <2>1 DEF P!ToSet
  <2>2. P!ToSet(s) \cup {n} \subseteq P!ToSet(t)
    BY <1>1, <1>8, <1>9, <1>11 DEF P!ToSet
  <2> QED BY <2>2, <2>3
<1>15. n \in P!ToSet(s) => Twice(t, n)
  BY <1>1, <1>8, <1>9, <1>11 DEF P!ToSet, Twice
<1>16. ASSUME NEW k \in Nat, Twice(s, k) PROVE Twice(t, k)
  <2>1. PICK i \in 1..l, j \in 1..l : i # j /\ s[i] = k /\ s[j] = k
    BY <1>1, <1>16 DEF Twice
  <2>2. At(i) \in DOMAIN t /\ At(j) \in DOMAIN t /\ At(i) # At(j)
    BY <1>8, <1>9, <1>10, <2>1
  <2>3. t[At(i)] = k /\ t[At(j)] = k
    BY <1>9, <2>1
  <2> QED BY <2>2, <2>3 DEF Twice
<1> QED BY <1>8, <1>13, <1>14, <1>15, <1>16 DEF t

\* RemoveFirst takes one number away, once.
LEMMA RemovesOne ==
    ASSUME NEW s \in Seq(Nat), Sorted(s), NEW n
    PROVE  LET t == P!RemoveFirst(s, n)
           IN  /\ t \in Seq(Nat) /\ Sorted(t)
               /\ \A m \in P!ToSet(s) : m # n => m \in P!ToSet(t)
               /\ Twice(s, n) => n \in P!ToSet(t)
               /\ \A m : m # n /\ Twice(s, m) => Twice(t, m)
<1> DEFINE l == Len(s)
           t == P!RemoveFirst(s, n)
           I == {i \in 1..l : s[i] = n}
<1>1. l \in Nat /\ DOMAIN s = 1..l /\ \A i \in 1..l : s[i] \in Nat
  OBVIOUS
<1>2. CASE I = {}
  <2>1. t = s
    BY <1>2 DEF P!RemoveFirst
  <2>2. ~ Twice(s, n)
    BY <1>1, <1>2 DEF Twice
  <2> QED BY <2>1, <2>2
<1>3. CASE I # {}
  <2>1. I \subseteq Nat
    BY <1>1
  <2>2. PICK f \in I : \A k \in I : ~ (k < f)
    <3> HIDE DEF I
    <3> QED BY <1>3, <2>1, LeastNatural
  <2>3. \E x \in I : \A y \in I : x <= y
    BY <1>1, <2>2
  <2>4. P!Min(I) \in I
    <3> HIDE DEF I
    <3> QED BY <2>3, Zenon DEF P!Min
  <2> DEFINE r == P!Min(I)
  <2>5. t = P!RemoveAt(s, r)
    <3>1. \E i \in 1..Len(s) : s[i] = n
      BY <1>3
    <3>2. t = P!RemoveAt(s, P!SelectInSeq(s, LAMBDA v : v = n))
      BY <3>1 DEF P!RemoveFirst
    <3>3. P!SelectInSeq(s, LAMBDA v : v = n) = P!Min(I)
      BY <1>3 DEF P!SelectInSeq
    <3> QED BY <3>2, <3>3
  <2>6. r \in 1..l /\ s[r] = n
    BY <2>4
  <2> HIDE DEF I, r, t
  <2>7. /\ t \in Seq(Nat) /\ DOMAIN t = 1..(l - 1)
        /\ \A j \in 1..(l - 1) : t[j] = IF j < r THEN s[j] ELSE s[j + 1]
    BY <2>5, <2>6, RemovedAt
  <2> HIDE DEF l
  <2> DEFINE At(i) == IF i < r THEN i ELSE i - 1
  <2>8. \A i \in 1..l : i # r => At(i) \in DOMAIN t /\ t[At(i)] = s[i]
    BY <1>1, <2>6, <2>7
  <2>9. \A i, j \in 1..l : i # r /\ j # r /\ i # j => At(i) # At(j)
    BY <1>1, <2>6
  <2>10. Sorted(t)
    <3> SUFFICES ASSUME NEW i \in 1..(l - 1), NEW j \in 1..(l - 1), i < j PROVE t[i] <= t[j]
      BY <2>7 DEF Sorted
    <3>1. \A a, b \in 1..l : a < b => s[a] <= s[b]
      BY <1>1 DEF Sorted
    <3>2. i \in 1..l /\ i + 1 \in 1..l /\ j \in 1..l /\ j + 1 \in 1..l /\ i + 1 < j + 1 /\ i < j + 1
      BY <1>1
    <3>3. t[i] = (IF i < r THEN s[i] ELSE s[i + 1]) /\ t[j] = (IF j < r THEN s[j] ELSE s[j + 1])
      BY <2>7
    <3>4. i >= r => j >= r
      BY <1>1, <2>6
    <3>5. CASE i < r /\ j < r
      BY <3>1, <3>2, <3>3, <3>5
    <3>6. CASE i < r /\ ~ (j < r)
      BY <3>1, <3>2, <3>3, <3>6
    <3>7. CASE ~ (i < r) /\ ~ (j < r)
      BY <3>1, <3>2, <3>3, <3>7
    <3> QED BY <1>1, <2>6, <3>4, <3>5, <3>6, <3>7
  <2> HIDE DEF At
  <2>11. \A m \in P!ToSet(s) : m # n => m \in P!ToSet(t)
    BY <1>1, <2>6, <2>8 DEF P!ToSet
  <2>12. Twice(s, n) => n \in P!ToSet(t)
    BY <1>1, <2>6, <2>8 DEF P!ToSet, Twice
  <2>13. \A m : m # n /\ Twice(s, m) => Twice(t, m)
    BY <1>1, <2>6, <2>8, <2>9 DEF Twice
  <2> QED BY <2>7, <2>10, <2>11, <2>12, <2>13 DEF t
<1> QED BY <1>2, <1>3

\* The next number is a free one.
LEMMA UniqueIsFree ==
    ASSUME NEW s \in Seq(Nat), Sorted(s)
    PROVE  P!UniqueNumber(s) \in Nat \ P!ToSet(s)
<1> DEFINE l == Len(s)
           gaps == {i \in 2..Len(s) : s[i] - s[i - 1] > 1}
           stop == IF gaps = {} THEN Len(s) + 1 ELSE CHOOSE i \in gaps : \A j \in gaps : i <= j
<1>1. l \in Nat /\ DOMAIN s = 1..l /\ \A i \in 1..l : s[i] \in Nat
  OBVIOUS
<1>2. \A i, j \in 1..l : i <= j => s[i] <= s[j]
  <2> SUFFICES ASSUME NEW i \in 1..l, NEW j \in 1..l, i <= j
               PROVE  s[i] <= s[j]
    OBVIOUS
  <2>1. i < j \/ i = j
    BY <1>1
  <2>2. s[i] \in Nat /\ s[j] \in Nat
    BY <1>1
  <2>3. CASE i < j
    BY <1>1, <2>3 DEF Sorted
  <2>4. CASE i = j
    BY <2>2, <2>4
  <2> QED BY <2>1, <2>3, <2>4
<1>3. CASE s = <<>> \/ s[1] # 0
  <2>1. P!UniqueNumber(s) = 0
    BY <1>3 DEF P!UniqueNumber
  <2>2. ASSUME 0 \in P!ToSet(s) PROVE FALSE
    <3>1. PICK i \in 1..l : s[i] = 0
      BY <1>1, <2>2 DEF P!ToSet
    <3>2. 1 \in 1..l /\ s[1] <= s[i] /\ s # <<>>
      BY <1>1, <1>2, <3>1
    <3> QED BY <1>1, <1>3, <3>1, <3>2
  <2> QED BY <2>1, <2>2
<1>4. CASE ~ (s = <<>> \/ s[1] # 0)
  <2>1. P!UniqueNumber(s) = s[stop - 1] + 1 /\ l > 0
    BY <1>1, <1>4 DEF P!UniqueNumber
  <2>2. /\ stop \in 2..(l + 1)
        /\ stop <= l => s[stop] - s[stop - 1] > 1
    <3>1. CASE gaps = {}
      BY <1>1, <2>1, <3>1
    <3>2. CASE gaps # {}
      <4>1. gaps \subseteq Nat
        BY <1>1
      <4>2. PICK i \in gaps : \A j \in gaps : ~ (j < i)
        <5> HIDE DEF gaps
        <5> QED BY <3>2, <4>1, LeastNatural
      <4>3. \E x \in gaps : \A j \in gaps : x <= j
        <5>1. \A j \in gaps : i <= j
          <6> HIDE DEF gaps
          <6> QED BY <4>1, <4>2
        <5> HIDE DEF gaps
        <5> QED BY <5>1
      <4>4. stop \in gaps
        <5> HIDE DEF gaps
        <5> QED BY <3>2, <4>3, Zenon
      <4>5. stop \in 2..l /\ s[stop] - s[stop - 1] > 1
        <5> HIDE DEF stop
        <5> QED BY <4>4
      <4> HIDE DEF stop, gaps
      <4> QED BY <1>1, <4>5
    <3> QED BY <3>1, <3>2
  <2> HIDE DEF stop, gaps
  <2>3. stop - 1 \in 1..l /\ s[stop - 1] \in Nat
    BY <1>1, <2>2
  <2>4. ASSUME s[stop - 1] + 1 \in P!ToSet(s) PROVE FALSE
    <3>1. PICK i \in 1..l : s[i] = s[stop - 1] + 1
      BY <1>1, <2>4 DEF P!ToSet
    <3>2. CASE i <= stop - 1
      <4>1. s[i] <= s[stop - 1]
        BY <1>2, <2>3, <3>2
      <4> QED BY <2>3, <3>1, <4>1
    <3>3. CASE i > stop - 1
      <4>1. stop \in 1..l /\ stop <= i /\ stop <= l
        BY <1>1, <2>2, <3>3
      <4>2. s[stop] <= s[i] /\ s[stop] \in Nat /\ s[stop] - s[stop - 1] > 1
        BY <1>1, <1>2, <2>2, <4>1
      <4> QED BY <2>3, <3>1, <4>2
    <3> QED BY <1>1, <2>2, <3>2, <3>3
  <2> QED BY <2>1, <2>3, <2>4
<1> QED BY <1>3, <1>4

-----------------------------------------------------------------------------
(* Folds.                                                                  *)

\* The folds of CreateFigure, CloseFigure, ReadFigure and LoadExperiment.
PlacedPlots(w, plots) == P!FoldLeft(P!CreatePlot, w, plots)
Unregistered(w, plots) ==
    P!FoldLeft(LAMBDA r, plot : P!DeletePlotPointer(r, w.plotName[plot]), w.registry, plots)
RenamedPlots(w, plots, given, order) ==
    P!FoldLeft(LAMBDA v, k : P!RenamePlot(v, plots[k], given[k]), w, order)
ReadAll(w, saved) == P!FoldLeft(P!ReadFigure, w, saved)

\* h are the worlds while a figure is opened.
Places(w, plots, n, h) ==
    /\ h[0] = w
    /\ \A i \in 1..n : h[i] = P!CreatePlot(h[i - 1], plots[i])
    /\ PlacedPlots(w, plots) = h[n]

\* The plots of a new figure, one after the other.
LEMMA PlacesPlots ==
    ASSUME NEW w, NEW plots, NEW n \in Nat, DOMAIN plots = 1..n
    PROVE  \E h : Places(w, plots, n, h)
<1> DEFINE Turn(x, i) == P!CreatePlot(x, plots[i])
           Recursion(m, f) == f = [s \in SUBSET (1..m) |->
                                     IF s = {} THEN w
                                     ELSE Turn(f[s \ {P!Max(s)}], P!Max(s))]
           last == PlacedPlots(w, plots)
           F == CHOOSE f : Recursion(n, f)
           T == {m \in Nat : \E f : Recursion(m, f)}
<1>1. last = F[1..n]
  BY DEF PlacedPlots, P!FoldLeft, P!MapThenFoldSet
<1> HIDE DEF Turn, last
<1>2. 0 \in T
  <2>1. 1..0 = {}
    OBVIOUS
  <2> DEFINE f == [s \in SUBSET (1..0) |-> w]
  <2>2. \A s \in SUBSET (1..0) : s = {}
    BY <2>1
  <2>3. f = [s \in SUBSET (1..0) |->
               IF s = {} THEN w ELSE Turn(f[s \ {P!Max(s)}], P!Max(s))]
    BY <2>2
  <2>4. Recursion(0, f)
    BY <2>3
  <2> HIDE DEF f, Recursion
  <2> QED BY <2>4
<1>3. ASSUME NEW m \in Nat, m \in T
      PROVE  m + 1 \in T
  <2>1. PICK f : Recursion(m, f)
    BY <1>3
  <2> DEFINE g == [s \in SUBSET (1..(m + 1)) |->
                     IF m + 1 \in s THEN Turn(f[s \ {m + 1}], m + 1) ELSE f[s]]
             G == [s \in SUBSET (1..(m + 1)) |->
                     IF s = {} THEN w ELSE Turn(g[s \ {P!Max(s)}], P!Max(s))]
  <2>2. \A s \in SUBSET (1..(m + 1)) : m + 1 \notin s => s \in SUBSET (1..m)
    OBVIOUS
  <2>3. ASSUME NEW s \in SUBSET (1..(m + 1))
        PROVE  g[s] = G[s]
    <3>1. CASE m + 1 \in s
      <4>6. m + 1 \in Nat
        OBVIOUS
      <4>1. P!Max(s) = m + 1 /\ s # {}
        BY <3>1, <4>6, TopIs
      <4>2. s \ {m + 1} \in SUBSET (1..(m + 1)) /\ m + 1 \notin s \ {m + 1}
        OBVIOUS
      <4>3. g[s \ {m + 1}] = f[s \ {m + 1}]
        BY <4>2
      <4>4. g[s] = Turn(f[s \ {m + 1}], m + 1)
        BY <3>1
      <4>5. G[s] = Turn(g[s \ {P!Max(s)}], P!Max(s))
        BY <4>1
      <4> HIDE DEF g, G
      <4> QED BY <4>1, <4>3, <4>4, <4>5
    <3>2. CASE m + 1 \notin s /\ s # {}
      <4>1. s \in SUBSET (1..m) /\ P!Max(s) \in s
        BY <2>2, <3>2, TopIn
      <4>2. s \ {P!Max(s)} \in SUBSET (1..(m + 1)) /\ m + 1 \notin s \ {P!Max(s)}
        BY <3>2
      <4>3. g[s \ {P!Max(s)}] = f[s \ {P!Max(s)}]
        BY <4>2
      <4>4. g[s] = f[s]
        BY <3>2
      <4>5. f[s] = Turn(f[s \ {P!Max(s)}], P!Max(s))
        BY <2>1, <3>2, <4>1
      <4>6. G[s] = Turn(g[s \ {P!Max(s)}], P!Max(s))
        BY <3>2
      <4> HIDE DEF g, G
      <4> QED BY <4>3, <4>4, <4>5, <4>6
    <3>3. CASE s = {}
      <4>1. {} \in SUBSET (1..m) /\ m + 1 \notin s
        BY <3>3
      <4>2. f[{}] = w
        BY <2>1, <4>1
      <4>3. g[s] = f[s] /\ G[s] = w
        BY <3>3, <4>1
      <4> HIDE DEF g, G
      <4> QED BY <3>3, <4>2, <4>3
    <3> QED BY <3>1, <3>2, <3>3
  <2>4. g = G
    <3> HIDE DEF Recursion
    <3>1. g = [s \in SUBSET (1..(m + 1)) |-> g[s]] /\ G = [s \in SUBSET (1..(m + 1)) |-> G[s]]
      OBVIOUS
    <3> HIDE DEF g, G
    <3> QED BY <2>3, <3>1, Zenon
  <2>5. Recursion(m + 1, g)
    BY <2>4, Zenon
  <2> HIDE DEF g, G, Recursion
  <2> QED BY <2>5
<1>4. n \in T
  <2> HIDE DEF T
  <2> QED BY <1>2, <1>3, NaturalInduction
<1>5. Recursion(n, F)
  <2> HIDE DEF Recursion
  <2>1. \E f : Recursion(n, f)
    BY <1>4
  <2> QED BY <2>1, Zenon
<1> HIDE DEF F, T
<1>6. F[{}] = w
  <2>1. {} \in SUBSET (1..n)
    OBVIOUS
  <2> QED BY <1>5, <2>1
<1>7. ASSUME NEW i \in 1..n
      PROVE  F[1..i] = Turn(F[1..(i - 1)], i)
  <2>5. i \in Nat /\ i \in 1..i
    OBVIOUS
  <2>6. 1..i \in SUBSET (1..n)
    OBVIOUS
  <2>1. i \in Nat /\ i \in 1..i /\ 1..i \in SUBSET (1..n) /\ 1..i # {}
    BY <2>5, <2>6
  <2>2. P!Max(1..i) = i
    BY <2>1, TopIs
  <2>3. (1..i) \ {i} = 1..(i - 1)
    BY <2>1
  <2>4. F[1..i] = Turn(F[(1..i) \ {P!Max(1..i)}], P!Max(1..i))
    BY <1>5, <2>1
  <2> QED BY <2>2, <2>3, <2>4
<1> HIDE DEF Recursion
<1> DEFINE h == [i \in 0..n |-> F[1..i]]
<1>8. h[0] = w /\ h[n] = F[1..n]
  <2>1. 1..0 = {} /\ 0 \in 0..n /\ n \in 0..n
    OBVIOUS
  <2> QED BY <1>6, <2>1
<1>9. ASSUME NEW i \in 1..n
      PROVE  h[i] = Turn(h[i - 1], i)
  <2>1. i \in 0..n /\ i - 1 \in 0..n
    OBVIOUS
  <2> QED BY <1>7, <2>1
<1> HIDE DEF h
<1> QED BY <1>1, <1>8, <1>9 DEF Turn, last, Places

\* h are the registries while a figure closes.
Unregisters(w, plots, n, h) ==
    /\ h[0] = w.registry
    /\ \A i \in 1..n : h[i] = P!DeletePlotPointer(h[i - 1], w.plotName[plots[i]])
    /\ Unregistered(w, plots) = h[n]

\* The plots of a closing figure, one after the other.
LEMMA UnregistersPlots ==
    ASSUME NEW w, NEW plots, NEW n \in Nat, DOMAIN plots = 1..n
    PROVE  \E h : Unregisters(w, plots, n, h)
<1> DEFINE Turn(x, i) == P!DeletePlotPointer(x, w.plotName[plots[i]])
           Recursion(m, f) == f = [s \in SUBSET (1..m) |->
                                     IF s = {} THEN w.registry
                                     ELSE Turn(f[s \ {P!Max(s)}], P!Max(s))]
           last == Unregistered(w, plots)
           F == CHOOSE f : Recursion(n, f)
           T == {m \in Nat : \E f : Recursion(m, f)}
<1>1. last = F[1..n]
  BY DEF Unregistered, P!FoldLeft, P!MapThenFoldSet
<1> HIDE DEF Turn, last
<1>2. 0 \in T
  <2>1. 1..0 = {}
    OBVIOUS
  <2> DEFINE f == [s \in SUBSET (1..0) |-> w.registry]
  <2>2. \A s \in SUBSET (1..0) : s = {}
    BY <2>1
  <2>3. f = [s \in SUBSET (1..0) |->
               IF s = {} THEN w.registry ELSE Turn(f[s \ {P!Max(s)}], P!Max(s))]
    BY <2>2
  <2>4. Recursion(0, f)
    BY <2>3
  <2> HIDE DEF f, Recursion
  <2> QED BY <2>4
<1>3. ASSUME NEW m \in Nat, m \in T
      PROVE  m + 1 \in T
  <2>1. PICK f : Recursion(m, f)
    BY <1>3
  <2> DEFINE g == [s \in SUBSET (1..(m + 1)) |->
                     IF m + 1 \in s THEN Turn(f[s \ {m + 1}], m + 1) ELSE f[s]]
             G == [s \in SUBSET (1..(m + 1)) |->
                     IF s = {} THEN w.registry ELSE Turn(g[s \ {P!Max(s)}], P!Max(s))]
  <2>2. \A s \in SUBSET (1..(m + 1)) : m + 1 \notin s => s \in SUBSET (1..m)
    OBVIOUS
  <2>3. ASSUME NEW s \in SUBSET (1..(m + 1))
        PROVE  g[s] = G[s]
    <3>1. CASE m + 1 \in s
      <4>6. m + 1 \in Nat
        OBVIOUS
      <4>1. P!Max(s) = m + 1 /\ s # {}
        BY <3>1, <4>6, TopIs
      <4>2. s \ {m + 1} \in SUBSET (1..(m + 1)) /\ m + 1 \notin s \ {m + 1}
        OBVIOUS
      <4>3. g[s \ {m + 1}] = f[s \ {m + 1}]
        BY <4>2
      <4>4. g[s] = Turn(f[s \ {m + 1}], m + 1)
        BY <3>1
      <4>5. G[s] = Turn(g[s \ {P!Max(s)}], P!Max(s))
        BY <4>1
      <4> HIDE DEF g, G
      <4> QED BY <4>1, <4>3, <4>4, <4>5
    <3>2. CASE m + 1 \notin s /\ s # {}
      <4>1. s \in SUBSET (1..m) /\ P!Max(s) \in s
        BY <2>2, <3>2, TopIn
      <4>2. s \ {P!Max(s)} \in SUBSET (1..(m + 1)) /\ m + 1 \notin s \ {P!Max(s)}
        BY <3>2
      <4>3. g[s \ {P!Max(s)}] = f[s \ {P!Max(s)}]
        BY <4>2
      <4>4. g[s] = f[s]
        BY <3>2
      <4>5. f[s] = Turn(f[s \ {P!Max(s)}], P!Max(s))
        BY <2>1, <3>2, <4>1
      <4>6. G[s] = Turn(g[s \ {P!Max(s)}], P!Max(s))
        BY <3>2
      <4> HIDE DEF g, G
      <4> QED BY <4>3, <4>4, <4>5, <4>6
    <3>3. CASE s = {}
      <4>1. {} \in SUBSET (1..m) /\ m + 1 \notin s
        BY <3>3
      <4>2. f[{}] = w.registry
        BY <2>1, <4>1
      <4>3. g[s] = f[s] /\ G[s] = w.registry
        BY <3>3, <4>1
      <4> HIDE DEF g, G
      <4> QED BY <3>3, <4>2, <4>3
    <3> QED BY <3>1, <3>2, <3>3
  <2>4. g = G
    <3> HIDE DEF Recursion
    <3>1. g = [s \in SUBSET (1..(m + 1)) |-> g[s]] /\ G = [s \in SUBSET (1..(m + 1)) |-> G[s]]
      OBVIOUS
    <3> HIDE DEF g, G
    <3> QED BY <2>3, <3>1, Zenon
  <2>5. Recursion(m + 1, g)
    BY <2>4, Zenon
  <2> HIDE DEF g, G, Recursion
  <2> QED BY <2>5
<1>4. n \in T
  <2> HIDE DEF T
  <2> QED BY <1>2, <1>3, NaturalInduction
<1>5. Recursion(n, F)
  <2> HIDE DEF Recursion
  <2>1. \E f : Recursion(n, f)
    BY <1>4
  <2> QED BY <2>1, Zenon
<1> HIDE DEF F, T
<1>6. F[{}] = w.registry
  <2>1. {} \in SUBSET (1..n)
    OBVIOUS
  <2> QED BY <1>5, <2>1
<1>7. ASSUME NEW i \in 1..n
      PROVE  F[1..i] = Turn(F[1..(i - 1)], i)
  <2>5. i \in Nat /\ i \in 1..i
    OBVIOUS
  <2>6. 1..i \in SUBSET (1..n)
    OBVIOUS
  <2>1. i \in Nat /\ i \in 1..i /\ 1..i \in SUBSET (1..n) /\ 1..i # {}
    BY <2>5, <2>6
  <2>2. P!Max(1..i) = i
    BY <2>1, TopIs
  <2>3. (1..i) \ {i} = 1..(i - 1)
    BY <2>1
  <2>4. F[1..i] = Turn(F[(1..i) \ {P!Max(1..i)}], P!Max(1..i))
    BY <1>5, <2>1
  <2> QED BY <2>2, <2>3, <2>4
<1> HIDE DEF Recursion
<1> DEFINE h == [i \in 0..n |-> F[1..i]]
<1>8. h[0] = w.registry /\ h[n] = F[1..n]
  <2>1. 1..0 = {} /\ 0 \in 0..n /\ n \in 0..n
    OBVIOUS
  <2> QED BY <1>6, <2>1
<1>9. ASSUME NEW i \in 1..n
      PROVE  h[i] = Turn(h[i - 1], i)
  <2>1. i \in 0..n /\ i - 1 \in 0..n
    OBVIOUS
  <2> QED BY <1>7, <2>1
<1> HIDE DEF h
<1> QED BY <1>1, <1>8, <1>9 DEF Turn, last, Unregisters

\* h are the worlds while the plots of a figure are renamed.
Renames(w, plots, given, order, n, h) ==
    /\ h[0] = w
    /\ \A i \in 1..n : h[i] = P!RenamePlot(h[i - 1], plots[order[i]], given[order[i]])
    /\ RenamedPlots(w, plots, given, order) = h[n]

\* The plots of a figure that is read, one after the other.
LEMMA RenamesPlots ==
    ASSUME NEW w, NEW plots, NEW given, NEW order, NEW n \in Nat, DOMAIN order = 1..n
    PROVE  \E h : Renames(w, plots, given, order, n, h)
<1> DEFINE Turn(x, i) == P!RenamePlot(x, plots[order[i]], given[order[i]])
           Recursion(m, f) == f = [s \in SUBSET (1..m) |->
                                     IF s = {} THEN w
                                     ELSE Turn(f[s \ {P!Max(s)}], P!Max(s))]
           last == RenamedPlots(w, plots, given, order)
           F == CHOOSE f : Recursion(n, f)
           T == {m \in Nat : \E f : Recursion(m, f)}
<1>1. last = F[1..n]
  BY DEF RenamedPlots, P!FoldLeft, P!MapThenFoldSet
<1> HIDE DEF Turn, last
<1>2. 0 \in T
  <2>1. 1..0 = {}
    OBVIOUS
  <2> DEFINE f == [s \in SUBSET (1..0) |-> w]
  <2>2. \A s \in SUBSET (1..0) : s = {}
    BY <2>1
  <2>3. f = [s \in SUBSET (1..0) |->
               IF s = {} THEN w ELSE Turn(f[s \ {P!Max(s)}], P!Max(s))]
    BY <2>2
  <2>4. Recursion(0, f)
    BY <2>3
  <2> HIDE DEF f, Recursion
  <2> QED BY <2>4
<1>3. ASSUME NEW m \in Nat, m \in T
      PROVE  m + 1 \in T
  <2>1. PICK f : Recursion(m, f)
    BY <1>3
  <2> DEFINE g == [s \in SUBSET (1..(m + 1)) |->
                     IF m + 1 \in s THEN Turn(f[s \ {m + 1}], m + 1) ELSE f[s]]
             G == [s \in SUBSET (1..(m + 1)) |->
                     IF s = {} THEN w ELSE Turn(g[s \ {P!Max(s)}], P!Max(s))]
  <2>2. \A s \in SUBSET (1..(m + 1)) : m + 1 \notin s => s \in SUBSET (1..m)
    OBVIOUS
  <2>3. ASSUME NEW s \in SUBSET (1..(m + 1))
        PROVE  g[s] = G[s]
    <3>1. CASE m + 1 \in s
      <4>6. m + 1 \in Nat
        OBVIOUS
      <4>1. P!Max(s) = m + 1 /\ s # {}
        BY <3>1, <4>6, TopIs
      <4>2. s \ {m + 1} \in SUBSET (1..(m + 1)) /\ m + 1 \notin s \ {m + 1}
        OBVIOUS
      <4>3. g[s \ {m + 1}] = f[s \ {m + 1}]
        BY <4>2
      <4>4. g[s] = Turn(f[s \ {m + 1}], m + 1)
        BY <3>1
      <4>5. G[s] = Turn(g[s \ {P!Max(s)}], P!Max(s))
        BY <4>1
      <4> HIDE DEF g, G
      <4> QED BY <4>1, <4>3, <4>4, <4>5
    <3>2. CASE m + 1 \notin s /\ s # {}
      <4>1. s \in SUBSET (1..m) /\ P!Max(s) \in s
        BY <2>2, <3>2, TopIn
      <4>2. s \ {P!Max(s)} \in SUBSET (1..(m + 1)) /\ m + 1 \notin s \ {P!Max(s)}
        BY <3>2
      <4>3. g[s \ {P!Max(s)}] = f[s \ {P!Max(s)}]
        BY <4>2
      <4>4. g[s] = f[s]
        BY <3>2
      <4>5. f[s] = Turn(f[s \ {P!Max(s)}], P!Max(s))
        BY <2>1, <3>2, <4>1
      <4>6. G[s] = Turn(g[s \ {P!Max(s)}], P!Max(s))
        BY <3>2
      <4> HIDE DEF g, G
      <4> QED BY <4>3, <4>4, <4>5, <4>6
    <3>3. CASE s = {}
      <4>1. {} \in SUBSET (1..m) /\ m + 1 \notin s
        BY <3>3
      <4>2. f[{}] = w
        BY <2>1, <4>1
      <4>3. g[s] = f[s] /\ G[s] = w
        BY <3>3, <4>1
      <4> HIDE DEF g, G
      <4> QED BY <3>3, <4>2, <4>3
    <3> QED BY <3>1, <3>2, <3>3
  <2>4. g = G
    <3> HIDE DEF Recursion
    <3>1. g = [s \in SUBSET (1..(m + 1)) |-> g[s]] /\ G = [s \in SUBSET (1..(m + 1)) |-> G[s]]
      OBVIOUS
    <3> HIDE DEF g, G
    <3> QED BY <2>3, <3>1, Zenon
  <2>5. Recursion(m + 1, g)
    BY <2>4, Zenon
  <2> HIDE DEF g, G, Recursion
  <2> QED BY <2>5
<1>4. n \in T
  <2> HIDE DEF T
  <2> QED BY <1>2, <1>3, NaturalInduction
<1>5. Recursion(n, F)
  <2> HIDE DEF Recursion
  <2>1. \E f : Recursion(n, f)
    BY <1>4
  <2> QED BY <2>1, Zenon
<1> HIDE DEF F, T
<1>6. F[{}] = w
  <2>1. {} \in SUBSET (1..n)
    OBVIOUS
  <2> QED BY <1>5, <2>1
<1>7. ASSUME NEW i \in 1..n
      PROVE  F[1..i] = Turn(F[1..(i - 1)], i)
  <2>5. i \in Nat /\ i \in 1..i
    OBVIOUS
  <2>6. 1..i \in SUBSET (1..n)
    OBVIOUS
  <2>1. i \in Nat /\ i \in 1..i /\ 1..i \in SUBSET (1..n) /\ 1..i # {}
    BY <2>5, <2>6
  <2>2. P!Max(1..i) = i
    BY <2>1, TopIs
  <2>3. (1..i) \ {i} = 1..(i - 1)
    BY <2>1
  <2>4. F[1..i] = Turn(F[(1..i) \ {P!Max(1..i)}], P!Max(1..i))
    BY <1>5, <2>1
  <2> QED BY <2>2, <2>3, <2>4
<1> HIDE DEF Recursion
<1> DEFINE h == [i \in 0..n |-> F[1..i]]
<1>8. h[0] = w /\ h[n] = F[1..n]
  <2>1. 1..0 = {} /\ 0 \in 0..n /\ n \in 0..n
    OBVIOUS
  <2> QED BY <1>6, <2>1
<1>9. ASSUME NEW i \in 1..n
      PROVE  h[i] = Turn(h[i - 1], i)
  <2>1. i \in 0..n /\ i - 1 \in 0..n
    OBVIOUS
  <2> QED BY <1>7, <2>1
<1> HIDE DEF h
<1> QED BY <1>1, <1>8, <1>9 DEF Turn, last, Renames

\* h are the worlds while a file is read.
Reads(w, saved, n, h) ==
    /\ h[0] = w
    /\ \A i \in 1..n : h[i] = P!ReadFigure(h[i - 1], saved[i])
    /\ ReadAll(w, saved) = h[n]

\* The figures of a file, one after the other.
LEMMA ReadsFigures ==
    ASSUME NEW w, NEW saved, NEW n \in Nat, DOMAIN saved = 1..n
    PROVE  \E h : Reads(w, saved, n, h)
<1> DEFINE Turn(x, i) == P!ReadFigure(x, saved[i])
           Recursion(m, f) == f = [s \in SUBSET (1..m) |->
                                     IF s = {} THEN w
                                     ELSE Turn(f[s \ {P!Max(s)}], P!Max(s))]
           last == ReadAll(w, saved)
           F == CHOOSE f : Recursion(n, f)
           T == {m \in Nat : \E f : Recursion(m, f)}
<1>1. last = F[1..n]
  BY DEF ReadAll, P!FoldLeft, P!MapThenFoldSet
<1> HIDE DEF Turn, last
<1>2. 0 \in T
  <2>1. 1..0 = {}
    OBVIOUS
  <2> DEFINE f == [s \in SUBSET (1..0) |-> w]
  <2>2. \A s \in SUBSET (1..0) : s = {}
    BY <2>1
  <2>3. f = [s \in SUBSET (1..0) |->
               IF s = {} THEN w ELSE Turn(f[s \ {P!Max(s)}], P!Max(s))]
    BY <2>2
  <2>4. Recursion(0, f)
    BY <2>3
  <2> HIDE DEF f, Recursion
  <2> QED BY <2>4
<1>3. ASSUME NEW m \in Nat, m \in T
      PROVE  m + 1 \in T
  <2>1. PICK f : Recursion(m, f)
    BY <1>3
  <2> DEFINE g == [s \in SUBSET (1..(m + 1)) |->
                     IF m + 1 \in s THEN Turn(f[s \ {m + 1}], m + 1) ELSE f[s]]
             G == [s \in SUBSET (1..(m + 1)) |->
                     IF s = {} THEN w ELSE Turn(g[s \ {P!Max(s)}], P!Max(s))]
  <2>2. \A s \in SUBSET (1..(m + 1)) : m + 1 \notin s => s \in SUBSET (1..m)
    OBVIOUS
  <2>3. ASSUME NEW s \in SUBSET (1..(m + 1))
        PROVE  g[s] = G[s]
    <3>1. CASE m + 1 \in s
      <4>6. m + 1 \in Nat
        OBVIOUS
      <4>1. P!Max(s) = m + 1 /\ s # {}
        BY <3>1, <4>6, TopIs
      <4>2. s \ {m + 1} \in SUBSET (1..(m + 1)) /\ m + 1 \notin s \ {m + 1}
        OBVIOUS
      <4>3. g[s \ {m + 1}] = f[s \ {m + 1}]
        BY <4>2
      <4>4. g[s] = Turn(f[s \ {m + 1}], m + 1)
        BY <3>1
      <4>5. G[s] = Turn(g[s \ {P!Max(s)}], P!Max(s))
        BY <4>1
      <4> HIDE DEF g, G
      <4> QED BY <4>1, <4>3, <4>4, <4>5
    <3>2. CASE m + 1 \notin s /\ s # {}
      <4>1. s \in SUBSET (1..m) /\ P!Max(s) \in s
        BY <2>2, <3>2, TopIn
      <4>2. s \ {P!Max(s)} \in SUBSET (1..(m + 1)) /\ m + 1 \notin s \ {P!Max(s)}
        BY <3>2
      <4>3. g[s \ {P!Max(s)}] = f[s \ {P!Max(s)}]
        BY <4>2
      <4>4. g[s] = f[s]
        BY <3>2
      <4>5. f[s] = Turn(f[s \ {P!Max(s)}], P!Max(s))
        BY <2>1, <3>2, <4>1
      <4>6. G[s] = Turn(g[s \ {P!Max(s)}], P!Max(s))
        BY <3>2
      <4> HIDE DEF g, G
      <4> QED BY <4>3, <4>4, <4>5, <4>6
    <3>3. CASE s = {}
      <4>1. {} \in SUBSET (1..m) /\ m + 1 \notin s
        BY <3>3
      <4>2. f[{}] = w
        BY <2>1, <4>1
      <4>3. g[s] = f[s] /\ G[s] = w
        BY <3>3, <4>1
      <4> HIDE DEF g, G
      <4> QED BY <3>3, <4>2, <4>3
    <3> QED BY <3>1, <3>2, <3>3
  <2>4. g = G
    <3> HIDE DEF Recursion
    <3>1. g = [s \in SUBSET (1..(m + 1)) |-> g[s]] /\ G = [s \in SUBSET (1..(m + 1)) |-> G[s]]
      OBVIOUS
    <3> HIDE DEF g, G
    <3> QED BY <2>3, <3>1, Zenon
  <2>5. Recursion(m + 1, g)
    BY <2>4, Zenon
  <2> HIDE DEF g, G, Recursion
  <2> QED BY <2>5
<1>4. n \in T
  <2> HIDE DEF T
  <2> QED BY <1>2, <1>3, NaturalInduction
<1>5. Recursion(n, F)
  <2> HIDE DEF Recursion
  <2>1. \E f : Recursion(n, f)
    BY <1>4
  <2> QED BY <2>1, Zenon
<1> HIDE DEF F, T
<1>6. F[{}] = w
  <2>1. {} \in SUBSET (1..n)
    OBVIOUS
  <2> QED BY <1>5, <2>1
<1>7. ASSUME NEW i \in 1..n
      PROVE  F[1..i] = Turn(F[1..(i - 1)], i)
  <2>5. i \in Nat /\ i \in 1..i
    OBVIOUS
  <2>6. 1..i \in SUBSET (1..n)
    OBVIOUS
  <2>1. i \in Nat /\ i \in 1..i /\ 1..i \in SUBSET (1..n) /\ 1..i # {}
    BY <2>5, <2>6
  <2>2. P!Max(1..i) = i
    BY <2>1, TopIs
  <2>3. (1..i) \ {i} = 1..(i - 1)
    BY <2>1
  <2>4. F[1..i] = Turn(F[(1..i) \ {P!Max(1..i)}], P!Max(1..i))
    BY <1>5, <2>1
  <2> QED BY <2>2, <2>3, <2>4
<1> HIDE DEF Recursion
<1> DEFINE h == [i \in 0..n |-> F[1..i]]
<1>8. h[0] = w /\ h[n] = F[1..n]
  <2>1. 1..0 = {} /\ 0 \in 0..n /\ n \in 0..n
    OBVIOUS
  <2> QED BY <1>6, <2>1
<1>9. ASSUME NEW i \in 1..n
      PROVE  h[i] = Turn(h[i - 1], i)
  <2>1. i \in 0..n /\ i - 1 \in 0..n
    OBVIOUS
  <2> QED BY <1>7, <2>1
<1> HIDE DEF h
<1> QED BY <1>1, <1>8, <1>9 DEF Turn, last, Reads

-----------------------------------------------------------------------------
(* The inductive invariant.                                                *)

\* The values of the state.
Figures == [name : Nat, plots : Seq(PlotIds)]
Maps(S, T) == UNION {[D -> T] : D \in SUBSET S}
NameMaps == Maps(PlotIds, Nat)
PointerMaps == Maps(Nat, PlotIds)
NumberMaps == Maps(Nat, Nat)
Registries == [pointer : PointerMaps, number : NumberMaps, numbers : Seq(Nat)]
Worlds == [figures : Seq(Figures), plotName : NameMaps,
           registry : Registries, windows : Seq(Nat)]

\* The types.  The two maps of the registry have the same keys, the numbers
\* are those of the names, and the number vectors are sorted.
RegistryType(r) ==
    /\ r \in Registries /\ Sorted(r.numbers)
    /\ DOMAIN r.number = DOMAIN r.pointer
    /\ \A k \in DOMAIN r.number : r.number[k] = k
WorldType(w) == w \in Worlds /\ RegistryType(w.registry) /\ Sorted(w.windows)

\* Each open plot is in one place of one figure.
Placed(w) ==
    /\ \A p : p \in DOMAIN w.plotName <=>
                 \E i \in DOMAIN w.figures : p \in P!ToSet(w.figures[i].plots)
    /\ \A i \in DOMAIN w.figures : P!IsInjective(w.figures[i].plots)
    /\ \A i, j \in DOMAIN w.figures : \A p :
          p \in P!ToSet(w.figures[i].plots) /\ p \in P!ToSet(w.figures[j].plots) => i = j

\* The number of every open plot is taken, and no two have one.
Known(w) == \A p \in DOMAIN w.plotName : w.plotName[p] \in P!ToSet(w.registry.numbers)
Distinct(w) == \A p, q \in DOMAIN w.plotName : w.plotName[p] = w.plotName[q] => p = q

\* So with the figures.
FiguresKnown(w) ==
    /\ \A i \in DOMAIN w.figures : w.figures[i].name \in P!ToSet(w.windows)
    /\ \A i, j \in DOMAIN w.figures : w.figures[i].name = w.figures[j].name => i = j

\* A name of the registry that is a plot's points to a plot of the same figure;
\* it need not be the same plot, after renames.
Points(w, groups) ==
    \A k \in DOMAIN w.registry.pointer : \E g \in groups :
        w.registry.pointer[k] \in g /\ \E q \in g : q \in DOMAIN w.plotName /\ w.plotName[q] = k
GroupsOf(w) == {P!ToSet(w.figures[i].plots) : i \in DOMAIN w.figures}

WorldInv(w) ==
    /\ WorldType(w) /\ Placed(w) /\ Known(w) /\ Distinct(w) /\ FiguresKnown(w)
    /\ Points(w, GroupsOf(w))

\* A file holds different names, no more than there can be plots.
NamesOf(f, n) == {x \in Nat : \E i \in 1..n : x \in P!ToSet(f[i])}
FileOK(f) ==
    /\ f \in Seq(Seq(Nat))
    /\ \A i \in DOMAIN f : P!IsInjective(f[i])
    /\ \A i, j \in DOMAIN f : \A x : x \in P!ToSet(f[i]) /\ x \in P!ToSet(f[j]) => i = j
    /\ IsFiniteSet(NamesOf(f, Len(f)))
    /\ Cardinality(NamesOf(f, Len(f))) <= Cardinality(PlotIds)

PlotInv == WorldInv(P!World) /\ FileOK(figureFile)

-----------------------------------------------------------------------------
(* The maps of the registry.                                               *)

\* Maps, by their keys and values.
LEMMA MapIs ==
    ASSUME NEW S, NEW T, NEW f
    PROVE  f \in Maps(S, T) <=>
              /\ f = [x \in DOMAIN f |-> f[x]] /\ DOMAIN f \subseteq S
              /\ \A x \in DOMAIN f : f[x] \in T
<1>1. ASSUME f \in Maps(S, T)
      PROVE  /\ f = [x \in DOMAIN f |-> f[x]] /\ DOMAIN f \subseteq S
             /\ \A x \in DOMAIN f : f[x] \in T
  <2>1. PICK D \in SUBSET S : f \in [D -> T]
    BY <1>1 DEF Maps
  <2> QED BY <2>1
<1>2. ASSUME f = [x \in DOMAIN f |-> f[x]], DOMAIN f \subseteq S,
             \A x \in DOMAIN f : f[x] \in T
      PROVE  f \in Maps(S, T)
  <2>1. f \in [DOMAIN f -> T]
    BY <1>2
  <2> QED BY <1>2, <2>1 DEF Maps
<1> QED BY <1>1, <1>2

\* g is f with k, and without it.
HasAlso(g, f, k, v) ==
    /\ DOMAIN g = DOMAIN f \cup {k}
    /\ \A x \in DOMAIN f \cup {k} : g[x] = IF x = k THEN v ELSE f[x]
HasNot(g, f, k) ==
    /\ DOMAIN g = DOMAIN f \ {k}
    /\ \A x \in DOMAIN f \ {k} : g[x] = f[x]

\* With adds one key.
LEMMA WithIs ==
    ASSUME NEW S, NEW T, NEW f \in Maps(S, T), NEW k \in S, NEW v \in T
    PROVE  P!With(f, k, v) \in Maps(S, T) /\ HasAlso(P!With(f, k, v), f, k, v)
<1>1. DOMAIN f \subseteq S /\ \A x \in DOMAIN f : f[x] \in T
  BY MapIs
<1>2. /\ DOMAIN P!With(f, k, v) = DOMAIN f \cup {k}
      /\ \A x \in DOMAIN f \cup {k} : P!With(f, k, v)[x] = IF x = k THEN v ELSE f[x]
      /\ P!With(f, k, v) = [x \in DOMAIN P!With(f, k, v) |-> P!With(f, k, v)[x]]
  BY DEF P!With
<1>3. \A x \in DOMAIN f \cup {k} : P!With(f, k, v)[x] \in T
  BY <1>1, <1>2
<1>4. P!With(f, k, v) \in Maps(S, T)
  BY <1>1, <1>2, <1>3, MapIs
<1> QED BY <1>2, <1>4 DEF HasAlso

\* Without takes one away.
LEMMA WithoutIs ==
    ASSUME NEW S, NEW T, NEW f \in Maps(S, T), NEW k
    PROVE  P!Without(f, k) \in Maps(S, T) /\ HasNot(P!Without(f, k), f, k)
<1>1. DOMAIN f \subseteq S /\ \A x \in DOMAIN f : f[x] \in T
  BY MapIs
<1>2. /\ DOMAIN P!Without(f, k) = DOMAIN f \ {k}
      /\ \A x \in DOMAIN f \ {k} : P!Without(f, k)[x] = f[x]
      /\ P!Without(f, k) = [x \in DOMAIN P!Without(f, k) |-> P!Without(f, k)[x]]
  BY DEF P!Without
<1>3. \A x \in DOMAIN f \ {k} : P!Without(f, k)[x] \in T
  BY <1>1, <1>2
<1>4. P!Without(f, k) \in Maps(S, T)
  BY <1>1, <1>2, <1>3, MapIs
<1> QED BY <1>2, <1>4 DEF HasNot

\* A world by its fields.
LEMMA WorldFields ==
    ASSUME NEW w \in Worlds
    PROVE  /\ w.figures \in Seq(Figures) /\ w.plotName \in NameMaps
           /\ w.registry \in Registries /\ w.windows \in Seq(Nat)
           /\ w = [figures |-> w.figures, plotName |-> w.plotName,
                   registry |-> w.registry, windows |-> w.windows]
BY DEF Worlds

\* And the fields make a world.
LEMMA IsWorld ==
    ASSUME NEW f \in Seq(Figures), NEW m \in NameMaps, NEW r \in Registries, NEW n \in Seq(Nat)
    PROVE  [figures |-> f, plotName |-> m, registry |-> r, windows |-> n] \in Worlds
BY DEF Worlds

\* t is r with a plot of name k, and without the name k.
Adds(r, t, k, plot) ==
    /\ RegistryType(t)
    /\ HasAlso(t.pointer, r.pointer, k, plot)
    /\ P!ToSet(t.numbers) = P!ToSet(r.numbers) \cup {k}
    /\ k \in P!ToSet(r.numbers) => Twice(t.numbers, k)
    /\ \A m \in Nat : Twice(r.numbers, m) => Twice(t.numbers, m)
Deletes(r, t, k) ==
    /\ RegistryType(t)
    /\ HasNot(t.pointer, r.pointer, k)
    /\ \A m \in P!ToSet(r.numbers) : m # k => m \in P!ToSet(t.numbers)
    /\ Twice(r.numbers, k) => k \in P!ToSet(t.numbers)
    /\ \A m : m # k /\ Twice(r.numbers, m) => Twice(t.numbers, m)

\* A plot is registered.
LEMMA AddPlotIs ==
    ASSUME NEW r, RegistryType(r), NEW k \in Nat, NEW plot \in PlotIds
    PROVE  Adds(r, P!AddPlotPointer(r, k, plot, k), k, plot)
<1> DEFINE t == P!AddPlotPointer(r, k, plot, k)
<1>1. /\ t.pointer = P!With(r.pointer, k, plot) /\ t.number = P!With(r.number, k, k)
      /\ t.numbers = P!SortedInsert(r.numbers, k)
      /\ t = [pointer |-> t.pointer, number |-> t.number, numbers |-> t.numbers]
  BY DEF P!AddPlotPointer
<1>2. /\ r.pointer \in PointerMaps /\ r.number \in NumberMaps /\ r.numbers \in Seq(Nat)
      /\ Sorted(r.numbers) /\ DOMAIN r.number = DOMAIN r.pointer
      /\ \A x \in DOMAIN r.number : r.number[x] = x
  BY DEF RegistryType, Registries
<1> HIDE DEF t
<1>3. /\ t.pointer \in PointerMaps
      /\ DOMAIN t.pointer = DOMAIN r.pointer \cup {k}
      /\ \A x \in DOMAIN r.pointer \cup {k} : t.pointer[x] = IF x = k THEN plot ELSE r.pointer[x]
  <2> DEFINE f == r.pointer
             g == P!With(f, k, plot)
  <2>1. f \in Maps(Nat, PlotIds)
    BY <1>2 DEF PointerMaps
  <2> HIDE DEF f
  <2>2. g \in Maps(Nat, PlotIds) /\ HasAlso(g, f, k, plot)
    BY <2>1, WithIs
  <2>3. t.pointer = g
    BY <1>1 DEF f
  <2> HIDE DEF g
  <2> QED BY <2>2, <2>3 DEF PointerMaps, f, HasAlso
<1>4. /\ t.number \in NumberMaps
      /\ DOMAIN t.number = DOMAIN r.number \cup {k}
      /\ \A x \in DOMAIN r.number \cup {k} : t.number[x] = IF x = k THEN k ELSE r.number[x]
  <2> DEFINE f == r.number
             g == P!With(f, k, k)
  <2>1. f \in Maps(Nat, Nat)
    BY <1>2 DEF NumberMaps
  <2> HIDE DEF f
  <2>2. g \in Maps(Nat, Nat) /\ HasAlso(g, f, k, k)
    BY <2>1, WithIs
  <2>3. t.number = g
    BY <1>1 DEF f
  <2> HIDE DEF g
  <2> QED BY <2>2, <2>3 DEF NumberMaps, f, HasAlso
<1>5. /\ t.numbers \in Seq(Nat) /\ Sorted(t.numbers)
      /\ P!ToSet(t.numbers) = P!ToSet(r.numbers) \cup {k}
      /\ k \in P!ToSet(r.numbers) => Twice(t.numbers, k)
      /\ \A m \in Nat : Twice(r.numbers, m) => Twice(t.numbers, m)
  BY <1>1, <1>2, InsertsSorted
<1>6. t \in Registries
  BY <1>1, <1>3, <1>4, <1>5 DEF Registries
<1>7. RegistryType(t)
  BY <1>2, <1>3, <1>4, <1>5, <1>6 DEF RegistryType
<1>8. Adds(r, t, k, plot)
  BY <1>3, <1>5, <1>7 DEF Adds, HasAlso
<1> QED BY <1>8 DEF t

\* A plot is taken out.
LEMMA DeletePlotIs ==
    ASSUME NEW r, RegistryType(r), NEW k
    PROVE  Deletes(r, P!DeletePlotPointer(r, k), k)
<1> DEFINE t == P!DeletePlotPointer(r, k)
<1>1. /\ t.pointer = P!Without(r.pointer, k) /\ t.number = P!Without(r.number, k)
      /\ t.numbers = IF k \in DOMAIN r.number THEN P!RemoveFirst(r.numbers, r.number[k])
                     ELSE r.numbers
      /\ t = [pointer |-> t.pointer, number |-> t.number, numbers |-> t.numbers]
  BY DEF P!DeletePlotPointer
<1>2. /\ r.pointer \in PointerMaps /\ r.number \in NumberMaps /\ r.numbers \in Seq(Nat)
      /\ Sorted(r.numbers) /\ DOMAIN r.number = DOMAIN r.pointer
      /\ \A x \in DOMAIN r.number : r.number[x] = x
  BY DEF RegistryType, Registries
<1> HIDE DEF t
<1>3. /\ t.pointer \in PointerMaps
      /\ DOMAIN t.pointer = DOMAIN r.pointer \ {k}
      /\ \A x \in DOMAIN r.pointer \ {k} : t.pointer[x] = r.pointer[x]
  <2> DEFINE f == r.pointer
             g == P!Without(f, k)
  <2>1. f \in Maps(Nat, PlotIds)
    BY <1>2 DEF PointerMaps
  <2> HIDE DEF f
  <2>2. g \in Maps(Nat, PlotIds) /\ HasNot(g, f, k)
    BY <2>1, WithoutIs
  <2>3. t.pointer = g
    BY <1>1 DEF f
  <2> HIDE DEF g
  <2> QED BY <2>2, <2>3 DEF PointerMaps, f, HasNot
<1>4. /\ t.number \in NumberMaps
      /\ DOMAIN t.number = DOMAIN r.number \ {k}
      /\ \A x \in DOMAIN r.number \ {k} : t.number[x] = r.number[x]
  <2> DEFINE f == r.number
             g == P!Without(f, k)
  <2>1. f \in Maps(Nat, Nat)
    BY <1>2 DEF NumberMaps
  <2> HIDE DEF f
  <2>2. g \in Maps(Nat, Nat) /\ HasNot(g, f, k)
    BY <2>1, WithoutIs
  <2>3. t.number = g
    BY <1>1 DEF f
  <2> HIDE DEF g
  <2> QED BY <2>2, <2>3 DEF NumberMaps, f, HasNot
<1>5. /\ t.numbers \in Seq(Nat) /\ Sorted(t.numbers)
      /\ \A m \in P!ToSet(r.numbers) : m # k => m \in P!ToSet(t.numbers)
      /\ Twice(r.numbers, k) => k \in P!ToSet(t.numbers)
      /\ \A m : m # k /\ Twice(r.numbers, m) => Twice(t.numbers, m)
  <2>1. CASE k \in DOMAIN r.number
    <3>1. t.numbers = P!RemoveFirst(r.numbers, k)
      BY <1>1, <1>2, <2>1
    <3> QED BY <1>2, <3>1, RemovesOne
  <2>2. CASE k \notin DOMAIN r.number
    <3>1. t.numbers = r.numbers
      BY <1>1, <2>2
    <3>2. Twice(r.numbers, k) => k \in P!ToSet(r.numbers)
      BY DEF Twice, P!ToSet
    <3> QED BY <1>2, <3>1, <3>2
  <2> QED BY <2>1, <2>2
<1>6. t \in Registries
  BY <1>1, <1>3, <1>4, <1>5 DEF Registries
<1>7. RegistryType(t)
  BY <1>2, <1>3, <1>4, <1>5, <1>6 DEF RegistryType
<1>8. Deletes(r, t, k)
  BY <1>3, <1>5, <1>7 DEF Deletes, HasNot
<1> QED BY <1>8 DEF t

-----------------------------------------------------------------------------
(* Opening a figure.                                                       *)

\* The first i plots of s.
Part(s, i) == {s[k] : k \in 1..i}

\* v is w with the first i plots of s, which are registered.
Placing(w, v, s, i) ==
    /\ WorldType(v) /\ v.figures = w.figures /\ v.windows = w.windows
    /\ DOMAIN v.plotName = DOMAIN w.plotName \cup Part(s, i)
    /\ \A q \in DOMAIN w.plotName : v.plotName[q] = w.plotName[q]
    /\ Known(v) /\ Distinct(v)
    /\ Points(v, GroupsOf(w) \cup {Part(s, i)})
    /\ \A q \in Part(s, i) : v.plotName[q] \in DOMAIN v.registry.pointer

\* One more plot.
LEMMA CreatePlotKeeps ==
    ASSUME NEW w, NEW n \in Nat, NEW s \in [1..n -> PlotIds \ DOMAIN w.plotName],
           P!IsInjective(s), NEW i \in 1..n, NEW v, Placing(w, v, s, i - 1)
    PROVE  Placing(w, P!CreatePlot(v, s[i]), s, i)
<1> DEFINE plot == s[i]
           number == P!UniqueNumber(v.registry.numbers)
           u == P!CreatePlot(v, plot)
           r == v.registry
           t == u.registry
<1>1. /\ v \in Worlds /\ RegistryType(r) /\ r.numbers \in Seq(Nat) /\ Sorted(r.numbers)
      /\ v.plotName \in NameMaps /\ Known(v) /\ Distinct(v) /\ Sorted(v.windows)
  BY DEF Placing, WorldType, Worlds, RegistryType, Registries
<1>2. number \in Nat /\ number \notin P!ToSet(r.numbers)
  BY <1>1, UniqueIsFree
<1>3. plot \in PlotIds /\ plot \notin DOMAIN w.plotName /\ plot \notin Part(s, i - 1)
  <2>1. \A k \in 1..(i - 1) : s[k] # s[i]
    <3>1. \A k \in 1..(i - 1) : k \in 1..n /\ k # i
      OBVIOUS
    <3> QED BY <3>1 DEF P!IsInjective
  <2> QED BY <2>1 DEF Part
<1>4. Part(s, i) = Part(s, i - 1) \cup {plot}
  <2>1. \A k \in 1..i : k \in 1..(i - 1) \/ k = i
    OBVIOUS
  <2>2. \A k \in 1..(i - 1) : k \in 1..i
    OBVIOUS
  <2>3. i \in 1..i
    OBVIOUS
  <2> QED BY <2>1, <2>2, <2>3 DEF Part
<1>5. /\ u.figures = v.figures /\ u.windows = v.windows
      /\ u.plotName = P!With(v.plotName, plot, number)
      /\ t = P!AddPlotPointer(r, number, plot, number)
      /\ u = [figures |-> u.figures, plotName |-> u.plotName,
              registry |-> u.registry, windows |-> u.windows]
  <2>1. u = [v EXCEPT !.plotName = P!With(@, plot, number),
                      !.registry = P!AddPlotPointer(@, number, plot, number)]
    BY DEF P!CreatePlot
  <2>2. v = [figures |-> v.figures, plotName |-> v.plotName,
             registry |-> v.registry, windows |-> v.windows]
    BY <1>1, WorldFields
  <2> HIDE DEF u, number, plot
  <2> QED BY <2>1, <2>2
<1> HIDE DEF number, u, plot
<1>6. u.plotName \in NameMaps /\ HasAlso(u.plotName, v.plotName, plot, number)
  BY <1>1, <1>2, <1>3, <1>5, WithIs DEF NameMaps
<1>7. /\ RegistryType(t)
      /\ DOMAIN t.pointer = DOMAIN r.pointer \cup {number}
      /\ \A x \in DOMAIN t.pointer : t.pointer[x] = IF x = number THEN plot ELSE r.pointer[x]
      /\ P!ToSet(t.numbers) = P!ToSet(r.numbers) \cup {number}
  <2>1. Adds(r, P!AddPlotPointer(r, number, plot, number), number, plot)
    BY <1>1, <1>2, <1>3, AddPlotIs
  <2>2. Adds(r, t, number, plot)
    BY <1>5, <2>1
  <2> HIDE DEF t, r
  <2> QED BY <2>2 DEF Adds, HasAlso
<1> HIDE DEF t
<1>8. u.registry = t
  BY DEF t
<1>9. WorldType(u)
  <2>1. u \in Worlds
    <3>1. u.figures \in Seq(Figures) /\ u.windows \in Seq(Nat)
      BY <1>1, <1>5, WorldFields
    <3>2. u.registry \in Registries
      BY <1>7, <1>8 DEF RegistryType
    <3>3. [figures |-> u.figures, plotName |-> u.plotName,
           registry |-> u.registry, windows |-> u.windows] \in Worlds
      BY <1>6, <3>1, <3>2, IsWorld
    <3> QED BY <1>5, <3>3
  <2> QED BY <1>1, <1>5, <1>7, <1>8, <2>1 DEF WorldType
<1> DEFINE D == DOMAIN v.plotName
<1>10. /\ D = DOMAIN w.plotName \cup Part(s, i - 1) /\ plot \notin D
       /\ DOMAIN u.plotName = D \cup {plot}
       /\ \A q \in D : u.plotName[q] = v.plotName[q]
       /\ u.plotName[plot] = number
  BY <1>3, <1>6 DEF Placing, HasAlso
<1>11. Known(u)
  BY <1>1, <1>7, <1>8, <1>10 DEF Known
<1>12. Distinct(u)
  <2>1. \A q \in D : v.plotName[q] # number
    BY <1>1, <1>2 DEF Known
  <2> QED BY <1>1, <1>10, <2>1 DEF Distinct
<1>13. \A q \in Part(s, i) : u.plotName[q] \in DOMAIN u.registry.pointer
  BY <1>4, <1>7, <1>8, <1>10 DEF Placing
<1>14. Points(u, GroupsOf(w) \cup {Part(s, i)})
  <2> SUFFICES ASSUME NEW k \in DOMAIN t.pointer
               PROVE  \E g \in GroupsOf(w) \cup {Part(s, i)} :
                        /\ t.pointer[k] \in g
                        /\ \E q \in g : q \in DOMAIN u.plotName /\ u.plotName[q] = k
    BY <1>8 DEF Points
  <2>1. CASE k = number
    BY <1>4, <1>7, <1>10, <2>1
  <2>2. CASE k # number
    <3>1. k \in DOMAIN r.pointer /\ t.pointer[k] = r.pointer[k]
      BY <1>7, <2>2
    <3>2. PICK g \in GroupsOf(w) \cup {Part(s, i - 1)} :
             r.pointer[k] \in g /\ \E q \in g : q \in D /\ v.plotName[q] = k
      BY <3>1 DEF Placing, Points
    <3>3. PICK q \in g : q \in D /\ v.plotName[q] = k
      BY <3>2
    <3>4. q \in DOMAIN u.plotName /\ u.plotName[q] = k
      BY <1>10, <3>3
    <3>5. CASE g \in GroupsOf(w)
      BY <3>1, <3>2, <3>4, <3>5
    <3>6. CASE g = Part(s, i - 1)
      BY <1>4, <3>1, <3>2, <3>3, <3>4, <3>6
    <3> QED BY <3>2, <3>5, <3>6
  <2> QED BY <2>1, <2>2
<1>15. DOMAIN u.plotName = DOMAIN w.plotName \cup Part(s, i)
  BY <1>4, <1>10
<1>16. \A q \in DOMAIN w.plotName : u.plotName[q] = w.plotName[q]
  BY <1>10 DEF Placing
<1>17. u.figures = w.figures /\ u.windows = w.windows
  BY <1>5 DEF Placing
<1>18. Placing(w, u, s, i)
  BY <1>9, <1>11, <1>12, <1>13, <1>14, <1>15, <1>16, <1>17 DEF Placing
<1> QED BY <1>18 DEF u, plot

\* There are new plots for the figure.
LEMMA FreshExists ==
    ASSUME NEW w, NEW n \in Nat, IsFiniteSet(PlotIds),
           Cardinality(PlotIds \ DOMAIN w.plotName) >= n
    PROVE  P!Fresh(w, n) \in [1..n -> PlotIds \ DOMAIN w.plotName] /\ P!IsInjective(P!Fresh(w, n))
<1> DEFINE S == PlotIds \ DOMAIN w.plotName
           c == Cardinality(S)
<1>1. IsFiniteSet(S)
  BY FS_Subset
<1>2. c \in Nat /\ ExistsBijection(1..c, S)
  BY <1>1, FS_CardinalityType
<1>3. PICK b \in Bijection(1..c, S) : TRUE
  BY <1>2 DEF ExistsBijection
<1>4. b \in [1..c -> S] /\ \A x, y \in 1..c : b[x] = b[y] => x = y
  BY <1>3 DEF Bijection, Injection, IsInjective
<1> DEFINE f == [k \in 1..n |-> b[k]]
<1>5. \A k \in 1..n : k \in 1..c
  BY <1>2
<1>6. f \in [1..n -> S]
  BY <1>4, <1>5
<1>7. P!IsInjective(f)
  BY <1>4, <1>5 DEF P!IsInjective
<1> HIDE DEF f, c, S
<1>8. \E s \in [1..n -> S] : P!IsInjective(s)
  BY <1>6, <1>7
<1> QED BY <1>8, Zenon DEF P!Fresh, S

\* c is w with a new figure of plots s.
Created(w, c, s, n) ==
    /\ WorldInv(c)
    /\ s \in [1..n -> PlotIds \ DOMAIN w.plotName] /\ P!IsInjective(s)
    /\ P!Last(c.figures).plots = s
    /\ DOMAIN c.plotName = DOMAIN w.plotName \cup Part(s, n)
    /\ \A q \in DOMAIN w.plotName : c.plotName[q] = w.plotName[q]
    /\ Part(s, n) \in GroupsOf(c)
    /\ \A q \in Part(s, n) : c.plotName[q] \in DOMAIN c.registry.pointer

\* The first state of it.
LEMMA PlacingNone ==
    ASSUME NEW w, WorldInv(w), NEW s
    PROVE  Placing(w, w, s, 0)
<1>1. Part(s, 0) = {}
  BY DEF Part
<1>2. Points(w, GroupsOf(w) \cup {Part(s, 0)})
  BY DEF WorldInv, Points
<1> QED BY <1>1, <1>2 DEF WorldInv, Placing

\* CreateFigure is right if there is room for its plots.
LEMMA CreateFigureKeeps ==
    ASSUME NEW w, WorldInv(w), NEW n \in Nat, IsFiniteSet(PlotIds),
           Cardinality(PlotIds \ DOMAIN w.plotName) >= n
    PROVE  Created(w, P!CreateFigure(w, n), P!Fresh(w, n), n)
<1> DEFINE s == P!Fresh(w, n)
           placed == PlacedPlots(w, s)
           number == P!WindowsIncrementer(w.windows)
           c == P!CreateFigure(w, n)
<1>1. s \in [1..n -> PlotIds \ DOMAIN w.plotName] /\ P!IsInjective(s) /\ DOMAIN s = 1..n
  BY FreshExists
<1>20. c = [placed EXCEPT !.figures = Append(@, [name |-> number, plots |-> s]),
                          !.windows = P!SortedInsert(@, number)]
  BY DEF P!CreateFigure, PlacedPlots
<1> HIDE DEF s, c
<1>21. PICK h : Places(w, s, n, h)
  BY <1>1, PlacesPlots
<1>2. /\ h[0] = w /\ \A i \in 1..n : h[i] = P!CreatePlot(h[i - 1], s[i])
      /\ placed = h[n]
  BY <1>21 DEF Places
<1> HIDE DEF placed, number
<1> DEFINE T == {i \in 0..n : Placing(w, h[i], s, i)}
<1>3. 0..n \subseteq T
  <2>1. 0 \in T
    BY <1>2, PlacingNone
  <2>2. ASSUME NEW i \in 0..n, i < n, i \in T PROVE i + 1 \in T
    <3>1. PICK j \in 1..n : j = i + 1
      BY <2>2
    <3>2. j - 1 = i /\ Placing(w, h[j - 1], s, j - 1)
      BY <2>2, <3>1
    <3>3. Placing(w, P!CreatePlot(h[j - 1], s[j]), s, j)
      BY <1>1, <3>2, CreatePlotKeeps
    <3>4. Placing(w, h[j], s, j)
      BY <1>2, <3>3
    <3> QED BY <2>2, <3>1, <3>4
  <2> HIDE DEF T
  <2> QED BY <2>1, <2>2, BoundedInduction
<1>4. Placing(w, placed, s, n)
  BY <1>2, <1>3
<1> HIDE DEF T
<1>5. /\ placed \in Worlds /\ w.figures \in Seq(Figures) /\ w.windows \in Seq(Nat)
      /\ Sorted(w.windows) /\ placed.figures = w.figures /\ placed.windows = w.windows
  BY <1>4 DEF WorldInv, WorldType, Worlds, Placing
<1>6. number \in Nat /\ number \notin P!ToSet(w.windows)
  BY <1>5, UniqueIsFree DEF number, P!WindowsIncrementer
<1> DEFINE new == [name |-> number, plots |-> s]
<1>7. s \in Seq(PlotIds) /\ Len(s) = n /\ new \in Figures /\ P!ToSet(s) = Part(s, n)
  BY <1>1, <1>6 DEF Figures, P!ToSet, Part
<1>8. /\ c.figures = Append(w.figures, new)
      /\ c.windows = P!SortedInsert(w.windows, number)
      /\ c.plotName = placed.plotName /\ c.registry = placed.registry
      /\ c = [figures |-> c.figures, plotName |-> c.plotName,
              registry |-> c.registry, windows |-> c.windows]
  BY <1>5, <1>20 DEF Worlds
<1> DEFINE m == Len(w.figures)
<1>9. /\ c.figures \in Seq(Figures) /\ DOMAIN c.figures = 1..(m + 1) /\ m \in Nat
      /\ DOMAIN w.figures = 1..m
      /\ c.figures[m + 1] = new /\ \A i \in 1..m : c.figures[i] = w.figures[i]
      /\ P!Last(c.figures) = new
  BY <1>5, <1>7, <1>8 DEF P!Last
<1>10. /\ c.windows \in Seq(Nat) /\ Sorted(c.windows)
       /\ P!ToSet(c.windows) = P!ToSet(w.windows) \cup {number}
  BY <1>5, <1>6, <1>8, InsertsSorted
<1> HIDE DEF m, new
<1>11. WorldType(c)
  <2>1. /\ placed.plotName \in NameMaps /\ placed.registry \in Registries
        /\ RegistryType(placed.registry)
    BY <1>4 DEF Placing, WorldType, Worlds
  <2>2. c \in Worlds
    BY <1>8, <1>9, <1>10, <2>1 DEF Worlds
  <2> QED BY <1>8, <1>10, <2>1, <2>2 DEF WorldType
<1>12. /\ DOMAIN c.plotName = DOMAIN w.plotName \cup Part(s, n)
       /\ \A q \in DOMAIN w.plotName : c.plotName[q] = w.plotName[q]
       /\ \A q \in Part(s, n) : c.plotName[q] \in DOMAIN c.registry.pointer
       /\ Known(c) /\ Distinct(c) /\ Points(c, GroupsOf(w) \cup {Part(s, n)})
  BY <1>4, <1>8 DEF Placing, Known, Distinct, Points
<1>13. \A i \in 1..(m + 1) : i \in 1..m \/ i = m + 1
  BY <1>9
<1>14. /\ new.plots = s /\ new.name = number /\ m + 1 \in 1..(m + 1)
       /\ \A i \in 1..m : i \in 1..(m + 1)
  BY <1>9 DEF new
<1>15. GroupsOf(c) = GroupsOf(w) \cup {Part(s, n)}
  <2>1. \A i \in 1..m : P!ToSet(c.figures[i].plots) = P!ToSet(w.figures[i].plots)
    BY <1>9
  <2>2. P!ToSet(c.figures[m + 1].plots) = Part(s, n)
    BY <1>7, <1>9, <1>14
  <2>3. GroupsOf(c) \subseteq GroupsOf(w) \cup {Part(s, n)}
    BY <1>9, <1>13, <2>1, <2>2 DEF GroupsOf
  <2>4. GroupsOf(w) \cup {Part(s, n)} \subseteq GroupsOf(c)
    BY <1>9, <1>14, <2>1, <2>2 DEF GroupsOf
  <2> QED BY <2>3, <2>4
<1>16. Placed(c)
  <2>1. Placed(w)
    BY DEF WorldInv
  <2>2. Part(s, n) \cap DOMAIN w.plotName = {}
    BY <1>1 DEF Part
  <2>3. \A i \in 1..m : P!ToSet(w.figures[i].plots) \subseteq DOMAIN w.plotName
    BY <1>9, <2>1 DEF Placed
  <2>4. ASSUME NEW p PROVE p \in DOMAIN c.plotName <=>
                             \E i \in DOMAIN c.figures : p \in P!ToSet(c.figures[i].plots)
    <3>1. p \in DOMAIN w.plotName <=> \E i \in 1..m : p \in P!ToSet(w.figures[i].plots)
      BY <1>9, <2>1 DEF Placed
    <3>2. \A i \in 1..m : P!ToSet(c.figures[i].plots) = P!ToSet(w.figures[i].plots)
      BY <1>9
    <3>3. P!ToSet(c.figures[m + 1].plots) = Part(s, n)
      BY <1>7, <1>9, <1>14
    <3>4. DOMAIN c.figures = 1..(m + 1)
      BY <1>9
    <3> QED BY <1>12, <1>13, <1>14, <3>1, <3>2, <3>3, <3>4
  <2>5. \A i \in DOMAIN c.figures : P!IsInjective(c.figures[i].plots)
    BY <1>1, <1>9, <1>13, <1>14, <2>1 DEF Placed
  <2>6. ASSUME NEW i \in DOMAIN c.figures, NEW j \in DOMAIN c.figures, NEW p,
               p \in P!ToSet(c.figures[i].plots), p \in P!ToSet(c.figures[j].plots)
        PROVE  i = j
    <3>1. CASE i \in 1..m /\ j \in 1..m
      BY <1>9, <2>1, <2>6, <3>1 DEF Placed
    <3>2. CASE i = m + 1 /\ j \in 1..m
      BY <1>7, <1>9, <1>14, <2>2, <2>3, <2>6, <3>2
    <3>3. CASE i \in 1..m /\ j = m + 1
      BY <1>7, <1>9, <1>14, <2>2, <2>3, <2>6, <3>3
    <3> QED BY <1>9, <1>13, <3>1, <3>2, <3>3
  <2> QED BY <2>4, <2>5, <2>6 DEF Placed
<1>17. FiguresKnown(c)
  <2>1. FiguresKnown(w)
    BY DEF WorldInv
  <2>2. \A i \in 1..m : w.figures[i].name \in P!ToSet(w.windows)
    BY <1>9, <2>1 DEF FiguresKnown
  <2>3. \A i \in DOMAIN c.figures : c.figures[i].name \in P!ToSet(c.windows)
    BY <1>9, <1>10, <1>13, <1>14, <2>2
  <2>4. ASSUME NEW i \in DOMAIN c.figures, NEW j \in DOMAIN c.figures,
               c.figures[i].name = c.figures[j].name
        PROVE  i = j
    <3>1. CASE i \in 1..m /\ j \in 1..m
      BY <1>9, <2>1, <2>4, <3>1 DEF FiguresKnown
    <3>2. CASE i = m + 1 /\ j \in 1..m
      BY <1>6, <1>9, <1>14, <2>2, <2>4, <3>2
    <3>3. CASE i \in 1..m /\ j = m + 1
      BY <1>6, <1>9, <1>14, <2>2, <2>4, <3>3
    <3> QED BY <1>9, <1>13, <3>1, <3>2, <3>3
  <2> QED BY <2>3, <2>4 DEF FiguresKnown
<1>18. WorldInv(c)
  BY <1>11, <1>12, <1>15, <1>16, <1>17 DEF WorldInv
<1>19. Created(w, c, s, n)
  BY <1>1, <1>9, <1>12, <1>14, <1>15, <1>18 DEF Created
<1> QED BY <1>19 DEF s, c

-----------------------------------------------------------------------------
(* Reading a figure.                                                       *)

\* The plots s of a figure of c are to be called given, which no plot of
\* another figure is called; all are registered.
ToRename(c, s, n, given) ==
    /\ WorldInv(c) /\ n \in Nat
    /\ s \in [1..n -> DOMAIN c.plotName] /\ P!IsInjective(s) /\ Part(s, n) \in GroupsOf(c)
    /\ given \in [1..n -> Nat] /\ P!IsInjective(given)
    /\ \A q \in DOMAIN c.plotName \ Part(s, n) : \A k \in 1..n : c.plotName[q] # given[k]
    /\ \A q \in Part(s, n) : c.plotName[q] \in DOMAIN c.registry.pointer

\* v is c after the first i renames: until the last one, a plot may have the
\* name of one that is renamed later, and then its number is there twice.
Renaming(c, v, s, n, given, i) ==
    /\ WorldType(v) /\ v.figures = c.figures /\ v.windows = c.windows
    /\ DOMAIN v.plotName = DOMAIN c.plotName
    /\ \A q \in DOMAIN c.plotName \ Part(s, i) : v.plotName[q] = c.plotName[q]
    /\ \A k \in 1..i : v.plotName[s[k]] = given[k]
    /\ Known(v)
    /\ \A p, q \in DOMAIN c.plotName : p # q /\ v.plotName[p] = v.plotName[q] =>
          Twice(v.registry.numbers, v.plotName[p])
    /\ Points(v, GroupsOf(c))
    /\ \A k \in (i + 1)..n : c.plotName[s[k]] \in DOMAIN v.registry.pointer

\* The world after RenamePlot, if the old name is registered.
LEMMA RenameIs ==
    ASSUME NEW v, WorldType(v), NEW p \in DOMAIN v.plotName, NEW y \in Nat,
           v.plotName[p] \in DOMAIN v.registry.pointer
    PROVE  LET u == P!RenamePlot(v, p, y)
               x == v.plotName[p]
               rest == P!DeletePlotPointer(v.registry, x)
           IN  /\ WorldType(u) /\ u.figures = v.figures /\ u.windows = v.windows
               /\ HasAlso(u.plotName, v.plotName, p, y)
               /\ Deletes(v.registry, rest, x)
               /\ Adds(rest, u.registry, y, v.registry.pointer[x])
<1> DEFINE u == P!RenamePlot(v, p, y)
           x == v.plotName[p]
           r == v.registry
           rest == P!DeletePlotPointer(r, x)
           plot == r.pointer[x]
<1>1. /\ v \in Worlds /\ RegistryType(r) /\ v.plotName \in NameMaps
      /\ v.figures \in Seq(Figures) /\ v.windows \in Seq(Nat) /\ Sorted(v.windows)
      /\ v = [figures |-> v.figures, plotName |-> v.plotName,
              registry |-> v.registry, windows |-> v.windows]
  BY WorldFields DEF WorldType
<1>2. p \in PlotIds
  BY <1>1, MapIs DEF NameMaps
<1>3. plot \in PlotIds
  <2>1. r.pointer \in PointerMaps
    BY <1>1 DEF RegistryType, Registries
  <2>2. x \in DOMAIN r.pointer
    OBVIOUS
  <2> HIDE DEF x, r
  <2> QED BY <2>1, <2>2, MapIs DEF PointerMaps
<1>4. u = [v EXCEPT !.registry = P!RenamePlotPointer(@, v.plotName[p], y),
                       !.plotName = P!With(@, p, y)]
  BY DEF P!RenamePlot
<1>5. P!RenamePlotPointer(r, x, y) = P!AddPlotPointer(rest, y, plot, y)
  <2>1. DOMAIN r.number = DOMAIN r.pointer
    BY <1>1 DEF RegistryType
  <2> QED BY <2>1 DEF P!RenamePlotPointer
<1> HIDE DEF u
<1>6. /\ u.figures = v.figures /\ u.windows = v.windows /\ u.plotName = P!With(v.plotName, p, y)
      /\ u.registry = P!AddPlotPointer(rest, y, plot, y)
      /\ u = [figures |-> u.figures, plotName |-> u.plotName,
              registry |-> u.registry, windows |-> u.windows]
  <2> HIDE DEF rest, plot
  <2> QED BY <1>1, <1>4, <1>5
<1>7. u.plotName \in NameMaps /\ HasAlso(u.plotName, v.plotName, p, y)
  BY <1>1, <1>2, <1>6, WithIs DEF NameMaps
<1>8. Deletes(r, rest, x)
  BY <1>1, DeletePlotIs
<1>9. Adds(rest, u.registry, y, plot)
  <2>1. RegistryType(rest)
    BY <1>8 DEF Deletes
  <2> HIDE DEF rest, plot
  <2> QED BY <1>3, <1>6, <2>1, AddPlotIs
<1>10. WorldType(u)
  <2>1. RegistryType(u.registry) /\ u.registry \in Registries
    BY <1>9 DEF Adds, RegistryType
  <2>2. [figures |-> u.figures, plotName |-> u.plotName,
         registry |-> u.registry, windows |-> u.windows] \in Worlds
    BY <1>1, <1>6, <1>7, <2>1, IsWorld
  <2>3. u \in Worlds
    BY <1>6, <2>2
  <2> QED BY <1>1, <1>6, <2>1, <2>3 DEF WorldType
<1> HIDE DEF rest, plot
<1> QED BY <1>6, <1>7, <1>8, <1>9, <1>10 DEF u, rest, plot

\* One more rename.
LEMMA RenameKeeps ==
    ASSUME NEW c, NEW s, NEW n, NEW given, ToRename(c, s, n, given),
           NEW i \in 1..n, NEW v, Renaming(c, v, s, n, given, i - 1)
    PROVE  Renaming(c, P!RenamePlot(v, s[i], given[i]), s, n, given, i)
<1> DEFINE p == s[i]
           y == given[i]
           x == v.plotName[p]
           u == P!RenamePlot(v, p, y)
           r == v.registry
           rest == P!DeletePlotPointer(r, x)
           D == DOMAIN c.plotName
<1>1. /\ n \in Nat /\ p \in D /\ y \in Nat /\ DOMAIN v.plotName = D /\ WorldType(v)
      /\ i \in (i - 1 + 1)..n /\ i - 1 \in Nat
  BY DEF ToRename, Renaming
<1>2. \A k \in 1..n : k # i => s[k] # p /\ given[k] # y
  BY DEF ToRename, P!IsInjective
<1>3. p \notin Part(s, i - 1)
  <2>1. \A k \in 1..(i - 1) : k \in 1..n /\ k # i
    BY <1>1
  <2> QED BY <1>2, <2>1 DEF Part
<1>4. x = c.plotName[p]
  BY <1>1, <1>3 DEF Renaming
<1>5. x \in DOMAIN r.pointer
  BY <1>1, <1>4 DEF Renaming
<1> HIDE DEF p, y
<1>6. /\ WorldType(u) /\ u.figures = v.figures /\ u.windows = v.windows
      /\ HasAlso(u.plotName, v.plotName, p, y)
      /\ Deletes(r, rest, x) /\ Adds(rest, u.registry, y, r.pointer[x])
  BY <1>1, <1>5, RenameIs
<1> HIDE DEF u, rest
<1>7. /\ DOMAIN u.plotName = D /\ u.plotName[p] = y
      /\ \A q \in D : q # p => u.plotName[q] = v.plotName[q]
  BY <1>1, <1>6 DEF HasAlso
<1>8. Part(s, i) = Part(s, i - 1) \cup {p}
  <2>1. \A k \in 1..i : k \in 1..(i - 1) \/ k = i
    BY <1>1
  <2>2. (\A k \in 1..(i - 1) : k \in 1..i) /\ i \in 1..i
    BY <1>1
  <2> QED BY <2>1, <2>2 DEF Part, p
<1>9. \A q \in D \ Part(s, i) : u.plotName[q] = c.plotName[q]
  BY <1>7, <1>8 DEF Renaming
<1>10. \A k \in 1..i : u.plotName[s[k]] = given[k]
  <2> SUFFICES ASSUME NEW k \in 1..i PROVE u.plotName[s[k]] = given[k]
    OBVIOUS
  <2>1. CASE k = i
    BY <1>7, <2>1 DEF p, y
  <2>2. CASE k # i
    <3>1. k \in 1..(i - 1) /\ k \in 1..n
      BY <1>1, <2>2
    <3>2. s[k] # p /\ s[k] \in D /\ v.plotName[s[k]] = given[k]
      BY <1>2, <2>2, <3>1 DEF ToRename, Renaming
    <3> QED BY <1>7, <3>2
  <2> QED BY <2>1, <2>2
\* Of the others, one at most has the old name of p.
<1>11. ASSUME NEW q \in D, NEW o \in D, q # p, o # p, q # o, v.plotName[q] = x, v.plotName[o] = x
       PROVE  FALSE
  <2>1. ASSUME NEW a \in D, a # p, v.plotName[a] = x
        PROVE  \E k \in 1..(i - 1) : a = s[k] /\ given[k] = x
    <3>1. a \in Part(s, i - 1)
      <4>1. SUFFICES ASSUME a \notin Part(s, i - 1) PROVE FALSE
        OBVIOUS
      <4>2. c.plotName[a] = c.plotName[p]
        BY <1>4, <2>1, <4>1 DEF Renaming
      <4>3. Distinct(c)
        BY DEF ToRename, WorldInv
      <4> QED BY <1>1, <2>1, <4>2, <4>3 DEF Distinct
    <3>2. PICK k \in 1..(i - 1) : a = s[k]
      BY <3>1 DEF Part
    <3>3. v.plotName[s[k]] = given[k]
      BY <3>2 DEF Renaming
    <3> QED BY <2>1, <3>2, <3>3
  <2>2. PICK k \in 1..(i - 1) : q = s[k] /\ given[k] = x
    BY <1>11, <2>1
  <2>3. PICK l \in 1..(i - 1) : o = s[l] /\ given[l] = x
    BY <1>11, <2>1
  <2>4. k \in 1..n /\ l \in 1..n
    BY <1>1
  <2> QED BY <1>11, <2>2, <2>3, <2>4 DEF ToRename, P!IsInjective
\* Two that share a name have its number twice.
<1>12. \A a, b \in D : a # b /\ v.plotName[a] = v.plotName[b] => Twice(r.numbers, v.plotName[a])
  BY DEF Renaming
<1>13. \A a \in D : v.plotName[a] \in P!ToSet(r.numbers) /\ v.plotName[a] \in Nat
  <2>1. v.plotName \in NameMaps
    BY <1>1, WorldFields DEF WorldType
  <2>2. \A a \in D : v.plotName[a] \in Nat
    BY <1>1, <2>1, MapIs DEF NameMaps
  <2> QED BY <1>1, <2>2 DEF Renaming, Known
<1>14. /\ \A m \in P!ToSet(r.numbers) : m # x => m \in P!ToSet(rest.numbers)
       /\ Twice(r.numbers, x) => x \in P!ToSet(rest.numbers)
       /\ \A m : m # x /\ Twice(r.numbers, m) => Twice(rest.numbers, m)
  BY <1>6 DEF Deletes
<1>15. /\ P!ToSet(u.registry.numbers) = P!ToSet(rest.numbers) \cup {y}
       /\ y \in P!ToSet(rest.numbers) => Twice(u.registry.numbers, y)
       /\ \A m \in Nat : Twice(rest.numbers, m) => Twice(u.registry.numbers, m)
  BY <1>6 DEF Adds
<1>16. \A q \in D : q # p => v.plotName[q] \in P!ToSet(rest.numbers)
  BY <1>1, <1>12, <1>13, <1>14
<1>17. Known(u)
  BY <1>7, <1>15, <1>16 DEF Known
<1>18. ASSUME NEW a \in D, NEW b \in D, a # b, u.plotName[a] = u.plotName[b]
       PROVE  Twice(u.registry.numbers, u.plotName[a])
  <2>1. CASE a = p
    <3>1. v.plotName[b] = y /\ u.plotName[a] = y
      BY <1>7, <1>18, <2>1
    <3>2. y \in P!ToSet(rest.numbers)
      BY <1>16, <1>18, <2>1, <3>1
    <3> QED BY <1>15, <3>1, <3>2
  <2>2. CASE b = p
    <3>1. v.plotName[a] = y /\ u.plotName[a] = y
      BY <1>7, <1>18, <2>2
    <3>2. y \in P!ToSet(rest.numbers)
      BY <1>16, <1>18, <2>2, <3>1
    <3> QED BY <1>15, <3>1, <3>2
  <2>3. CASE a # p /\ b # p
    <3>1. /\ u.plotName[a] = v.plotName[a] /\ v.plotName[a] = v.plotName[b]
          /\ v.plotName[a] \in Nat
      BY <1>7, <1>13, <1>18, <2>3
    <3>2. v.plotName[a] # x
      BY <1>11, <1>18, <2>3, <3>1
    <3>3. Twice(rest.numbers, v.plotName[a])
      BY <1>12, <1>14, <1>18, <3>1, <3>2
    <3> QED BY <1>15, <3>1, <3>3
  <2> QED BY <2>1, <2>2, <2>3
<1>19. /\ DOMAIN u.registry.pointer = (DOMAIN r.pointer \ {x}) \cup {y}
       /\ u.registry.pointer[y] = r.pointer[x]
       /\ \A k \in DOMAIN r.pointer : k # x /\ k # y => u.registry.pointer[k] = r.pointer[k]
  BY <1>6 DEF Adds, Deletes, HasAlso, HasNot
<1>20. \A k \in (i + 1)..n : c.plotName[s[k]] \in DOMAIN u.registry.pointer
  <2> SUFFICES ASSUME NEW k \in (i + 1)..n PROVE c.plotName[s[k]] \in DOMAIN u.registry.pointer
    OBVIOUS
  <2>1. k \in (i - 1 + 1)..n /\ k \in 1..n /\ k # i
    BY <1>1
  <2>2. c.plotName[s[k]] \in DOMAIN r.pointer
    BY <2>1 DEF Renaming
  <2>3. s[k] \in D /\ s[k] # p
    BY <1>2, <2>1 DEF ToRename
  <2>4. c.plotName[s[k]] # x
    BY <1>1, <1>4, <2>3 DEF ToRename, WorldInv, Distinct
  <2> QED BY <1>19, <2>2, <2>4
\* The name moves to another plot, but of the same figure.
<1>21. Points(u, GroupsOf(c))
  <2> SUFFICES ASSUME NEW k \in DOMAIN u.registry.pointer
               PROVE  \E g \in GroupsOf(c) :
                         /\ u.registry.pointer[k] \in g
                         /\ \E q \in g : q \in DOMAIN u.plotName /\ u.plotName[q] = k
    BY DEF Points
  <2>1. CASE k = y
    <3>1. PICK g \in GroupsOf(c) : r.pointer[x] \in g /\ \E q \in g : q \in D /\ v.plotName[q] = x
      BY <1>1, <1>5 DEF Renaming, Points
    <3>2. PICK q \in g : q \in D /\ v.plotName[q] = x
      BY <3>1
    <3>3. q \in Part(s, n)
      <4>1. CASE q \in Part(s, i - 1)
        <5>1. \A l \in 1..(i - 1) : l \in 1..n
          BY <1>1
        <5> QED BY <4>1, <5>1 DEF Part
      <4>2. CASE q \notin Part(s, i - 1)
        <5>1. c.plotName[q] = c.plotName[p]
          BY <1>4, <3>2, <4>2 DEF Renaming
        <5>2. q = p
          BY <1>1, <3>2, <5>1 DEF ToRename, WorldInv, Distinct
        <5> QED BY <5>2 DEF Part, p
      <4> QED BY <4>1, <4>2
    <3>4. p \in Part(s, n) /\ Part(s, n) \in GroupsOf(c)
      BY DEF Part, p, ToRename
    <3>5. g = Part(s, n)
      <4>1. Placed(c)
        BY DEF ToRename, WorldInv
      <4>2. PICK a \in DOMAIN c.figures : g = P!ToSet(c.figures[a].plots)
        BY <3>1 DEF GroupsOf
      <4>3. PICK b \in DOMAIN c.figures : Part(s, n) = P!ToSet(c.figures[b].plots)
        BY <3>4 DEF GroupsOf
      <4>4. a = b
        <5>1. q \in P!ToSet(c.figures[a].plots) /\ q \in P!ToSet(c.figures[b].plots)
          BY <3>2, <3>3, <4>2, <4>3
        <5> QED BY <4>1, <5>1 DEF Placed
      <4> QED BY <4>2, <4>3, <4>4
    <3> QED BY <1>1, <1>7, <1>19, <2>1, <3>1, <3>4, <3>5
  <2>2. CASE k # y
    <3>1. k \in DOMAIN r.pointer /\ k # x /\ u.registry.pointer[k] = r.pointer[k]
      BY <1>19, <2>2
    <3>2. PICK g \in GroupsOf(c) : r.pointer[k] \in g /\ \E q \in g : q \in D /\ v.plotName[q] = k
      BY <1>1, <3>1 DEF Renaming, Points
    <3>3. PICK q \in g : q \in D /\ v.plotName[q] = k
      BY <3>2
    <3>4. q # p
      BY <3>1, <3>3
    <3>5. q \in DOMAIN u.plotName /\ u.plotName[q] = k
      BY <1>7, <3>3, <3>4
    <3> QED BY <3>1, <3>2, <3>5
  <2> QED BY <2>1, <2>2
<1>22. u.figures = c.figures /\ u.windows = c.windows
  BY <1>6 DEF Renaming
<1>23. Renaming(c, u, s, n, given, i)
  BY <1>6, <1>7, <1>9, <1>10, <1>17, <1>18, <1>20, <1>21, <1>22 DEF Renaming
<1> QED BY <1>23 DEF u, p, y

\* Before the first one.
LEMMA RenamingNone ==
    ASSUME NEW c, NEW s, NEW n, NEW given, ToRename(c, s, n, given)
    PROVE  Renaming(c, c, s, n, given, 0)
<1>1. Part(s, 0) = {}
  BY DEF Part
<1>2. WorldInv(c) /\ n \in Nat
  BY DEF ToRename
<1>3. \A p, q \in DOMAIN c.plotName : ~ (p # q /\ c.plotName[p] = c.plotName[q])
  BY <1>2 DEF WorldInv, Distinct
<1>4. \A k \in (0 + 1)..n : c.plotName[s[k]] \in DOMAIN c.registry.pointer
  <2>1. \A k \in (0 + 1)..n : s[k] \in Part(s, n)
    BY <1>2 DEF Part
  <2> QED BY <2>1 DEF ToRename
<1> QED BY <1>1, <1>2, <1>3, <1>4 DEF Renaming, WorldInv

\* After the last one the world is as it should be again.
LEMMA RenamedAll ==
    ASSUME NEW c, NEW s, NEW n, NEW given, ToRename(c, s, n, given),
           NEW v, Renaming(c, v, s, n, given, n)
    PROVE  WorldInv(v)
<1> DEFINE D == DOMAIN c.plotName
<1>1. WorldType(v) /\ Known(v) /\ v.figures = c.figures /\ v.windows = c.windows
      /\ DOMAIN v.plotName = D
  BY DEF Renaming
<1>2. Placed(v) /\ FiguresKnown(v)
  BY <1>1 DEF ToRename, WorldInv, Placed, FiguresKnown
<1>3. Points(v, GroupsOf(v))
  <2>1. GroupsOf(v) = GroupsOf(c)
    BY <1>1 DEF GroupsOf
  <2> QED BY <2>1 DEF Renaming
<1>4. Distinct(v)
  <2> SUFFICES ASSUME NEW p \in D, NEW q \in D, v.plotName[p] = v.plotName[q] PROVE p = q
    BY <1>1 DEF Distinct
  <2>1. \A a \in D : \/ v.plotName[a] = c.plotName[a] /\ a \notin Part(s, n)
                     \/ \E k \in 1..n : a = s[k] /\ v.plotName[a] = given[k]
    BY DEF Renaming, Part
  <2>2. CASE p \notin Part(s, n) /\ q \notin Part(s, n)
    <3>1. c.plotName[p] = c.plotName[q]
      BY <2>2 DEF Renaming
    <3> QED BY <3>1 DEF ToRename, WorldInv, Distinct
  <2>6. ASSUME NEW a \in Part(s, n), NEW b \in D \ Part(s, n)
        PROVE  v.plotName[a] # v.plotName[b]
    <3>1. PICK k \in 1..n : a = s[k]
      BY <2>6 DEF Part
    <3>2. v.plotName[a] = given[k]
      BY <3>1 DEF Renaming
    <3>3. v.plotName[b] = c.plotName[b] /\ c.plotName[b] # given[k]
      BY <2>6 DEF Renaming, ToRename
    <3> QED BY <3>2, <3>3
  <2>3. CASE p \in Part(s, n) /\ q \notin Part(s, n)
    BY <2>3, <2>6
  <2>4. CASE p \notin Part(s, n) /\ q \in Part(s, n)
    BY <2>4, <2>6
  <2>5. CASE p \in Part(s, n) /\ q \in Part(s, n)
    <3>1. PICK k \in 1..n : p = s[k] /\ v.plotName[p] = given[k]
      BY <2>1, <2>5
    <3>2. PICK l \in 1..n : q = s[l] /\ v.plotName[q] = given[l]
      BY <2>1, <2>5
    <3>3. k = l
      BY <3>1, <3>2 DEF ToRename, P!IsInjective
    <3> QED BY <3>1, <3>2, <3>3
  <2> QED BY <2>2, <2>3, <2>4, <2>5
<1> QED BY <1>1, <1>2, <1>3, <1>4 DEF WorldInv

\* All plots of the figure.
LEMMA RenamePlotsKeeps ==
    ASSUME NEW c, NEW s, NEW n, NEW given, ToRename(c, s, n, given),
           NEW order, order = [k \in 1..n |-> k]
    PROVE  Renaming(c, RenamedPlots(c, s, given, order), s, n, given, n)
<1>1. n \in Nat /\ DOMAIN order = 1..n
  BY DEF ToRename
<1>5. PICK h : Renames(c, s, given, order, n, h)
  BY <1>1, RenamesPlots
<1>2. h[0] = c /\ RenamedPlots(c, s, given, order) = h[n]
  BY <1>5 DEF Renames
<1>3. \A i \in 1..n : h[i] = P!RenamePlot(h[i - 1], s[i], given[i])
  BY <1>5 DEF Renames
<1> DEFINE T == {i \in 0..n : Renaming(c, h[i], s, n, given, i)}
<1>4. 0..n \subseteq T
  <2>1. 0 \in T
    BY <1>1, <1>2, RenamingNone
  <2>2. ASSUME NEW i \in 0..n, i < n, i \in T PROVE i + 1 \in T
    <3>1. PICK j \in 1..n : j = i + 1
      BY <1>1, <2>2
    <3>2. j - 1 = i /\ Renaming(c, h[j - 1], s, n, given, j - 1)
      BY <1>1, <2>2, <3>1
    <3>3. Renaming(c, P!RenamePlot(h[j - 1], s[j], given[j]), s, n, given, j)
      BY <3>2, RenameKeeps
    <3>4. Renaming(c, h[j], s, n, given, j)
      BY <1>3, <3>3
    <3> QED BY <1>1, <2>2, <3>1, <3>4
  <2> HIDE DEF T
  <2> QED BY <1>1, <2>1, <2>2, BoundedInduction
<1> QED BY <1>1, <1>2, <1>4

-----------------------------------------------------------------------------
(* Closing a figure.                                                       *)

\* r is the registry of w without the first j plots of s.
Unregistering(w, s, r, j) ==
    /\ RegistryType(r)
    /\ \A k \in DOMAIN r.pointer : /\ k \in DOMAIN w.registry.pointer
                                   /\ r.pointer[k] = w.registry.pointer[k]
                                   /\ \A l \in 1..j : k # w.plotName[s[l]]
    /\ \A q \in DOMAIN w.plotName : q \notin Part(s, j) => w.plotName[q] \in P!ToSet(r.numbers)

\* One more plot is unregistered: no other has its name.
LEMMA UnregisterKeeps ==
    ASSUME NEW w, WorldInv(w), NEW n \in Nat, NEW s \in [1..n -> DOMAIN w.plotName],
           NEW j \in 1..n, NEW r, Unregistering(w, s, r, j - 1)
    PROVE  Unregistering(w, s, P!DeletePlotPointer(r, w.plotName[s[j]]), j)
<1> DEFINE x == w.plotName[s[j]]
           t == P!DeletePlotPointer(r, x)
<1>1. Deletes(r, t, x)
  BY DeletePlotIs DEF Unregistering
<1>2. \A l \in 1..j : l \in 1..(j - 1) \/ l = j
  OBVIOUS
<1>3. s[j] \in DOMAIN w.plotName /\ s[j] \in Part(s, j)
  BY DEF Part
<1>4. \A q \in DOMAIN w.plotName : q \notin Part(s, j) => q \notin Part(s, j - 1) /\ q # s[j]
  <2>1. \A l \in 1..(j - 1) : l \in 1..j
    OBVIOUS
  <2> QED BY <1>3, <2>1 DEF Part
<1> HIDE DEF t, x
<1>5. \A q \in DOMAIN w.plotName : q # s[j] => w.plotName[q] # x
  BY <1>3 DEF WorldInv, Distinct, x
<1>6. RegistryType(t)
  BY <1>1 DEF Deletes
<1>7. \A k \in DOMAIN t.pointer : k \in DOMAIN r.pointer /\ k # x /\ t.pointer[k] = r.pointer[k]
  BY <1>1 DEF Deletes, HasNot
<1>8. ASSUME NEW k \in DOMAIN t.pointer
      PROVE  /\ k \in DOMAIN w.registry.pointer /\ t.pointer[k] = w.registry.pointer[k]
             /\ \A l \in 1..j : k # w.plotName[s[l]]
  BY <1>2, <1>7 DEF Unregistering, x
<1>9. ASSUME NEW q \in DOMAIN w.plotName, q \notin Part(s, j)
      PROVE  w.plotName[q] \in P!ToSet(t.numbers)
  <2>1. w.plotName[q] \in P!ToSet(r.numbers)
    BY <1>4, <1>9 DEF Unregistering
  <2>2. w.plotName[q] # x
    BY <1>4, <1>5, <1>9
  <2> QED BY <1>1, <2>1, <2>2 DEF Deletes
<1>10. Unregistering(w, s, t, j)
  BY <1>6, <1>8, <1>9 DEF Unregistering
<1> QED BY <1>10 DEF t, x

\* All plots of a figure.
LEMMA UnregisterPlots ==
    ASSUME NEW w, WorldInv(w), NEW n \in Nat, NEW s \in [1..n -> DOMAIN w.plotName]
    PROVE  Unregistering(w, s, Unregistered(w, s), n)
<1>1. DOMAIN s = 1..n
  OBVIOUS
<1>2. PICK h : Unregisters(w, s, n, h)
  BY <1>1, UnregistersPlots
<1> DEFINE T == {i \in 0..n : Unregistering(w, s, h[i], i)}
<1>3. 0..n \subseteq T
  <2>1. 0 \in T
    <3>1. Unregistering(w, s, w.registry, 0)
      BY DEF Unregistering, WorldInv, WorldType, Known
    <3> QED BY <1>2, <3>1 DEF Unregisters
  <2>2. ASSUME NEW i \in 0..n, i < n, i \in T PROVE i + 1 \in T
    <3>1. PICK j \in 1..n : j = i + 1
      BY <2>2
    <3>2. j - 1 = i /\ Unregistering(w, s, h[j - 1], j - 1)
      BY <2>2, <3>1
    <3>3. Unregistering(w, s, P!DeletePlotPointer(h[j - 1], w.plotName[s[j]]), j)
      BY <3>2, UnregisterKeeps
    <3>4. Unregistering(w, s, h[j], j)
      BY <1>2, <3>3 DEF Unregisters
    <3> QED BY <2>2, <3>1, <3>4
  <2> HIDE DEF T
  <2> QED BY <2>1, <2>2, BoundedInduction
<1> QED BY <1>2, <1>3 DEF Unregisters

\* CloseFigure takes the plots of one figure, and every name that points to them.
LEMMA CloseFigureKeeps ==
    ASSUME NEW w, WorldInv(w), NEW i \in DOMAIN w.figures
    PROVE  WorldInv(P!CloseFigure(w, i))
<1> DEFINE u == P!CloseFigure(w, i)
           s == w.figures[i].plots
           n == Len(s)
           name == w.figures[i].name
           m == Len(w.figures)
           D == DOMAIN w.plotName
           r == w.registry
           At(j) == IF j < i THEN j ELSE j + 1
<1>1. /\ w \in Worlds /\ RegistryType(r) /\ w.plotName \in NameMaps
      /\ w.figures \in Seq(Figures) /\ w.windows \in Seq(Nat) /\ Sorted(w.windows)
      /\ Placed(w) /\ Known(w) /\ Distinct(w) /\ FiguresKnown(w) /\ Points(w, GroupsOf(w))
  BY WorldFields DEF WorldInv, WorldType
<1>2. /\ m \in Nat /\ DOMAIN w.figures = 1..m /\ i \in 1..m
      /\ \A a \in 1..m : w.figures[a] \in Figures
  BY <1>1
<1>3. s \in Seq(PlotIds) /\ n \in Nat /\ DOMAIN s = 1..n /\ name \in Nat
  <2>1. w.figures[i] \in Figures
    BY <1>2
  <2> QED BY <2>1 DEF Figures
<1>4. P!ToSet(s) = Part(s, n) /\ P!ToSet(s) \subseteq D /\ s \in [1..n -> D]
  <2>1. P!ToSet(s) = Part(s, n)
    BY <1>3 DEF P!ToSet, Part
  <2>2. P!ToSet(s) \subseteq D
    BY <1>1 DEF Placed
  <2>3. \A k \in 1..n : s[k] \in D
    BY <2>1, <2>2 DEF Part
  <2> QED BY <1>3, <2>1, <2>2, <2>3
<1>5. /\ u = [figures |-> u.figures, plotName |-> u.plotName,
              registry |-> u.registry, windows |-> u.windows]
      /\ u.figures = P!RemoveAt(w.figures, i)
      /\ u.plotName = [p \in D \ P!ToSet(s) |-> w.plotName[p]]
      /\ u.registry = Unregistered(w, s)
      /\ u.windows = P!RemoveFirst(w.windows, name)
  BY DEF P!CloseFigure, Unregistered
<1> HIDE DEF u
<1>6. /\ u.figures \in Seq(Figures) /\ DOMAIN u.figures = 1..(m - 1)
      /\ \A j \in 1..(m - 1) : u.figures[j] = w.figures[At(j)]
  <2> DEFINE v == P!RemoveAt(w.figures, i)
  <2>1. /\ v \in Seq(Figures) /\ DOMAIN v = 1..(m - 1)
        /\ \A j \in 1..(m - 1) : v[j] = IF j < i THEN w.figures[j] ELSE w.figures[j + 1]
    BY <1>1, <1>2, RemovedAt
  <2>2. v = u.figures
    BY <1>5
  <2> HIDE DEF v
  <2> QED BY <2>1, <2>2
<1>7. \A j \in 1..(m - 1) : At(j) \in 1..m /\ At(j) # i
  BY <1>2
<1>8. \A j, l \in 1..(m - 1) : At(j) = At(l) => j = l
  BY <1>2
<1>9. \A a \in 1..m : a # i => \E j \in 1..(m - 1) : At(j) = a
  <2> SUFFICES ASSUME NEW a \in 1..m, a # i PROVE \E j \in 1..(m - 1) : At(j) = a
    OBVIOUS
  <2>1. CASE a < i
    BY <1>2, <2>1
  <2>2. CASE a > i
    <3>1. a - 1 \in 1..(m - 1) /\ At(a - 1) = a
      BY <1>2, <2>2
    <3> QED BY <3>1
  <2> QED BY <1>2, <2>1, <2>2
<1> HIDE DEF At, m
<1>10. /\ u.windows \in Seq(Nat) /\ Sorted(u.windows)
       /\ \A x \in P!ToSet(w.windows) : x # name => x \in P!ToSet(u.windows)
  BY <1>1, <1>5, RemovesOne
<1> HIDE DEF name, n
<1>11. Unregistering(w, s, u.registry, n)
  BY <1>3, <1>4, <1>5, UnregisterPlots
<1>12. /\ DOMAIN u.plotName = D \ P!ToSet(s)
       /\ \A p \in D \ P!ToSet(s) : u.plotName[p] = w.plotName[p]
  BY <1>5
<1> HIDE DEF s
<1>13. WorldType(u)
  <2>1. u.plotName \in NameMaps
    <3>1. D \subseteq PlotIds /\ \A p \in D : w.plotName[p] \in Nat
      BY <1>1, MapIs DEF NameMaps
    <3>2. u.plotName = [p \in DOMAIN u.plotName |-> u.plotName[p]]
      BY <1>5
    <3> QED BY <1>12, <3>1, <3>2, MapIs DEF NameMaps
  <2>2. RegistryType(u.registry) /\ u.registry \in Registries
    BY <1>11 DEF Unregistering, RegistryType
  <2>3. [figures |-> u.figures, plotName |-> u.plotName,
         registry |-> u.registry, windows |-> u.windows] \in Worlds
    BY <1>6, <1>10, <2>1, <2>2, IsWorld
  <2>4. u \in Worlds
    BY <1>5, <2>3
  <2> QED BY <1>10, <2>2, <2>4 DEF WorldType
<1>14. \A a \in 1..m : \A p : a # i /\ p \in P!ToSet(w.figures[a].plots) => p \notin P!ToSet(s)
  BY <1>1, <1>2 DEF Placed, s
<1>15. Placed(u)
  <2>1. ASSUME NEW p
        PROVE  p \in DOMAIN u.plotName <=>
                   \E j \in DOMAIN u.figures : p \in P!ToSet(u.figures[j].plots)
    <3>1. ASSUME p \in DOMAIN u.plotName
          PROVE  \E j \in DOMAIN u.figures : p \in P!ToSet(u.figures[j].plots)
      <4>1. p \in D /\ p \notin P!ToSet(s)
        BY <1>12, <3>1
      <4>2. PICK a \in 1..m : p \in P!ToSet(w.figures[a].plots)
        BY <1>1, <1>2, <4>1 DEF Placed
      <4>3. a # i
        BY <4>1, <4>2 DEF s
      <4>4. PICK j \in 1..(m - 1) : At(j) = a
        BY <1>9, <4>3
      <4> QED BY <1>6, <4>2, <4>4
    <3>2. ASSUME NEW j \in DOMAIN u.figures, p \in P!ToSet(u.figures[j].plots)
          PROVE  p \in DOMAIN u.plotName
      <4>1. At(j) \in 1..m /\ At(j) # i /\ p \in P!ToSet(w.figures[At(j)].plots)
        BY <1>6, <1>7, <3>2
      <4>2. p \in D
        BY <1>1, <1>2, <4>1 DEF Placed
      <4> QED BY <1>12, <1>14, <4>1, <4>2
    <3> QED BY <3>1, <3>2
  <2>2. ASSUME NEW j \in DOMAIN u.figures PROVE P!IsInjective(u.figures[j].plots)
    <3>1. At(j) \in 1..m /\ u.figures[j] = w.figures[At(j)]
      BY <1>6, <1>7
    <3> QED BY <1>1, <1>2, <3>1 DEF Placed
  <2>3. ASSUME NEW j \in DOMAIN u.figures, NEW l \in DOMAIN u.figures, NEW p,
               p \in P!ToSet(u.figures[j].plots), p \in P!ToSet(u.figures[l].plots)
        PROVE  j = l
    <3>1. /\ At(j) \in 1..m /\ At(l) \in 1..m
          /\ p \in P!ToSet(w.figures[At(j)].plots) /\ p \in P!ToSet(w.figures[At(l)].plots)
      BY <1>6, <1>7, <2>3
    <3>2. At(j) = At(l)
      BY <1>1, <1>2, <3>1 DEF Placed
    <3> QED BY <1>6, <1>8, <3>2
  <2> QED BY <2>1, <2>2, <2>3 DEF Placed
<1>16. FiguresKnown(u)
  <2>1. ASSUME NEW j \in DOMAIN u.figures PROVE u.figures[j].name \in P!ToSet(u.windows)
    <3>1. At(j) \in 1..m /\ At(j) # i /\ u.figures[j] = w.figures[At(j)]
      BY <1>6, <1>7
    <3>2. w.figures[At(j)].name \in P!ToSet(w.windows) /\ w.figures[At(j)].name # name
      BY <1>1, <1>2, <3>1 DEF FiguresKnown, name
    <3> QED BY <1>10, <3>1, <3>2
  <2>2. ASSUME NEW j \in DOMAIN u.figures, NEW l \in DOMAIN u.figures,
               u.figures[j].name = u.figures[l].name
        PROVE  j = l
    <3>1. /\ At(j) \in 1..m /\ At(l) \in 1..m
          /\ w.figures[At(j)].name = w.figures[At(l)].name
      BY <1>6, <1>7, <2>2
    <3>2. At(j) = At(l)
      BY <1>1, <1>2, <3>1 DEF FiguresKnown
    <3> QED BY <1>6, <1>8, <3>2
  <2> QED BY <2>1, <2>2 DEF FiguresKnown
<1>17. Known(u) /\ Distinct(u)
  <2>1. \A p \in D \ P!ToSet(s) : w.plotName[p] \in P!ToSet(u.registry.numbers)
    BY <1>4, <1>11 DEF Unregistering
  <2> QED BY <1>1, <1>12, <2>1 DEF Known, Distinct
\* A name that is left is that of a plot of another figure.
<1>18. Points(u, GroupsOf(u))
  <2> SUFFICES ASSUME NEW k \in DOMAIN u.registry.pointer
               PROVE  \E g \in GroupsOf(u) :
                         /\ u.registry.pointer[k] \in g
                         /\ \E q \in g : q \in DOMAIN u.plotName /\ u.plotName[q] = k
    BY DEF Points
  <2>1. /\ k \in DOMAIN r.pointer /\ u.registry.pointer[k] = r.pointer[k]
        /\ \A l \in 1..n : k # w.plotName[s[l]]
    BY <1>11 DEF Unregistering
  <2>2. PICK g \in GroupsOf(w) : r.pointer[k] \in g /\ \E q \in g : q \in D /\ w.plotName[q] = k
    BY <1>1, <2>1 DEF Points
  <2>3. PICK q \in g : q \in D /\ w.plotName[q] = k
    BY <2>2
  <2>4. q \notin P!ToSet(s)
    BY <1>4, <2>1, <2>3 DEF Part
  <2>5. PICK a \in 1..m : g = P!ToSet(w.figures[a].plots)
    BY <1>2 DEF GroupsOf
  <2>6. a # i
    BY <2>3, <2>4, <2>5 DEF s
  <2>7. PICK j \in 1..(m - 1) : At(j) = a
    BY <1>9, <2>6
  <2>8. g \in GroupsOf(u)
    BY <1>6, <2>5, <2>7 DEF GroupsOf
  <2> QED BY <1>12, <2>1, <2>2, <2>3, <2>4, <2>8
<1>19. WorldInv(u)
  BY <1>13, <1>15, <1>16, <1>17, <1>18 DEF WorldInv
<1> QED BY <1>19 DEF u

\* The names of the open plots are N.
Called(w, N) == /\ \A q \in DOMAIN w.plotName : w.plotName[q] \in N
                /\ \A x \in N : \E q \in DOMAIN w.plotName : w.plotName[q] = x

\* A figure is read if there is room, and its names are free.
LEMMA ReadFigureKeeps ==
    ASSUME NEW w, WorldInv(w), NEW N, Called(w, N), NEW given \in Seq(Nat), P!IsInjective(given),
           N \cap P!ToSet(given) = {}, IsFiniteSet(PlotIds),
           Cardinality(PlotIds \ DOMAIN w.plotName) >= Len(given)
    PROVE  /\ WorldInv(P!ReadFigure(w, given))
           /\ Called(P!ReadFigure(w, given), N \cup P!ToSet(given))
<1> DEFINE n == Len(given)
           s == P!Fresh(w, n)
           c == P!CreateFigure(w, n)
           order == [k \in DOMAIN given |-> k]
           u == P!ReadFigure(w, given)
           D == DOMAIN w.plotName
<1>1. n \in Nat /\ DOMAIN given = 1..n /\ given \in [1..n -> Nat]
  OBVIOUS
<1>2. Created(w, c, s, n)
  BY <1>1, CreateFigureKeeps
<1>3. u = RenamedPlots(c, P!Last(c.figures).plots, given, order)
  BY DEF P!ReadFigure, RenamedPlots
<1>4. P!Last(c.figures).plots = s
  BY <1>2 DEF Created
<1>5. order = [k \in 1..n |-> k]
  BY <1>1
<1> HIDE DEF n, s, c, order, u
<1>6. /\ WorldInv(c) /\ s \in [1..n -> PlotIds \ D] /\ P!IsInjective(s)
      /\ DOMAIN c.plotName = D \cup Part(s, n) /\ Part(s, n) \in GroupsOf(c)
      /\ \A q \in D : c.plotName[q] = w.plotName[q]
      /\ \A q \in Part(s, n) : c.plotName[q] \in DOMAIN c.registry.pointer
  BY <1>2 DEF Created
<1>7. /\ \A q \in D : q \notin Part(s, n)
      /\ \A k \in 1..n : s[k] \in Part(s, n)
  BY <1>6 DEF Part
<1>8. \A k \in 1..n : given[k] \in P!ToSet(given)
  BY <1>1 DEF P!ToSet
<1>9. \A x \in P!ToSet(given) : \E k \in 1..n : x = given[k]
  BY <1>1 DEF P!ToSet
<1>10. ToRename(c, s, n, given)
  <2>1. s \in [1..n -> DOMAIN c.plotName]
    BY <1>6, <1>7
  <2>2. \A q \in DOMAIN c.plotName \ Part(s, n) : \A k \in 1..n : c.plotName[q] # given[k]
    <3>1. \A q \in D : w.plotName[q] \in N
      BY DEF Called
    <3> QED BY <1>6, <1>8, <3>1
  <2> QED BY <1>1, <1>6, <2>1, <2>2 DEF ToRename
<1>11. Renaming(c, u, s, n, given, n)
  BY <1>3, <1>4, <1>5, <1>10, RenamePlotsKeeps
<1>12. WorldInv(u)
  BY <1>10, <1>11, RenamedAll
<1>13. /\ DOMAIN u.plotName = D \cup Part(s, n)
       /\ \A q \in D : u.plotName[q] = w.plotName[q]
       /\ \A k \in 1..n : u.plotName[s[k]] = given[k]
  BY <1>6, <1>7, <1>11 DEF Renaming
<1>14. ASSUME NEW q \in DOMAIN u.plotName
       PROVE  u.plotName[q] \in N \cup P!ToSet(given)
  <2>1. CASE q \in D
    BY <1>13, <2>1 DEF Called
  <2>2. CASE q \in Part(s, n)
    <3>1. PICK k \in 1..n : q = s[k]
      BY <2>2 DEF Part
    <3> QED BY <1>8, <1>13, <3>1
  <2> QED BY <1>13, <2>1, <2>2
<1>15. ASSUME NEW x \in N \cup P!ToSet(given)
       PROVE  \E q \in DOMAIN u.plotName : u.plotName[q] = x
  <2>1. CASE x \in N
    <3>1. PICK q \in D : w.plotName[q] = x
      BY <2>1 DEF Called
    <3> QED BY <1>13, <3>1
  <2>2. CASE x \in P!ToSet(given)
    <3>1. PICK k \in 1..n : x = given[k]
      BY <1>9, <2>2
    <3> QED BY <1>7, <1>13, <3>1
  <2> QED BY <2>1, <2>2
<1>16. Called(u, N \cup P!ToSet(given))
  BY <1>14, <1>15 DEF Called
<1> QED BY <1>12, <1>16 DEF u

\* As many plots are open as there are names.
LEMMA NamesTakeRoom ==
    ASSUME NEW w, WorldInv(w), NEW N, Called(w, N), IsFiniteSet(PlotIds)
    PROVE  /\ IsFiniteSet(N) /\ Cardinality(N) <= Cardinality(PlotIds)
           /\ Cardinality(N) \in Nat /\ Cardinality(PlotIds) \in Nat
           /\ Cardinality(PlotIds \ DOMAIN w.plotName) = Cardinality(PlotIds) - Cardinality(N)
<1> DEFINE D == DOMAIN w.plotName
           f == [q \in D |-> w.plotName[q]]
<1>1. D \subseteq PlotIds
  <2>1. w.plotName \in NameMaps
    BY WorldFields DEF WorldInv, WorldType
  <2> QED BY <2>1, MapIs DEF NameMaps
<1>2. f \in Bijection(D, N)
  BY DEF Called, WorldInv, Distinct, Bijection, Injection, Surjection, IsInjective
<1> HIDE DEF f, D
<1>3. IsFiniteSet(D) /\ Cardinality(D) <= Cardinality(PlotIds)
  BY <1>1, FS_Subset
<1>4. IsFiniteSet(N) /\ Cardinality(N) = Cardinality(D)
  <2>1. ExistsBijection(D, N)
    BY <1>2 DEF ExistsBijection
  <2> QED BY <1>3, <2>1, FS_Bijection
<1>5. Cardinality(PlotIds \ D) = Cardinality(PlotIds) - Cardinality(PlotIds \cap D)
  BY FS_Difference
<1>6. PlotIds \cap D = D
  BY <1>1
<1>7. Cardinality(N) \in Nat /\ Cardinality(PlotIds) \in Nat
  BY <1>4, FS_CardinalityType
<1> QED BY <1>3, <1>4, <1>5, <1>6, <1>7 DEF D

\* The number of names of a figure.
LEMMA NamesOfFigure ==
    ASSUME NEW given \in Seq(Nat), P!IsInjective(given)
    PROVE  IsFiniteSet(P!ToSet(given)) /\ Cardinality(P!ToSet(given)) = Len(given)
<1> DEFINE n == Len(given)
<1>1. n \in Nat /\ DOMAIN given = 1..n
  OBVIOUS
<1>2. given \in Bijection(1..n, P!ToSet(given))
  BY <1>1 DEF P!ToSet, P!IsInjective, IsInjective, Bijection, Injection, Surjection
<1> HIDE DEF n
<1>3. IsFiniteSet(1..n) /\ Cardinality(1..n) = n
  <2>1. n \in Int /\ 1 \in Int
    BY <1>1
  <2>2. IsFiniteSet(1..n) /\ Cardinality(1..n) = IF 1 > n THEN 0 ELSE n - 1 + 1
    BY <2>1, FS_Interval
  <2> QED BY <1>1, <2>2
<1>4. ExistsBijection(1..n, P!ToSet(given))
  BY <1>2 DEF ExistsBijection
<1> QED BY <1>3, <1>4, FS_Bijection DEF n

\* There is room for the next figure of the file.
LEMMA RoomForNext ==
    ASSUME NEW f, FileOK(f), NEW j \in DOMAIN f, IsFiniteSet(PlotIds),
           NEW w, WorldInv(w), Called(w, NamesOf(f, j - 1))
    PROVE  /\ f[j] \in Seq(Nat) /\ P!IsInjective(f[j])
           /\ NamesOf(f, j - 1) \cap P!ToSet(f[j]) = {}
           /\ NamesOf(f, j) = NamesOf(f, j - 1) \cup P!ToSet(f[j])
           /\ Cardinality(PlotIds \ DOMAIN w.plotName) >= Len(f[j])
<1> DEFINE n == Len(f)
           N == NamesOf(f, j - 1)
           M == P!ToSet(f[j])
           all == NamesOf(f, n)
<1>1. /\ n \in Nat /\ DOMAIN f = 1..n /\ j \in 1..n /\ f[j] \in Seq(Nat) /\ P!IsInjective(f[j])
      /\ IsFiniteSet(all) /\ Cardinality(all) <= Cardinality(PlotIds)
  BY DEF FileOK
<1>2. \A i \in 1..(j - 1) : i \in 1..n /\ i \in 1..j /\ i # j
  BY <1>1
<1>3. N \cap M = {}
  BY <1>1, <1>2 DEF FileOK, NamesOf
<1>4. M \subseteq Nat
  BY <1>1 DEF P!ToSet
<1>5. NamesOf(f, j) = N \cup M
  <2>1. \A i \in 1..j : i \in 1..(j - 1) \/ i = j
    BY <1>1
  <2>2. j \in 1..j
    BY <1>1
  <2> QED BY <1>2, <1>4, <2>1, <2>2 DEF NamesOf
<1>6. N \cup M \subseteq all
  BY <1>1, <1>2, <1>4 DEF NamesOf
<1> HIDE DEF N, M, all
<1>7. IsFiniteSet(M) /\ Cardinality(M) = Len(f[j])
  BY <1>1, NamesOfFigure DEF M
<1>8. /\ IsFiniteSet(N) /\ Cardinality(N) \in Nat /\ Cardinality(PlotIds) \in Nat
      /\ Cardinality(PlotIds \ DOMAIN w.plotName) = Cardinality(PlotIds) - Cardinality(N)
  BY NamesTakeRoom DEF N
<1>9. Cardinality(N \cup M) = Cardinality(N) + Cardinality(M)
  <2>1. Cardinality(N \cup M) = Cardinality(N) + Cardinality(M) - Cardinality(N \cap M)
    BY <1>7, <1>8, FS_Union
  <2>2. Cardinality(N \cap M) = 0
    BY <1>3, FS_EmptySet
  <2>3. Cardinality(M) \in Nat
    BY <1>1, <1>7
  <2> QED BY <1>8, <2>1, <2>2, <2>3
<1>10. Cardinality(N \cup M) <= Cardinality(all)
  BY <1>1, <1>6, FS_Subset
<1>11. Cardinality(all) \in Nat /\ Len(f[j]) \in Nat
  BY <1>1, FS_CardinalityType
<1>12. Cardinality(PlotIds \ DOMAIN w.plotName) >= Len(f[j])
  BY <1>1, <1>7, <1>8, <1>9, <1>10, <1>11
<1> QED BY <1>1, <1>3, <1>5, <1>12 DEF N, M

\* The world with nothing open.
LEMMA EmptyWorldOK == WorldInv(P!EmptyWorld) /\ Called(P!EmptyWorld, {})
<1> DEFINE e == P!EmptyWorld
<1>1. /\ e.figures = <<>> /\ e.windows = <<>> /\ DOMAIN e.plotName = {}
      /\ e.registry = P!NoPlots /\ e.plotName = P!EmptyMap
      /\ e = [figures |-> <<>>, plotName |-> P!EmptyMap, registry |-> P!NoPlots, windows |-> <<>>]
  BY DEF P!EmptyWorld, P!EmptyMap
<1>2. /\ P!NoPlots.pointer = P!EmptyMap /\ P!NoPlots.number = P!EmptyMap /\ P!NoPlots.numbers = <<>>
      /\ P!NoPlots = [pointer |-> P!EmptyMap, number |-> P!EmptyMap, numbers |-> <<>>]
  BY DEF P!NoPlots
<1>3. DOMAIN P!EmptyMap = {} /\ \A S, T : P!EmptyMap \in Maps(S, T)
  BY DEF P!EmptyMap, Maps
<1>4. RegistryType(P!NoPlots)
  BY <1>2, <1>3 DEF RegistryType, Registries, PointerMaps, NumberMaps, Sorted
<1>5. WorldType(e)
  <2>1. <<>> \in Seq(Figures) /\ <<>> \in Seq(Nat) /\ Sorted(<<>>) /\ P!NoPlots \in Registries
    BY <1>4 DEF Sorted, RegistryType
  <2>2. e \in Worlds
    BY <1>1, <1>3, <2>1, IsWorld DEF NameMaps
  <2> HIDE DEF e
  <2> QED BY <1>1, <1>4, <2>1, <2>2 DEF WorldType
<1> HIDE DEF e
<1>6. Placed(e) /\ Known(e) /\ Distinct(e) /\ FiguresKnown(e)
  BY <1>1 DEF Placed, Known, Distinct, FiguresKnown
<1>7. Points(e, GroupsOf(e))
  BY <1>1, <1>2, <1>3 DEF Points
<1>8. WorldInv(e) /\ Called(e, {})
  BY <1>1, <1>5, <1>6, <1>7 DEF WorldInv, Called
<1> QED BY <1>8 DEF e

\* The whole file is read.
LEMMA ReadAllKeeps ==
    ASSUME NEW f, FileOK(f), IsFiniteSet(PlotIds)
    PROVE  WorldInv(ReadAll(P!EmptyWorld, f))
<1> DEFINE n == Len(f)
<1>1. n \in Nat /\ DOMAIN f = 1..n
  BY DEF FileOK
<1>2. PICK h : Reads(P!EmptyWorld, f, n, h)
  BY <1>1, ReadsFigures
<1> HIDE DEF n
<1> DEFINE T == {i \in 0..n : WorldInv(h[i]) /\ Called(h[i], NamesOf(f, i))}
<1>3. 0..n \subseteq T
  <2>1. 0 \in T
    <3>1. NamesOf(f, 0) = {}
      BY DEF NamesOf
    <3>2. h[0] = P!EmptyWorld
      BY <1>2 DEF Reads
    <3>3. WorldInv(h[0]) /\ Called(h[0], NamesOf(f, 0))
      BY <3>1, <3>2, EmptyWorldOK, Zenon
    <3> QED BY <1>1, <3>3
  <2>2. ASSUME NEW i \in 0..n, i < n, i \in T PROVE i + 1 \in T
    <3>1. PICK j \in 1..n : j = i + 1
      BY <1>1, <2>2
    <3>2. j - 1 = i /\ WorldInv(h[j - 1]) /\ Called(h[j - 1], NamesOf(f, j - 1))
      BY <1>1, <2>2, <3>1
    <3>3. /\ f[j] \in Seq(Nat) /\ P!IsInjective(f[j])
          /\ NamesOf(f, j - 1) \cap P!ToSet(f[j]) = {}
          /\ NamesOf(f, j) = NamesOf(f, j - 1) \cup P!ToSet(f[j])
          /\ Cardinality(PlotIds \ DOMAIN h[j - 1].plotName) >= Len(f[j])
      BY <1>1, <3>2, RoomForNext
    <3>4. /\ WorldInv(P!ReadFigure(h[j - 1], f[j]))
          /\ Called(P!ReadFigure(h[j - 1], f[j]), NamesOf(f, j))
      <4> DEFINE w == h[j - 1]
                 given == f[j]
                 N == NamesOf(f, j - 1)
      <4>1. /\ given \in Seq(Nat) /\ P!IsInjective(given) /\ N \cap P!ToSet(given) = {}
            /\ Cardinality(PlotIds \ DOMAIN w.plotName) >= Len(given)
            /\ WorldInv(w) /\ Called(w, N) /\ NamesOf(f, j) = N \cup P!ToSet(given)
        BY <3>2, <3>3
      <4> HIDE DEF w, given, N
      <4>2. /\ WorldInv(P!ReadFigure(w, given))
            /\ Called(P!ReadFigure(w, given), N \cup P!ToSet(given))
        BY <4>1, ReadFigureKeeps
      <4> QED BY <4>1, <4>2 DEF w, given
    <3>5. WorldInv(h[j]) /\ Called(h[j], NamesOf(f, j))
      BY <1>2, <3>4 DEF Reads
    <3> QED BY <1>1, <2>2, <3>1, <3>5
  <2> HIDE DEF T
  <2> QED BY <1>1, <2>1, <2>2, BoundedInduction
<1> QED BY <1>1, <1>2, <1>3 DEF Reads

-----------------------------------------------------------------------------
(* The invariant, action by action.                                        *)

\* What an action makes of the world is the next state.
LEMMA WorldIs ==
    ASSUME NEW w, WorldInv(w), P!Become(w)
    PROVE  WorldInv(P!World)'
<1>1. w = [figures |-> w.figures, plotName |-> w.plotName,
           registry |-> w.registry, windows |-> w.windows]
  BY WorldFields DEF WorldInv, WorldType
<1>2. P!World' = w
  BY <1>1 DEF P!World, P!Become
<1> QED BY <1>2

\* A save writes different names, which fit the plots there are.
LEMMA SavedNames ==
    ASSUME WorldInv(P!World), IsFiniteSet(PlotIds)
    PROVE  FileOK(P!Saved)
<1> DEFINE f == P!Saved
           m == Len(figures)
           D == DOMAIN plotName
<1>1. /\ figures \in Seq(Figures) /\ plotName \in NameMaps /\ Placed(P!World)
      /\ \A p, q \in D : plotName[p] = plotName[q] => p = q
      /\ P!World.figures = figures /\ P!World.plotName = plotName
  BY WorldFields DEF WorldInv, WorldType, P!World, Distinct
<1>2. m \in Nat /\ DOMAIN figures = 1..m /\ \A i \in 1..m : figures[i] \in Figures
  BY <1>1
<1>3. \A i \in 1..m : /\ figures[i].plots \in Seq(PlotIds)
                      /\ DOMAIN figures[i].plots = 1..Len(figures[i].plots)
                      /\ Len(figures[i].plots) \in Nat
  BY <1>2 DEF Figures
<1>4. D \subseteq PlotIds /\ \A p \in D : plotName[p] \in Nat
  BY <1>1, MapIs DEF NameMaps
<1>5. \A i \in 1..m : \A k \in DOMAIN figures[i].plots : figures[i].plots[k] \in D
  <2>1. \A i \in 1..m : \A p \in P!ToSet(figures[i].plots) : p \in D
    BY <1>1, <1>2 DEF Placed
  <2> QED BY <2>1 DEF P!ToSet
<1>6. /\ DOMAIN f = 1..m /\ f = [i \in 1..m |-> f[i]]
      /\ \A i \in 1..m : /\ f[i] = [k \in DOMAIN figures[i].plots |-> f[i][k]]
                         /\ DOMAIN f[i] = DOMAIN figures[i].plots
                         /\ \A k \in DOMAIN figures[i].plots :
                                f[i][k] = plotName[figures[i].plots[k]]
  BY <1>2 DEF P!Saved
<1> HIDE DEF f, m
<1>7. \A i \in 1..m : f[i] \in Seq(Nat)
  <2> SUFFICES ASSUME NEW i \in 1..m PROVE f[i] \in Seq(Nat)
    OBVIOUS
  <2> DEFINE l == Len(figures[i].plots)
  <2>1. l \in Nat /\ DOMAIN figures[i].plots = 1..l
    BY <1>3
  <2>2. \A k \in 1..l : f[i][k] \in Nat
    BY <1>4, <1>5, <1>6, <2>1
  <2>3. f[i] = [k \in 1..l |-> f[i][k]]
    BY <1>6, <2>1
  <2> HIDE DEF l
  <2>4. f[i] \in [1..l -> Nat]
    BY <2>2, <2>3
  <2> QED BY <2>1, <2>4
<1>8. f \in Seq(Seq(Nat)) /\ Len(f) = m
  <2>1. f \in [1..m -> Seq(Nat)]
    BY <1>6, <1>7
  <2> QED BY <1>2, <1>6, <2>1
<1>9. \A i \in 1..m : P!IsInjective(f[i])
  <2> SUFFICES ASSUME NEW i \in 1..m, NEW k \in DOMAIN f[i], NEW l \in DOMAIN f[i],
                      f[i][k] = f[i][l]
               PROVE  k = l
    BY DEF P!IsInjective
  <2>1. figures[i].plots[k] = figures[i].plots[l]
    BY <1>1, <1>5, <1>6
  <2>2. P!IsInjective(figures[i].plots)
    BY <1>1, <1>2 DEF Placed
  <2> QED BY <1>6, <2>1, <2>2 DEF P!IsInjective
<1>10. ASSUME NEW i \in 1..m, NEW x \in P!ToSet(f[i])
       PROVE  \E p \in D : p \in P!ToSet(figures[i].plots) /\ plotName[p] = x
  <2>1. PICK k \in DOMAIN f[i] : x = f[i][k]
    BY <1>10 DEF P!ToSet
  <2>2. /\ figures[i].plots[k] \in D /\ plotName[figures[i].plots[k]] = x
        /\ figures[i].plots[k] \in P!ToSet(figures[i].plots)
    BY <1>5, <1>6, <2>1 DEF P!ToSet
  <2> QED BY <2>2
<1>11. ASSUME NEW i \in 1..m, NEW j \in 1..m, NEW x, x \in P!ToSet(f[i]), x \in P!ToSet(f[j])
       PROVE  i = j
  <2>1. PICK p \in D : p \in P!ToSet(figures[i].plots) /\ plotName[p] = x
    BY <1>10, <1>11
  <2>2. PICK q \in D : q \in P!ToSet(figures[j].plots) /\ plotName[q] = x
    BY <1>10, <1>11
  <2>3. p = q
    BY <1>1, <2>1, <2>2
  <2> QED BY <1>1, <1>2, <2>1, <2>2, <2>3 DEF Placed
<1> DEFINE N == NamesOf(f, m)
<1>12. Called(P!World, N)
  <2>1. ASSUME NEW q \in D PROVE plotName[q] \in N
    <3>1. PICK i \in 1..m : q \in P!ToSet(figures[i].plots)
      BY <1>1, <1>2 DEF Placed
    <3>2. PICK k \in DOMAIN figures[i].plots : q = figures[i].plots[k]
      BY <3>1 DEF P!ToSet
    <3>3. plotName[q] = f[i][k] /\ k \in DOMAIN f[i]
      BY <1>6, <3>2
    <3>4. plotName[q] \in P!ToSet(f[i])
      BY <3>3 DEF P!ToSet
    <3> QED BY <1>4, <3>4 DEF NamesOf
  <2>2. ASSUME NEW x \in N PROVE \E q \in D : plotName[q] = x
    <3>1. PICK i \in 1..m : x \in P!ToSet(f[i])
      BY <2>2 DEF NamesOf
    <3> QED BY <1>10, <3>1
  <2> QED BY <1>1, <2>1, <2>2 DEF Called
<1> HIDE DEF N
<1>13. IsFiniteSet(N) /\ Cardinality(N) <= Cardinality(PlotIds)
  BY <1>12, NamesTakeRoom
<1>14. FileOK(f)
  <2>1. \A i, j \in DOMAIN f : \A x : x \in P!ToSet(f[i]) /\ x \in P!ToSet(f[j]) => i = j
    BY <1>6, <1>11
  <2>2. \A i \in DOMAIN f : P!IsInjective(f[i])
    BY <1>6, <1>9
  <2>3. N = NamesOf(f, Len(f))
    BY <1>8 DEF N
  <2>4. /\ IsFiniteSet(NamesOf(f, Len(f)))
        /\ Cardinality(NamesOf(f, Len(f))) <= Cardinality(PlotIds)
    BY <1>13, <2>3
  <2> QED BY <1>8, <2>1, <2>2, <2>4 DEF FileOK
<1> QED BY <1>14 DEF f

\* Nothing is open at first, and the file is empty.
LEMMA FirstPlotInv == P!Init => PlotInv
<1> SUFFICES ASSUME P!Init PROVE PlotInv
  OBVIOUS
<1>1. P!World = P!EmptyWorld
  BY DEF P!Init, P!World, P!EmptyWorld
<1>2. FileOK(<<>>)
  <2> DEFINE f == <<>>
  <2>1. f \in Seq(Seq(Nat)) /\ Len(f) = 0 /\ DOMAIN f = {}
    OBVIOUS
  <2>2. NamesOf(f, 0) = {}
    BY DEF NamesOf
  <2>3. IsFiniteSet(PlotIds) /\ Cardinality(PlotIds) \in Nat
    BY BoundsAssumed, LibraryIs, FS_CardinalityType DEF P!BoundsAssumption
  <2>4. IsFiniteSet({}) /\ Cardinality({}) = 0
    BY FS_EmptySet
  <2> HIDE DEF f
  <2>5. NamesOf(f, Len(f)) = {}
    BY <2>1, <2>2
  <2>6. /\ IsFiniteSet(NamesOf(f, Len(f)))
        /\ Cardinality(NamesOf(f, Len(f))) <= Cardinality(PlotIds)
    BY <2>3, <2>4, <2>5
  <2>7. FileOK(f)
    BY <2>1, <2>6 DEF FileOK
  <2> QED BY <2>7 DEF f
<1> QED BY <1>1, <1>2, EmptyWorldOK DEF P!Init, PlotInv

\* Every action keeps the invariant.
LEMMA PlotInvKept == PlotInv /\ [P!Next]_(P!vars) => PlotInv'
<1> SUFFICES ASSUME PlotInv, [P!Next]_(P!vars) PROVE PlotInv'
  OBVIOUS
<1>1. WorldInv(P!World) /\ FileOK(figureFile) /\ IsFiniteSet(PlotIds) /\ MaxPlots \in Nat
  BY BoundsAssumed, LibraryIs DEF PlotInv, P!BoundsAssumption
<1>2. ASSUME WorldInv(P!World)', figureFile' = figureFile PROVE PlotInv'
  BY <1>1, <1>2 DEF PlotInv
<1>3. ASSUME NEW n \in 1..MaxPlots, P!OpenFigure(n) PROVE PlotInv'
  <2>1. n \in Nat /\ Cardinality(PlotIds \ DOMAIN P!World.plotName) >= n
    BY <1>1, <1>3, LibraryIs DEF P!OpenFigure, P!HasRoom, P!World
  <2>2. WorldInv(P!CreateFigure(P!World, n))
    BY <1>1, <2>1, CreateFigureKeeps DEF Created
  <2>3. P!Become(P!CreateFigure(P!World, n)) /\ figureFile' = figureFile
    BY <1>3 DEF P!OpenFigure
  <2>4. WorldInv(P!World)'
    BY <2>2, <2>3, WorldIs
  <2> QED BY <1>2, <2>3, <2>4
<1>4. ASSUME NEW i \in DOMAIN figures, P!Close(i) PROVE PlotInv'
  <2>1. i \in DOMAIN P!World.figures
    BY DEF P!World
  <2>2. WorldInv(P!CloseFigure(P!World, i))
    BY <1>1, <2>1, CloseFigureKeeps
  <2>3. P!Become(P!CloseFigure(P!World, i)) /\ figureFile' = figureFile
    BY <1>4 DEF P!Close
  <2>4. WorldInv(P!World)'
    BY <2>2, <2>3, WorldIs
  <2> QED BY <1>2, <2>3, <2>4
<1>5. CASE P!SaveExperiment
  <2>1. P!World' = P!World /\ figureFile' = P!Saved
    BY <1>5 DEF P!SaveExperiment, P!World
  <2>2. FileOK(P!Saved)
    BY <1>1, SavedNames
  <2> QED BY <1>1, <2>1, <2>2 DEF PlotInv
<1>6. CASE P!CloseProject
  <2>1. P!Become(P!EmptyWorld) /\ figureFile' = figureFile
    BY <1>6 DEF P!CloseProject
  <2>2. WorldInv(P!World)'
    BY <2>1, EmptyWorldOK, WorldIs
  <2> QED BY <1>2, <2>1, <2>2
<1>7. CASE P!LoadExperiment
  <2>1. P!Become(ReadAll(P!EmptyWorld, figureFile)) /\ figureFile' = figureFile
    BY <1>7 DEF P!LoadExperiment, ReadAll
  <2>2. WorldInv(P!World)'
    BY <1>1, <2>1, ReadAllKeeps, WorldIs
  <2> QED BY <1>2, <2>1, <2>2
<1>8. CASE UNCHANGED P!vars
  <2>1. P!World' = P!World /\ figureFile' = figureFile
    BY <1>8 DEF P!vars, P!World
  <2> QED BY <1>1, <2>1 DEF PlotInv
<1> QED BY <1>3, <1>4, <1>5, <1>6, <1>7, <1>8 DEF P!Next

\* It is what is promised.
LEMMA PlotInvImplies == PlotInv => P!TypeOK /\ P!PlotsAreKnown
<1> SUFFICES ASSUME PlotInv PROVE P!TypeOK /\ P!PlotsAreKnown
  OBVIOUS
<1>1. /\ P!World.figures = figures /\ P!World.plotName = plotName
      /\ P!World.registry = registry /\ P!World.windows = windows
  BY DEF P!World
<1>2. /\ WorldInv(P!World) /\ P!World \in Worlds /\ RegistryType(registry)
      /\ plotName \in NameMaps /\ Sorted(windows)
  BY <1>1, WorldFields DEF PlotInv, WorldInv, WorldType
<1>3. DOMAIN plotName \subseteq PlotIds /\ \A p \in DOMAIN plotName : plotName[p] \in Nat
  BY <1>2, MapIs DEF NameMaps
<1>4. \A i \in DOMAIN figures : P!ToSet(figures[i].plots) \subseteq DOMAIN plotName
  BY <1>1, <1>2 DEF WorldInv, Placed
<1>5. P!TypeOK
  BY <1>2, <1>3, <1>4 DEF P!TypeOK, P!Plots, RegistryType, Sorted
<1>6. P!NamesDistinct
  BY <1>1, <1>2 DEF P!NamesDistinct, P!Plots, WorldInv, Distinct, FiguresKnown
<1>7. ASSUME NEW k \in DOMAIN registry.pointer PROVE registry.pointer[k] \in DOMAIN plotName
  <2>1. PICK g \in GroupsOf(P!World) : registry.pointer[k] \in g
    BY <1>1, <1>2 DEF WorldInv, Points
  <2>2. PICK i \in DOMAIN figures : g = P!ToSet(figures[i].plots)
    BY <1>1 DEF GroupsOf
  <2> QED BY <1>4, <2>1, <2>2
<1> QED BY <1>5, <1>6, <1>7 DEF P!PlotsAreKnown, P!Plots

-----------------------------------------------------------------------------
(* DataArchive.                                                            *)

\* What the archive assumes of its constants.
LEMMA ArchiveAssumed == A!ArchiveAssumption
BY Assumptions

\* The top of a set of indices.
LEMMA LastIs ==
    ASSUME NEW n \in Nat, NEW s, s \subseteq 1..n, n \in s
    PROVE  A!Max(s) = n
BY MaxTop DEF A!Max, Max

\* It is one of them.
LEMMA LastIn ==
    ASSUME NEW n \in Nat, NEW s, s \subseteq 1..n, s # {}
    PROVE  A!Max(s) \in s
BY MaxIn DEF A!Max, Max

\* A channel's name is its id or what the user calls it; what a descriptor holds.
AllNames == A!ChannelIds \cup Names
Entries == [id : A!ChannelIds, value : Contents, name : AllNames]

\* The descriptors of an archive: different channels, which have values.
Whole(s) ==
    /\ s \in Seq(Entries)
    /\ \A i, j \in DOMAIN s : s[i].id = s[j].id => i = j
    /\ \A i \in DOMAIN s : s[i].value # Blank

\* The containers and names of the project.
Holds(f, g) ==
    /\ DOMAIN g \subseteq DOMAIN f /\ DOMAIN f \subseteq A!ChannelIds
    /\ \A id \in DOMAIN f : f[id] \in Contents
    /\ \A id \in DOMAIN g : g[id] \in AllNames

\* The inductive invariant.
ArchiveInv ==
    /\ Holds(containers, alias) /\ Whole(kept)
    /\ archive # None => \E n \in -1..Len(kept) : archive = [channels |-> kept, payloads |-> n]

\* The descriptors that Descriptors has after so many of the channels.
Found(n, h) ==
    /\ h[0] = <<>>
    /\ \A i \in 1..n : h[i] = IF Channels[i] \in DOMAIN containers
                             THEN Append(h[i - 1], A!Descriptor(Channels[i])) ELSE h[i - 1]
    /\ A!Descriptors = h[n]

\* The channels are gone through one after the other.
LEMMA FindsDescriptors ==
    ASSUME NEW n \in Nat, DOMAIN Channels = 1..n
    PROVE  \E h : Found(n, h)
<1> DEFINE w == <<>>
           Turn(x, i) == IF Channels[i] \in DOMAIN containers
                         THEN Append(x, A!Descriptor(Channels[i])) ELSE x
           Recursion(m, f) == f = [s \in SUBSET (1..m) |->
                                     IF s = {} THEN w
                                     ELSE Turn(f[s \ {A!Max(s)}], A!Max(s))]
           last == A!Descriptors
           F == CHOOSE f : Recursion(n, f)
           T == {m \in Nat : \E f : Recursion(m, f)}
<1>1. last = F[1..n]
  BY DEF A!Descriptors, A!FoldLeft, A!MapThenFoldSet
<1> HIDE DEF Turn, last
<1>2. 0 \in T
  <2>1. 1..0 = {}
    OBVIOUS
  <2> DEFINE f == [s \in SUBSET (1..0) |-> w]
  <2>2. \A s \in SUBSET (1..0) : s = {}
    BY <2>1
  <2>3. f = [s \in SUBSET (1..0) |->
               IF s = {} THEN w ELSE Turn(f[s \ {A!Max(s)}], A!Max(s))]
    BY <2>2
  <2>4. Recursion(0, f)
    BY <2>3
  <2> HIDE DEF f, Recursion
  <2> QED BY <2>4
<1>3. ASSUME NEW m \in Nat, m \in T
      PROVE  m + 1 \in T
  <2>1. PICK f : Recursion(m, f)
    BY <1>3
  <2> DEFINE g == [s \in SUBSET (1..(m + 1)) |->
                     IF m + 1 \in s THEN Turn(f[s \ {m + 1}], m + 1) ELSE f[s]]
             G == [s \in SUBSET (1..(m + 1)) |->
                     IF s = {} THEN w ELSE Turn(g[s \ {A!Max(s)}], A!Max(s))]
  <2>2. \A s \in SUBSET (1..(m + 1)) : m + 1 \notin s => s \in SUBSET (1..m)
    OBVIOUS
  <2>3. ASSUME NEW s \in SUBSET (1..(m + 1))
        PROVE  g[s] = G[s]
    <3>1. CASE m + 1 \in s
      <4>6. m + 1 \in Nat
        OBVIOUS
      <4>1. A!Max(s) = m + 1 /\ s # {}
        BY <3>1, <4>6, LastIs
      <4>2. s \ {m + 1} \in SUBSET (1..(m + 1)) /\ m + 1 \notin s \ {m + 1}
        OBVIOUS
      <4>3. g[s \ {m + 1}] = f[s \ {m + 1}]
        BY <4>2
      <4>4. g[s] = Turn(f[s \ {m + 1}], m + 1)
        BY <3>1
      <4>5. G[s] = Turn(g[s \ {A!Max(s)}], A!Max(s))
        BY <4>1
      <4> HIDE DEF g, G
      <4> QED BY <4>1, <4>3, <4>4, <4>5
    <3>2. CASE m + 1 \notin s /\ s # {}
      <4>1. s \in SUBSET (1..m) /\ A!Max(s) \in s
        BY <2>2, <3>2, LastIn
      <4>2. s \ {A!Max(s)} \in SUBSET (1..(m + 1)) /\ m + 1 \notin s \ {A!Max(s)}
        BY <3>2
      <4>3. g[s \ {A!Max(s)}] = f[s \ {A!Max(s)}]
        BY <4>2
      <4>4. g[s] = f[s]
        BY <3>2
      <4>5. f[s] = Turn(f[s \ {A!Max(s)}], A!Max(s))
        BY <2>1, <3>2, <4>1
      <4>6. G[s] = Turn(g[s \ {A!Max(s)}], A!Max(s))
        BY <3>2
      <4> HIDE DEF g, G
      <4> QED BY <4>3, <4>4, <4>5, <4>6
    <3>3. CASE s = {}
      <4>1. {} \in SUBSET (1..m) /\ m + 1 \notin s
        BY <3>3
      <4>2. f[{}] = w
        BY <2>1, <4>1
      <4>3. g[s] = f[s] /\ G[s] = w
        BY <3>3, <4>1
      <4> HIDE DEF g, G
      <4> QED BY <3>3, <4>2, <4>3
    <3> QED BY <3>1, <3>2, <3>3
  <2>4. g = G
    <3> HIDE DEF Recursion
    <3>1. g = [s \in SUBSET (1..(m + 1)) |-> g[s]] /\ G = [s \in SUBSET (1..(m + 1)) |-> G[s]]
      OBVIOUS
    <3> HIDE DEF g, G
    <3> QED BY <2>3, <3>1, Zenon
  <2>5. Recursion(m + 1, g)
    BY <2>4, Zenon
  <2> HIDE DEF g, G, Recursion
  <2> QED BY <2>5
<1>4. n \in T
  <2> HIDE DEF T
  <2> QED BY <1>2, <1>3, NaturalInduction
<1>5. Recursion(n, F)
  <2> HIDE DEF Recursion
  <2>1. \E f : Recursion(n, f)
    BY <1>4
  <2> QED BY <2>1, Zenon
<1> HIDE DEF F, T
<1>6. F[{}] = w
  <2>1. {} \in SUBSET (1..n)
    OBVIOUS
  <2> QED BY <1>5, <2>1
<1>7. ASSUME NEW i \in 1..n
      PROVE  F[1..i] = Turn(F[1..(i - 1)], i)
  <2>5. i \in Nat /\ i \in 1..i
    OBVIOUS
  <2>6. 1..i \in SUBSET (1..n)
    OBVIOUS
  <2>1. i \in Nat /\ i \in 1..i /\ 1..i \in SUBSET (1..n) /\ 1..i # {}
    BY <2>5, <2>6
  <2>2. A!Max(1..i) = i
    BY <2>1, LastIs
  <2>3. (1..i) \ {i} = 1..(i - 1)
    BY <2>1
  <2>4. F[1..i] = Turn(F[(1..i) \ {A!Max(1..i)}], A!Max(1..i))
    BY <1>5, <2>1
  <2> QED BY <2>2, <2>3, <2>4
<1> HIDE DEF Recursion
<1> DEFINE h == [i \in 0..n |-> F[1..i]]
<1>8. h[0] = w /\ h[n] = F[1..n]
  <2>1. 1..0 = {} /\ 0 \in 0..n /\ n \in 0..n
    OBVIOUS
  <2> QED BY <1>6, <2>1
<1>9. ASSUME NEW i \in 1..n
      PROVE  h[i] = Turn(h[i - 1], i)
  <2>1. i \in 0..n /\ i - 1 \in 0..n
    OBVIOUS
  <2> QED BY <1>7, <2>1
<1> HIDE DEF h
<1> QED BY <1>1, <1>8, <1>9 DEF Turn, last, Found

\* Descriptors makes different ones, with values, of what has a value.
LEMMA DescriptorsAreWhole ==
    ASSUME Holds(containers, alias), Blank \notin A!Range(containers)
    PROVE  Whole(A!Descriptors)
<1> DEFINE n == Len(Channels)
<1>1. n \in Nat /\ DOMAIN Channels = 1..n /\ \A i \in 1..n : Channels[i] \in A!ChannelIds
  BY ArchiveAssumed DEF A!ArchiveAssumption, A!ChannelIds
<1>2. \A i, j \in 1..n : Channels[i] = Channels[j] => i = j
  BY <1>1, ArchiveAssumed DEF A!ArchiveAssumption, A!IsInjective
<1> HIDE DEF n
<1>3. PICK h : Found(n, h)
  BY <1>1, FindsDescriptors
<1> DEFINE Good(i) == /\ Whole(h[i])
                      /\ \A k \in DOMAIN h[i] : \E j \in 1..i : h[i][k].id = Channels[j]
           T == {i \in Nat : i <= n => Good(i)}
<1>4. 0 \in T
  <2>1. h[0] = <<>>
    BY <1>3 DEF Found
  <2>2. <<>> \in Seq(Entries) /\ DOMAIN <<>> = {}
    OBVIOUS
  <2> QED BY <2>1, <2>2 DEF Whole
<1>5. ASSUME NEW i \in 0..n, i < n, i \in T
      PROVE  i + 1 \in T
  <2>1. i + 1 \in 1..n /\ i + 1 \in Nat /\ (i + 1) - 1 = i /\ Good(i)
    BY <1>1, <1>5
  <2> DEFINE c == Channels[i + 1]
             s == h[i]
             t == h[i + 1]
  <2>2. t = IF c \in DOMAIN containers THEN Append(s, A!Descriptor(c)) ELSE s
    BY <1>3, <2>1 DEF Found
  <2>3. Whole(s) /\ \A k \in DOMAIN s : \E j \in 1..i : s[k].id = Channels[j]
    BY <2>1
  <2>4. c \in A!ChannelIds /\ \A j \in 1..i : Channels[j] # c
    BY <1>1, <1>2, <2>1
  <2>5. Good(i + 1)
    <3> HIDE DEF c, s, Good
    <3>1. CASE c \notin DOMAIN containers
      <4>1. t = s
        BY <2>2, <3>1
      <4> HIDE DEF t
      <4>2. Whole(t) /\ \A k \in DOMAIN t : \E j \in 1..(i + 1) : t[k].id = Channels[j]
        BY <2>3, <4>1
      <4> QED BY <4>2 DEF Good, t
    <3>2. CASE c \in DOMAIN containers
      <4> DEFINE d == A!Descriptor(c)
      <4>1. containers[c] \in Contents /\ containers[c] # Blank /\ A!Named(c) \in AllNames
        BY <2>4, <3>2 DEF Holds, A!Range, A!Named, AllNames
      <4>2. d \in Entries /\ d.id = c /\ d.value # Blank
        BY <2>4, <4>1 DEF A!Descriptor, Entries
      <4>3. t = Append(s, d)
        BY <2>2, <3>2
      <4> HIDE DEF d, t
      <4>4. /\ t \in Seq(Entries) /\ Len(s) \in Nat /\ DOMAIN s = 1..Len(s)
            /\ DOMAIN t = 1..(Len(s) + 1) /\ t[Len(s) + 1] = d
            /\ \A k \in 1..Len(s) : t[k] = s[k]
        BY <2>3, <4>2, <4>3 DEF Whole
      <4>5. \A k \in 1..Len(s) : t[k].id # c
        BY <2>3, <2>4, <4>4
      <4>6. \A k, l \in DOMAIN t : t[k].id = t[l].id => k = l
        <5> SUFFICES ASSUME NEW k \in DOMAIN t, NEW l \in DOMAIN t, t[k].id = t[l].id
                     PROVE  k = l
          OBVIOUS
        <5>1. CASE k \in 1..Len(s) /\ l \in 1..Len(s)
          BY <2>3, <4>4, <5>1 DEF Whole
        <5>2. CASE ~ (k \in 1..Len(s) /\ l \in 1..Len(s))
          BY <4>2, <4>4, <4>5, <5>2
        <5> QED BY <5>1, <5>2
      <4>7. Whole(t)
        BY <2>3, <4>2, <4>4, <4>6 DEF Whole
      <4>8. \A k \in DOMAIN t : \E j \in 1..(i + 1) : t[k].id = Channels[j]
        BY <2>1, <2>3, <4>2, <4>4 DEF c
      <4> QED BY <4>7, <4>8 DEF Good, t
    <3> QED BY <3>1, <3>2
  <2> HIDE DEF Good
  <2> QED BY <2>1, <2>5
<1>6. 0..n \subseteq T
  <2> HIDE DEF T
  <2> QED BY <1>1, <1>4, <1>5, BoundedInduction
<1>7. Whole(h[n])
  BY <1>1, <1>6
<1> QED BY <1>3, <1>7 DEF Found

-----------------------------------------------------------------------------
(* The project's maps.                                                     *)

\* Over, and what it keeps.
LEMMA OverIs ==
    ASSUME NEW f, NEW g
    PROVE  /\ DOMAIN A!Over(f, g) = DOMAIN f \cup DOMAIN g
           /\ \A id \in DOMAIN f : A!Over(f, g)[id] = f[id]
           /\ \A id \in DOMAIN g \ DOMAIN f : A!Over(f, g)[id] = g[id]
BY DEF A!Over

\* What ids are sequences of.
IdParts == UNION {A!ToSet(id) : id \in A!ChannelIds}

\* Each of the channels.
LEMMA IdsAreSequences == \A id \in A!ChannelIds : id \in Seq(IdParts)
<1> SUFFICES ASSUME NEW id \in A!ChannelIds PROVE id \in Seq(IdParts)
  OBVIOUS
<1>1. id \in Seq(A!ToSet(id)) /\ A!ToSet(id) \subseteq IdParts
  BY ArchiveAssumed DEF A!ArchiveAssumption, A!ChannelIds, IdParts
<1> QED BY <1>1

\* Below one root, different channels stay different.
LEMMA RootIsCut ==
    ASSUME NEW root, NEW a \in A!ChannelIds, NEW b \in A!ChannelIds,
           <<root>> \o a = <<root>> \o b
    PROVE  a = b
<1>1. a \in Seq(IdParts) /\ b \in Seq(IdParts)
  BY IdsAreSequences
<1> QED BY <1>1

\* c has the field of each element of s, below a root.
IsBelow(c, root, s, field) ==
    /\ DOMAIN c = {<<root>> \o s[i].id : i \in DOMAIN s}
    /\ \A i \in DOMAIN s : c[<<root>> \o s[i].id] = s[i][field]

\* What is published below a root.
LEMMA BelowIs ==
    ASSUME NEW s, Whole(s), NEW root, NEW field
    PROVE  IsBelow(A!Below(root, s, field), root, s, field)
<1>1. DOMAIN A!Below(root, s, field) = {<<root>> \o s[i].id : i \in DOMAIN s}
  BY DEF A!Below
<1>2. ASSUME NEW i \in DOMAIN s
      PROVE  A!Below(root, s, field)[<<root>> \o s[i].id] = s[i][field]
  <2> DEFINE id == <<root>> \o s[i].id
             e == CHOOSE e \in A!ToSet(s) : <<root>> \o e.id = id
  <2>1. A!Below(root, s, field)[id] = e[field]
    BY <1>2 DEF A!Below
  <2>2. e \in A!ToSet(s) /\ <<root>> \o e.id = id
    <3>1. s[i] \in A!ToSet(s) /\ <<root>> \o s[i].id = id
      BY <1>2 DEF A!ToSet
    <3> QED BY <3>1
  <2>3. PICK j \in DOMAIN s : s[j] = e
    BY <2>2 DEF A!ToSet
  <2> HIDE DEF e
  <2>7. s[i] \in Entries /\ s[j] \in Entries
    BY <2>3 DEF Whole
  <2>4. /\ s[i].id \in A!ChannelIds /\ s[j].id \in A!ChannelIds
        /\ <<root>> \o s[j].id = <<root>> \o s[i].id
    BY <2>2, <2>3, <2>7 DEF Entries
  <2>5. s[j].id = s[i].id
    BY <2>4, RootIsCut
  <2>6. j = i
    BY <2>5 DEF Whole
  <2> QED BY <2>1, <2>3, <2>6
<1> QED BY <1>1, <1>2 DEF IsBelow

\* What an import publishes: m channels, up to the first that cannot be read.
FirstOf(s, m) ==
    /\ m \in 0..Len(kept) /\ s \in Seq(Entries) /\ DOMAIN s = 1..m
    /\ \A i \in 1..m : s[i] = kept[i] /\ kept[i].value \notin Huge
    /\ m = Len(kept) \/ m = archive.payloads \/ kept[m + 1].value \in Huge

\* There are as many as can be.
LEMMA PublishedIs ==
    ASSUME Whole(kept), NEW n \in 0..Len(kept), archive = [channels |-> kept, payloads |-> n]
    PROVE  \E m \in 0..Len(kept) : FirstOf(A!Published, m)
<1> DEFINE l == Len(kept)
           Stops == {k \in Nat : k = l \/ ~ A!Readable(k + 1)}
           upTo == {k \in 0..l : \A i \in 1..k : A!Readable(i)}
           M == CHOOSE k \in upTo : \A j \in upTo : j <= k
<1>1. l \in Nat /\ DOMAIN kept = 1..l /\ kept \in Seq(Entries)
  BY DEF Whole
<1>2. archive.channels = kept /\ archive.payloads = n
  OBVIOUS
<1>3. \A i : A!Readable(i) <=> i <= n /\ kept[i].value \notin Huge
  BY <1>2 DEF A!Readable
<1>4. A!Published = SubSeq(kept, 1, M)
  BY <1>2 DEF A!Published
<1> HIDE DEF l, M
<1>5. Stops \subseteq Nat /\ Stops # {}
  BY <1>1
<1>6. PICK m \in Stops : \A k \in Stops : ~ (k < m)
  <2> HIDE DEF Stops
  <2> QED BY <1>5, LeastNatural
<1>7. m \in 0..l /\ \A i \in 1..m : A!Readable(i)
  <2>1. l \in Stops
    BY <1>1
  <2>2. m \in 0..l
    BY <1>1, <1>6, <2>1
  <2>3. ASSUME NEW i \in 1..m PROVE A!Readable(i)
    <3>1. i - 1 \in Nat /\ i - 1 < m /\ (i - 1) + 1 = i
      BY <1>6
    <3>2. i - 1 \notin Stops
      BY <1>6, <3>1
    <3> QED BY <3>1, <3>2
  <2> QED BY <2>2, <2>3
<1>8. m \in upTo /\ \A k \in upTo : k <= m
  <2>1. ASSUME NEW k \in upTo, ~ (k <= m) PROVE FALSE
    <3>1. m + 1 \in 1..k /\ m # l
      BY <1>1, <1>7, <2>1
    <3>2. A!Readable(m + 1)
      BY <2>1, <3>1
    <3> QED BY <1>6, <3>1, <3>2
  <2> QED BY <1>7, <2>1
<1>9. M = m
  <2>1. M \in upTo /\ \A j \in upTo : j <= M
    BY <1>8 DEF M
  <2>2. M \in Nat /\ m \in Nat
    BY <1>1, <1>7, <2>1
  <2> QED BY <1>8, <2>1, <2>2
<1> DEFINE s == SubSeq(kept, 1, m)
<1>10. s \in Seq(Entries) /\ DOMAIN s = 1..m /\ \A i \in 1..m : s[i] = kept[i]
  BY <1>1, <1>7
<1>11. A!Published = s
  BY <1>4, <1>9
<1> HIDE DEF s
<1>12. m = l \/ m = n \/ kept[m + 1].value \in Huge
  <2> SUFFICES ASSUME m # l, kept[m + 1].value \notin Huge PROVE m = n
    OBVIOUS
  <2>1. ~ (m + 1 <= n)
    BY <1>3, <1>6
  <2>2. m > 0 => m <= n
    BY <1>1, <1>3, <1>7
  <2> QED BY <1>1, <1>7, <2>1, <2>2
<1>13. FirstOf(s, m)
  BY <1>1, <1>2, <1>3, <1>7, <1>10, <1>12 DEF FirstOf, l
<1> QED BY <1>7, <1>11, <1>13 DEF l

-----------------------------------------------------------------------------
(* The invariant.                                                          *)

\* A project is still one with some more channels.
LEMMA HoldsMore ==
    ASSUME NEW f, NEW g, Holds(f, g), NEW c, NEW a, DOMAIN a \subseteq DOMAIN f \cup DOMAIN c,
           DOMAIN c \subseteq A!ChannelIds,
           \A id \in DOMAIN c : c[id] \in Contents, \A id \in DOMAIN a : a[id] \in AllNames
    PROVE  Holds(A!Over(c, f), A!Over(a, g))
<1>1. /\ DOMAIN A!Over(c, f) = DOMAIN c \cup DOMAIN f
      /\ \A id \in DOMAIN c : A!Over(c, f)[id] = c[id]
      /\ \A id \in DOMAIN f \ DOMAIN c : A!Over(c, f)[id] = f[id]
  BY OverIs
<1>2. /\ DOMAIN A!Over(a, g) = DOMAIN a \cup DOMAIN g
      /\ \A id \in DOMAIN a : A!Over(a, g)[id] = a[id]
      /\ \A id \in DOMAIN g \ DOMAIN a : A!Over(a, g)[id] = g[id]
  BY OverIs
<1> QED BY <1>1, <1>2 DEF Holds

\* An import publishes what was kept, below its root.
LEMMA ImportBrings ==
    ASSUME ArchiveInv, NEW root, A!Import(root)
    PROVE  \E m \in 0..Len(kept) :
              /\ FirstOf(A!Published, m)
              /\ \A i \in 1..m : <<root>> \o kept[i].id \in A!ChannelIds
<1>1. archive # None /\ archive.payloads >= 0 /\ A!Fits(root, archive.channels)
  BY DEF A!Import
<1>2. PICK n \in -1..Len(kept) : archive = [channels |-> kept, payloads |-> n]
  BY <1>1 DEF ArchiveInv
<1>3. Whole(kept) /\ kept \in Seq(Entries) /\ Len(kept) \in Nat
  BY DEF ArchiveInv, Whole
<1>4. n \in 0..Len(kept)
  BY <1>1, <1>2, <1>3
<1>5. PICK m \in 0..Len(kept) : FirstOf(A!Published, m)
  BY <1>2, <1>3, <1>4, PublishedIs
<1>6. \A i \in DOMAIN kept : <<root>> \o kept[i].id \in A!ChannelIds
  BY <1>1, <1>2 DEF A!Fits
<1>7. 1..m \subseteq DOMAIN kept
  BY <1>3, <1>5
<1> QED BY <1>5, <1>6, <1>7

\* What FirstOf has is whole.
LEMMA FirstIsWhole ==
    ASSUME Whole(kept), NEW s, NEW m \in 0..Len(kept), FirstOf(s, m)
    PROVE  Whole(s)
<1>1. DOMAIN s = 1..m /\ s \in Seq(Entries) /\ \A i \in 1..m : s[i] = kept[i] /\ i \in DOMAIN kept
  BY DEF FirstOf, Whole
<1> QED BY <1>1 DEF Whole

\* c has the field of the first m that were kept.
Has(c, root, m, field) ==
    /\ DOMAIN c = {<<root>> \o kept[i].id : i \in 1..m}
    /\ \A i \in 1..m : c[<<root>> \o kept[i].id] = kept[i][field]

\* What is published of them.
LEMMA FirstBelow ==
    ASSUME Whole(kept), NEW s, NEW m \in 0..Len(kept), FirstOf(s, m), NEW root, NEW field
    PROVE  Has(A!Below(root, s, field), root, m, field)
<1> DEFINE c == A!Below(root, s, field)
<1>1. IsBelow(c, root, s, field)
  BY FirstIsWhole, BelowIs
<1>2. DOMAIN s = 1..m /\ \A i \in 1..m : s[i] = kept[i]
  BY DEF FirstOf
<1> HIDE DEF c
<1>3. {<<root>> \o s[i].id : i \in DOMAIN s} = {<<root>> \o kept[i].id : i \in 1..m}
  BY <1>2
<1>4. \A i \in 1..m : c[<<root>> \o kept[i].id] = kept[i][field]
  <2> SUFFICES ASSUME NEW i \in 1..m PROVE c[<<root>> \o kept[i].id] = kept[i][field]
    OBVIOUS
  <2>1. c[<<root>> \o s[i].id] = s[i][field]
    BY <1>1, <1>2 DEF IsBelow
  <2> QED BY <1>2, <2>1
<1> QED BY <1>1, <1>3, <1>4 DEF c, Has, IsBelow

\* Nothing is there at first.
LEMMA FirstArchiveInv == A!Init => ArchiveInv
<1> SUFFICES ASSUME A!Init PROVE ArchiveInv
  OBVIOUS
<1>1. <<>> \in Seq(Entries) /\ DOMAIN <<>> = {}
  OBVIOUS
<1> QED BY <1>1 DEF A!Init, ArchiveInv, Holds, Whole

\* Every action keeps the invariant.
LEMMA ArchiveInvKept == ArchiveInv /\ [A!Next]_(A!archiveVars) => ArchiveInv'
<1> SUFFICES ASSUME ArchiveInv, [A!Next]_(A!archiveVars) PROVE ArchiveInv'
  OBVIOUS
<1>1. /\ Holds(containers, alias) /\ Whole(kept)
      /\ archive # None => \E n \in -1..Len(kept) : archive = [channels |-> kept, payloads |-> n]
  BY DEF ArchiveInv
<1>2. ASSUME NEW id \in A!ChannelIds, NEW v \in Contents, A!Publish(id, v) PROVE ArchiveInv'
  <2> DEFINE c == [i \in {id} |-> v]
  <2>1. containers' = A!Over(c, containers) /\ UNCHANGED <<alias, archive, kept>>
    BY <1>2 DEF A!Publish
  <2>2. DOMAIN c = {id} /\ c[id] = v
    OBVIOUS
  <2> HIDE DEF c
  <2>3. Holds(A!Over(c, containers), A!Over(<<>>, alias))
    <3>1. DOMAIN <<>> = {}
      OBVIOUS
    <3> QED BY <1>1, <2>2, <3>1, HoldsMore
  <2>4. Holds(A!Over(c, containers), alias)
    <3>1. /\ DOMAIN A!Over(c, containers) = DOMAIN c \cup DOMAIN containers
          /\ \A i \in DOMAIN c : A!Over(c, containers)[i] = c[i]
          /\ \A i \in DOMAIN containers \ DOMAIN c : A!Over(c, containers)[i] = containers[i]
      BY OverIs
    <3> QED BY <1>1, <2>2, <3>1 DEF Holds
  <2> QED BY <1>1, <2>1, <2>4 DEF ArchiveInv
<1>3. ASSUME NEW id \in A!ChannelIds, NEW name \in Names, A!SetAlias(id, name) PROVE ArchiveInv'
  <2> DEFINE a == [i \in {id} |-> name]
  <2>1. /\ alias' = A!Over(a, alias) /\ UNCHANGED <<containers, archive, kept>>
        /\ id \in DOMAIN containers
    BY <1>3 DEF A!SetAlias
  <2>2. DOMAIN a = {id} /\ a[id] \in AllNames
    BY DEF AllNames
  <2> HIDE DEF a
  <2>3. /\ DOMAIN A!Over(a, alias) = DOMAIN a \cup DOMAIN alias
        /\ \A i \in DOMAIN a : A!Over(a, alias)[i] = a[i]
        /\ \A i \in DOMAIN alias \ DOMAIN a : A!Over(a, alias)[i] = alias[i]
    BY OverIs
  <2>4. Holds(containers, A!Over(a, alias))
    BY <1>1, <2>1, <2>2, <2>3 DEF Holds
  <2> QED BY <1>1, <2>1, <2>4 DEF ArchiveInv
<1>4. CASE A!CloseProject
  <2>1. containers' = <<>> /\ alias' = <<>> /\ UNCHANGED <<archive, kept>>
    BY <1>4 DEF A!CloseProject
  <2>2. Holds(<<>>, <<>>)
    <3>1. DOMAIN <<>> = {}
      OBVIOUS
    <3> QED BY <3>1 DEF Holds
  <2> QED BY <1>1, <2>1, <2>2 DEF ArchiveInv
<1>5. CASE A!ExportAll
  <2>1. CASE UNCHANGED <<containers, alias, archive, kept>>
    BY <1>1, <2>1 DEF ArchiveInv
  <2>2. CASE /\ Blank \notin A!Range(containers) /\ A!Replaces(A!Descriptors)
             /\ kept' = IF archive' = archive THEN kept ELSE A!Descriptors
             /\ UNCHANGED <<containers, alias>>
    <3>1. Whole(A!Descriptors)
      BY <1>1, <2>2, DescriptorsAreWhole
    <3>2. CASE archive' = archive
      <4>1. kept' = kept
        BY <2>2, <3>2
      <4> QED BY <1>1, <2>2, <3>2, <4>1 DEF ArchiveInv
    <3>3. CASE archive' # archive
      <4>1. kept' = A!Descriptors
        BY <2>2, <3>3
      <4>2. archive' = [channels |-> A!Descriptors, payloads |-> Len(A!Descriptors)]
        BY <2>2, <3>3 DEF A!Replaces
      <4>3. Len(A!Descriptors) \in -1..Len(A!Descriptors)
        <5>1. A!Descriptors \in Seq(Entries)
          BY <3>1 DEF Whole
        <5> QED BY <5>1
      <4>4. \E n \in -1..Len(kept') : archive' = [channels |-> kept', payloads |-> n]
        BY <4>1, <4>2, <4>3
      <4>5. Whole(kept') /\ Holds(containers', alias')
        BY <1>1, <2>2, <3>1, <4>1
      <4> QED BY <4>4, <4>5 DEF ArchiveInv
    <3> QED BY <3>2, <3>3
  <2> QED BY <1>5, <2>1, <2>2 DEF A!ExportAll
<1>6. CASE A!CutShort
  <2>1. archive # None /\ UNCHANGED <<containers, alias, kept>>
    BY <1>6 DEF A!CutShort
  <2>2. PICK k \in -1..archive.payloads : archive' = [archive EXCEPT !.payloads = k]
    BY <1>6 DEF A!CutShort
  <2>3. PICK n \in -1..Len(kept) : archive = [channels |-> kept, payloads |-> n]
    BY <1>1, <2>1
  <2>4. Len(kept) \in Nat
    BY <1>1 DEF Whole
  <2>5. k \in -1..Len(kept) /\ archive' = [channels |-> kept, payloads |-> k]
    BY <2>2, <2>3, <2>4
  <2> QED BY <1>1, <2>1, <2>5 DEF ArchiveInv
<1>7. ASSUME NEW root \in Roots, A!Import(root) PROVE ArchiveInv'
  <2>1. /\ containers' = A!Over(A!Below(root, A!Published, "value"), containers)
        /\ alias' = A!Over(A!Below(root, A!Published, "name"), alias)
        /\ UNCHANGED <<archive, kept>>
    BY <1>7 DEF A!Import
  <2>2. PICK m \in 0..Len(kept) : /\ FirstOf(A!Published, m)
                                  /\ \A i \in 1..m : <<root>> \o kept[i].id \in A!ChannelIds
    BY <1>7, ImportBrings
  <2> DEFINE c == A!Below(root, A!Published, "value")
             a == A!Below(root, A!Published, "name")
  <2>3. Has(c, root, m, "value") /\ Has(a, root, m, "name")
    BY <1>1, <2>2, FirstBelow
  <2>4. \A i \in 1..m : kept[i] \in Entries
    BY <1>1, <2>2 DEF Whole
  <2>5. \A i \in 1..m : kept[i]["value"] \in Contents /\ kept[i]["name"] \in AllNames
    BY <2>4 DEF Entries
  <2> HIDE DEF c, a
  <2>6. /\ DOMAIN c \subseteq A!ChannelIds /\ DOMAIN a = DOMAIN c
        /\ \A id \in DOMAIN c : c[id] \in Contents
        /\ \A id \in DOMAIN a : a[id] \in AllNames
    BY <2>2, <2>3, <2>5 DEF Has
  <2>7. Holds(A!Over(c, containers), A!Over(a, alias))
    BY <1>1, <2>6, HoldsMore
  <2> QED BY <1>1, <2>1, <2>7 DEF ArchiveInv, c, a
<1>8. CASE UNCHANGED A!archiveVars
  BY <1>1, <1>8 DEF A!archiveVars, ArchiveInv
<1> QED BY <1>2, <1>3, <1>4, <1>5, <1>6, <1>7, <1>8 DEF A!Next

\* It is what is promised.
LEMMA ArchiveInvImplies == ArchiveInv => A!TypeOK
<1> SUFFICES ASSUME ArchiveInv PROVE A!TypeOK
  OBVIOUS
<1>1. /\ Holds(containers, alias) /\ Whole(kept)
      /\ archive # None => \E n \in -1..Len(kept) : archive = [channels |-> kept, payloads |-> n]
  BY DEF ArchiveInv
<1>2. A!Range(containers) \subseteq Contents
  BY <1>1 DEF Holds, A!Range
<1>3. ASSUME archive # None
      PROVE  /\ archive.payloads \in -1..Len(archive.channels)
             /\ \A i \in DOMAIN archive.channels : archive.channels[i].value # Blank
  <2>1. PICK n \in -1..Len(kept) : archive = [channels |-> kept, payloads |-> n]
    BY <1>1, <1>3
  <2>2. archive.channels = kept /\ archive.payloads = n
    BY <2>1
  <2> QED BY <1>1, <2>2 DEF Whole
<1> QED BY <1>1, <1>2, <1>3 DEF A!TypeOK, Holds

\* What an import leaves and brings, of its m channels.
Brings(root, m) ==
    LET new == {<<root>> \o kept[i].id : i \in 1..m}
    IN  /\ m = Len(kept) \/ m = archive.payloads \/ kept[m + 1].value \in Huge
        /\ \A i \in 1..m : LET id == <<root>> \o kept[i].id IN
              /\ id \in DOMAIN containers' /\ containers'[id] = kept[i].value
              /\ kept[i].value \notin Huge
              /\ alias'[id] = kept[i].name
        /\ \A id \in A!ChannelIds \ new :
              /\ id \in DOMAIN containers <=> id \in DOMAIN containers'
              /\ id \in DOMAIN containers => containers'[id] = containers[id]
              /\ id \in DOMAIN alias <=> id \in DOMAIN alias'

\* Each import.
LEMMA ImportIs ==
    ASSUME ArchiveInv, NEW root, A!Import(root)
    PROVE  \E m \in 0..Len(kept) : Brings(root, m)
<1>1. /\ containers' = A!Over(A!Below(root, A!Published, "value"), containers)
      /\ alias' = A!Over(A!Below(root, A!Published, "name"), alias)
  BY DEF A!Import
<1>2. PICK m \in 0..Len(kept) : FirstOf(A!Published, m)
  BY ImportBrings
<1> DEFINE c == A!Below(root, A!Published, "value")
           a == A!Below(root, A!Published, "name")
           new == {<<root>> \o kept[i].id : i \in 1..m}
<1>3. Whole(kept) /\ kept \in Seq(Entries)
  BY DEF ArchiveInv, Whole
<1>4. /\ \A i \in 1..m : kept[i].value \notin Huge
      /\ m = Len(kept) \/ m = archive.payloads \/ kept[m + 1].value \in Huge
  BY <1>2 DEF FirstOf
<1>5. Has(c, root, m, "value") /\ Has(a, root, m, "name")
  BY <1>2, <1>3, FirstBelow
<1>7. /\ DOMAIN A!Over(c, containers) = DOMAIN c \cup DOMAIN containers
      /\ \A id \in DOMAIN c : A!Over(c, containers)[id] = c[id]
      /\ \A id \in DOMAIN containers \ DOMAIN c : A!Over(c, containers)[id] = containers[id]
  BY OverIs
<1>8. /\ DOMAIN A!Over(a, alias) = DOMAIN a \cup DOMAIN alias
      /\ \A id \in DOMAIN a : A!Over(a, alias)[id] = a[id]
      /\ \A id \in DOMAIN alias \ DOMAIN a : A!Over(a, alias)[id] = alias[id]
  BY OverIs
<1>9. containers' = A!Over(c, containers) /\ alias' = A!Over(a, alias)
  BY <1>1
<1> HIDE DEF c, a
<1>10. /\ DOMAIN c = new /\ DOMAIN a = new
       /\ \A i \in 1..m : /\ c[<<root>> \o kept[i].id] = kept[i]["value"]
                          /\ a[<<root>> \o kept[i].id] = kept[i]["name"]
                          /\ <<root>> \o kept[i].id \in new
  BY <1>5 DEF Has
<1>11. \A i \in 1..m : kept[i]["value"] = kept[i].value /\ kept[i]["name"] = kept[i].name
  <2>1. \A i \in 1..m : kept[i] \in Entries
    BY <1>3
  <2> QED BY <2>1 DEF Entries
<1>12. ASSUME NEW i \in 1..m
       PROVE  LET id == <<root>> \o kept[i].id IN
                 /\ id \in DOMAIN containers' /\ containers'[id] = kept[i].value
                 /\ kept[i].value \notin Huge
                 /\ alias'[id] = kept[i].name
  <2> DEFINE id == <<root>> \o kept[i].id
  <2>1. id \in new /\ c[id] = kept[i].value /\ a[id] = kept[i].name
    BY <1>10, <1>11
  <2> HIDE DEF id, new
  <2>2. id \in DOMAIN containers' /\ containers'[id] = kept[i].value /\ alias'[id] = kept[i].name
    BY <1>7, <1>8, <1>9, <1>10, <2>1
  <2> QED BY <1>4, <2>2 DEF id
<1>13. \A id \in A!ChannelIds \ new :
          /\ id \in DOMAIN containers <=> id \in DOMAIN containers'
          /\ id \in DOMAIN containers => containers'[id] = containers[id]
          /\ id \in DOMAIN alias <=> id \in DOMAIN alias'
  <2> HIDE DEF new
  <2> QED BY <1>7, <1>8, <1>9, <1>10
<1>14. Brings(root, m)
  BY <1>4, <1>12, <1>13 DEF Brings
<1> QED BY <1>14

\* Every step.
LEMMA ImportsArePrefixes ==
    ArchiveInv =>
        \A root \in Roots : A!Import(root) => \E k \in 0..Len(kept) : Brings(root, k)
BY ImportIs

-----------------------------------------------------------------------------
(* The instance.                                                           *)

\* A behaviour of the instance is one of the registry and one of the archive.
LEMMA EveryPart == MCSpec => P!Spec /\ A!Spec
<1>1. MCInit => P!Init /\ A!Init
  BY DEF MCInit
<1>2. [MCNext]_mcVars => [P!Next]_(P!vars)
  BY DEF MCNext, ConnectorNext, LayoutNext, PlotNext, WildcardNext, ArchiveNext,
         mcVars, plotVars, P!vars
<1>3. [MCNext]_mcVars => [A!Next]_(A!archiveVars)
  BY DEF MCNext, ConnectorNext, LayoutNext, PlotNext, WildcardNext, ArchiveNext,
         mcVars, archiveVars, A!archiveVars
<1> QED BY <1>1, <1>2, <1>3, PTL DEF MCSpec, P!Spec, A!Spec

\* Two open plots never have one name, and the registry points to open plots
\* only (PlotsAreKnown, of DataRegistry.cpp).
THEOREM PlotsStayKnown == MCSpec => []PlotsAreKnown
<1>1. P!Spec => []PlotInv
  BY FirstPlotInv, PlotInvKept, PTL DEF P!Spec
<1>2. PlotInv => PlotsAreKnown
  BY PlotInvImplies DEF PlotsAreKnown
<1> QED BY <1>1, <1>2, EveryPart, PTL

\* An import brings back the channels before the first that cannot be read,
\* and changes nothing else (LabDataArchive.cpp).
THEOREM ImportsBringPrefixes == MCSpec => ImportIsAPrefix
<1>1. A!Spec => []ArchiveInv
  BY FirstArchiveInv, ArchiveInvKept, PTL DEF A!Spec
<1>2. ArchiveInv /\ [A!Next]_(A!archiveVars) =>
        [\A root \in Roots : A!Import(root) =>
            \E k \in 0..Len(kept) : Brings(root, k)]_(A!archiveVars)
  BY ImportsArePrefixes
<1> QED BY <1>1, <1>2, EveryPart, PTL DEF A!Spec, ImportIsAPrefix, A!ImportIsAPrefix, Brings
=============================================================================
