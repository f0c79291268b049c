------------------------------ MODULE Induction ------------------------------
(***************************************************************************)
(* Induction over the natural numbers, without operator parameters, and    *)
(* what it says about FoldLeft of the community modules.                   *)
(*                                                                         *)
(* A set of naturals stands for the predicate of an induction.  A fold is  *)
(* a recursive function on the sets of indices, defined by CHOOSE:         *)
(* FoldExists gives a function that satisfies the recursion, from which    *)
(* the one that was chosen does too, and FoldPrefixes reads it as the      *)
(* sequence of the values after 0, 1, ..., N elements.  step[<<i, r>>] is  *)
(* the value after element i when it was r before.                         *)
(***************************************************************************)
EXTENDS Naturals, FiniteSetsExt, WellFoundedInduction, TLAPS

\* The value after each element, from the value before it.
Turns(N, S) == [(1..N) \X S -> S]

\* g satisfies the recursion of a fold, with values in S.
IsFold(g, S, N, base, step) ==
    /\ g \in [SUBSET (1..N) -> S]
    /\ \A s \in SUBSET (1..N) :
          g[s] = IF s = {} THEN base ELSE step[<<Max(s), g[s \ {Max(s)}]>>]

\* F does, where its values are in S.
Follows(F, S, N, base, step) ==
    /\ F[{}] = base
    /\ \A s \in SUBSET (1..N) :
          s # {} /\ F[s \ {Max(s)}] \in S => F[s] = step[<<Max(s), F[s \ {Max(s)}]>>]

\* h[i] is the value after i elements.
ArePrefixes(h, S, N, base, step) ==
    /\ h \in [0..N -> S]
    /\ h[0] = base
    /\ \A i \in 1..N : h[i] = step[<<i, h[i - 1]>>]

\* A set of naturals that is not empty has a least element.
LEMMA LeastNatural ==
    ASSUME NEW T, T \subseteq Nat, T # {}
    PROVE  \E n \in T : \A m \in T : ~ (m < n)
<1>1. IsWellFoundedOn(OpToRel(<, Nat), Nat)
  BY NatLessThanWellFounded
<1>2. \E n \in T : \A m \in T : ~ (<<m, n>> \in OpToRel(<, Nat))
  BY <1>1, WFMin
<1> QED BY <1>2 DEF OpToRel

\* A set that has 0, and n + 1 with every n, has every natural number.
LEMMA NaturalInduction ==
    ASSUME NEW T, 0 \in T, \A n \in Nat : n \in T => n + 1 \in T
    PROVE  Nat \subseteq T
<1>1. SUFFICES ASSUME Nat \ T # {} PROVE FALSE
  OBVIOUS
<1>2. PICK n \in Nat \ T : \A m \in Nat \ T : ~ (m < n)
  BY <1>1, LeastNatural
<1>3. n # 0 /\ n - 1 \in Nat /\ n - 1 < n
  BY <1>2
<1>4. (n - 1) + 1 \in T
  BY <1>2, <1>3
<1> QED BY <1>3, <1>4

\* The same up to a bound.
LEMMA BoundedInduction ==
    ASSUME NEW N \in Nat, NEW T, 0 \in T, \A n \in 0..N : n < N /\ n \in T => n + 1 \in T
    PROVE  0..N \subseteq T
<1> DEFINE U == {n \in Nat : n <= N => n \in T}
<1>1. 0 \in U
  OBVIOUS
<1>2. \A n \in Nat : n \in U => n + 1 \in U
  OBVIOUS
<1>3. Nat \subseteq U
  <2> HIDE DEF U
  <2> QED BY <1>1, <1>2, NaturalInduction
<1> QED BY <1>3

\* Max of a set of indices that contains the largest one.
LEMMA MaxTop ==
    ASSUME NEW n \in Nat, NEW s, s \subseteq 1..n, n \in s
    PROVE  Max(s) = n
<1>1. \E x \in s : \A y \in s : x >= y
  OBVIOUS
<1>2. Max(s) \in s /\ \A y \in s : Max(s) >= y
  BY <1>1, Zenon DEF Max
<1>3. Max(s) \in 1..n /\ Max(s) >= n
  BY <1>2
<1> QED BY <1>3

\* Max of a set of indices is one of them.
LEMMA MaxIn ==
    ASSUME NEW n \in Nat, NEW s, s \subseteq 1..n, s # {}
    PROVE  Max(s) \in s
<1> DEFINE Above == {x \in Nat : \A y \in s : y <= x}
<1>1. Above # {}
  OBVIOUS
<1>2. PICK m \in Above : \A k \in Above : ~ (k < m)
  <2> HIDE DEF Above
  <2>1. Above \subseteq Nat
    BY DEF Above
  <2> QED BY <1>1, <2>1, LeastNatural
<1>3. m \in s
  <2> SUFFICES ASSUME m \notin s PROVE FALSE
    OBVIOUS
  <2>1. m - 1 \in Nat /\ m - 1 < m
    <3>1. PICK y \in s : y \in 1..n /\ y <= m
      BY <1>2
    <3> QED BY <3>1
  <2>2. \A y \in s : y <= m - 1
    BY <1>2, <2>1
  <2> QED BY <1>2, <2>1, <2>2
<1>4. \E x \in s : \A y \in s : x >= y
  BY <1>3
<1> QED BY <1>4, Zenon DEF Max

\* Some function satisfies the recursion of a fold.
LEMMA FoldExists ==
    ASSUME NEW S, NEW base \in S, NEW N \in Nat, NEW step \in Turns(N, S)
    PROVE  \E g : IsFold(g, S, N, base, step)
<1> DEFINE Folds(n, g) ==
             \A s \in SUBSET (1..n) :
                g[s] = IF s = {} THEN base ELSE step[<<Max(s), g[s \ {Max(s)}]>>]
           T == {n \in Nat : \E g \in [SUBSET (1..n) -> S] : Folds(n, g)}
<1>1. 0 \in T
  <2> DEFINE g == [s \in SUBSET (1..0) |-> base]
  <2>1. SUBSET (1..0) = {{}}
    OBVIOUS
  <2>2. g \in [SUBSET (1..0) -> S] /\ Folds(0, g)
    BY <2>1
  <2> QED BY <2>2
<1>2. ASSUME NEW n \in 0..N, n < N, n \in T
      PROVE  n + 1 \in T
  <2>1. PICK g \in [SUBSET (1..n) -> S] : Folds(n, g)
    BY <1>2
  <2> DEFINE h == [s \in SUBSET (1..(n + 1)) |->
                     IF n + 1 \in s THEN step[<<n + 1, g[s \ {n + 1}]>>] ELSE g[s]]
  <2>2. \A s \in SUBSET (1..(n + 1)) :
          /\ s \ {n + 1} \in SUBSET (1..n)
          /\ n + 1 \notin s => s \in SUBSET (1..n)
    OBVIOUS
  <2>3. h \in [SUBSET (1..(n + 1)) -> S]
    <3> SUFFICES ASSUME NEW s \in SUBSET (1..(n + 1))
                 PROVE  (IF n + 1 \in s THEN step[<<n + 1, g[s \ {n + 1}]>>]
                         ELSE g[s]) \in S
      OBVIOUS
    <3>1. CASE n + 1 \in s
      <4>1. g[s \ {n + 1}] \in S /\ n + 1 \in 1..N
        BY <1>2, <2>2
      <4> QED BY <3>1, <4>1 DEF Turns
    <3>2. CASE n + 1 \notin s
      BY <2>2, <3>2
    <3> QED BY <3>1, <3>2
  <2>4. ASSUME NEW s \in SUBSET (1..(n + 1))
        PROVE  h[s] = IF s = {} THEN base ELSE step[<<Max(s), h[s \ {Max(s)}]>>]
    <3>1. CASE n + 1 \in s
      <4>1. Max(s) = n + 1
        <5>1. n + 1 \in Nat /\ s \subseteq 1..(n + 1)
          OBVIOUS
        <5> QED BY <3>1, <5>1, MaxTop
      <4>2. h[s \ {n + 1}] = g[s \ {n + 1}]
        BY <2>2
      <4> QED BY <3>1, <4>1, <4>2
    <3>2. CASE n + 1 \notin s
      <4>1. s \in SUBSET (1..n)
        BY <2>2, <3>2
      <4>2. h[s] = g[s] /\ h[s \ {Max(s)}] = g[s \ {Max(s)}]
        BY <3>2
      <4> QED BY <2>1, <4>1, <4>2
    <3> QED BY <3>1, <3>2
  <2>5. Folds(n + 1, h)
    BY <2>4
  <2>6. n + 1 \in Nat
    OBVIOUS
  <2> HIDE DEF h, Folds
  <2> QED BY <2>3, <2>5, <2>6
<1>3. 0..N \subseteq T
  <2> HIDE DEF T
  <2> QED BY <1>1, <1>2, BoundedInduction
<1>4. N \in 0..N
  OBVIOUS
<1> QED BY <1>3, <1>4 DEF IsFold

\* The recursion of a fold, read from the first element on.
LEMMA FoldPrefixes ==
    ASSUME NEW S, NEW base \in S, NEW N \in Nat, NEW step \in Turns(N, S),
           NEW F, Follows(F, S, N, base, step)
    PROVE  \E h : ArePrefixes(h, S, N, base, step) /\ F[1..N] = h[N]
<1> DEFINE T == {n \in Nat : F[1..n] \in S /\ (n > 0 => F[1..n] = step[<<n, F[1..(n - 1)]>>])}
<1>1. 0 \in T
  <2>1. 1..0 = {}
    OBVIOUS
  <2> QED BY <2>1 DEF Follows
<1>2. ASSUME NEW n \in 0..N, n < N, n \in T
      PROVE  n + 1 \in T
  <2>1. n + 1 \in Nat /\ n + 1 \in 1..(n + 1) /\ 1..(n + 1) \in SUBSET (1..N)
    BY <1>2
  <2>2. Max(1..(n + 1)) = n + 1
    BY <2>1, MaxTop
  <2>3. (1..(n + 1)) \ {n + 1} = 1..n /\ (n + 1) - 1 = n /\ n + 1 \in 1..N
    BY <1>2
  <2>4. F[1..n] \in S
    BY <1>2
  <2>5. F[1..(n + 1)] = step[<<n + 1, F[1..n]>>]
    BY <2>1, <2>2, <2>3, <2>4 DEF Follows
  <2>6. F[1..(n + 1)] \in S
    BY <2>3, <2>4, <2>5 DEF Turns
  <2> QED BY <2>1, <2>3, <2>5, <2>6
<1>3. 0..N \subseteq T
  <2> HIDE DEF T
  <2> QED BY <1>1, <1>2, BoundedInduction
<1> DEFINE h == [i \in 0..N |-> F[1..i]]
<1>4. h \in [0..N -> S]
  BY <1>3
<1>5. h[0] = base /\ h[N] = F[1..N]
  <2>1. 1..0 = {}
    OBVIOUS
  <2> QED BY <2>1 DEF Follows
<1>6. ASSUME NEW i \in 1..N
      PROVE  h[i] = step[<<i, h[i - 1]>>]
  <2>1. i \in T /\ i - 1 \in 0..N /\ i > 0 /\ i \in 0..N
    BY <1>3
  <2>2. F[1..i] = step[<<i, F[1..(i - 1)]>>]
    BY <2>1
  <2> QED BY <2>1, <2>2
<1> HIDE DEF h
<1> QED BY <1>4, <1>5, <1>6 DEF ArePrefixes
=============================================================================
