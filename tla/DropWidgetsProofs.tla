-------------------------- MODULE DropWidgetsProofs --------------------------
(***************************************************************************)
(* Proofs about the components of MCDropWidgets, for any widgets, ranges,  *)
(* limits, texts, lists, elements and distances that satisfy the           *)
(* assumptions of the components.                                          *)
(*                                                                         *)
(* Each component has an inductive invariant: VInv, for the parameter in   *)
(* boxes and fields, NumberInv, ComboInv, ListInv, TableInv and            *)
(* CursorsInv.  They are stronger than the properties because the types    *)
(* alone are not inductive, and because a property of what is on the       *)
(* screen needs what the registry of bindings and the file know about it.  *)
(***************************************************************************)
EXTENDS MCDropWidgets, SequenceTheorems, Induction, FiniteSetTheorems

\* What the components assume of their constants.
LEMMA NumberAssumed == N!NumberAssumption
BY Assumptions

\* ComboBoxes.
LEMMA ComboAssumed == S!ComboAssumption
BY Assumptions

\* ListViews.
LEMMA ListAssumed == L!ListAssumption
BY Assumptions

\* TableCells.
LEMMA TableAssumed == T!TableAssumption
BY Assumptions

-----------------------------------------------------------------------------
(* ParameterValue: the inductive invariant.                                *)

Messages == Values \cup {Ask}

ValueType ==
    /\ container \in Values /\ device \in Values /\ wish \in Values
    /\ shown \in [Widgets -> Values]
    /\ bound \subseteq Widgets /\ awaiting \subseteq Widgets
    /\ conns \in [Widgets -> Nat]
    /\ toDevice \in Seq(Messages) /\ fromDevice \in Seq(Values)
    /\ answers \in BOOLEAN /\ raced \in BOOLEAN /\ untold \in BOOLEAN

\* Message i to the device is a value, and no value comes after it.
IsSet(i) == toDevice[i] # Ask
IsLast(i) == IsSet(i) /\ (i < Len(toDevice) => ~IsSet(i + 1))
NoSet == \A i \in DOMAIN toDevice : ~IsSet(i)

\* A device that answers has said last what it holds.
Answered ==
    answers /\ toDevice = <<>> =>
        IF fromDevice = <<>> THEN container = device \/ untold
        ELSE fromDevice[Len(fromDevice)] = device

\* Nobody raced: values go before questions, the last of them is what the
\* container holds and the user wants, and nothing else is under way; once
\* there are none, the device holds what is wanted, and says it last.
Ordered == \A i, j \in DOMAIN toDevice : i < j /\ IsSet(j) => IsSet(i)
LastIsWanted == \A i \in DOMAIN toDevice : IsLast(i) => toDevice[i] = container
OneValue == answers => \A i \in DOMAIN toDevice : IsSet(i) => toDevice[i] = container
Consistent ==
    IF NoSet
    THEN /\ wish = device
         /\ IF fromDevice = <<>> THEN container = device
            ELSE fromDevice[Len(fromDevice)] = device
    ELSE /\ wish = container
         /\ \A i \in DOMAIN fromDevice : fromDevice[i] = container
Calm == ~raced => ~untold /\ Ordered /\ LastIsWanted /\ OneValue /\ Consistent

VInv == ValueType /\ ShownIsContainer /\ Answered /\ Calm
USE ValueAssumption DEF ValueAssumption, Values, Widgets

-----------------------------------------------------------------------------
(* ParameterValue: values and sequences.                                   *)

\* What a widget shows, or makes of a value, is a value.
LEMMA GetsValue ==
    ASSUME NEW w \in Widgets, NEW v \in Values, NEW s \in Values
    PROVE  Seen(w, v) \in Values /\ GetVariantData(w, v, s) \in Values
  BY DEF Seen, GetVariantData

\* An element more.
LEMMA Appended ==
    ASSUME NEW Members, NEW q \in Seq(Members), NEW e \in Members
    PROVE  /\ Append(q, e) \in Seq(Members) /\ Append(q, e) # <<>>
           /\ Len(q) \in Nat /\ DOMAIN q = 1..Len(q)
           /\ Len(Append(q, e)) = Len(q) + 1 /\ DOMAIN Append(q, e) = 1..Len(q) + 1
           /\ \A i \in 1..Len(q) : Append(q, e)[i] = q[i]
           /\ Append(q, e)[Len(q) + 1] = e
  BY AppendProperties, LenProperties

\* An element less.
LEMMA Dequeued ==
    ASSUME NEW Members, NEW q \in Seq(Members), q # <<>>
    PROVE  /\ Head(q) \in Members /\ Head(q) = q[1] /\ Tail(q) \in Seq(Members)
           /\ Len(q) \in Nat \ {0} /\ DOMAIN q = 1..Len(q)
           /\ Len(Tail(q)) = Len(q) - 1 /\ DOMAIN Tail(q) = 1..Len(q) - 1
           /\ \A i \in 1..Len(q) - 1 : Tail(q)[i] = q[i + 1]
           /\ Tail(q) = <<>> <=> Len(q) = 1
<1>1. /\ Head(q) \in Members /\ Head(q) = q[1] /\ Tail(q) \in Seq(Members)
      /\ Len(Tail(q)) = Len(q) - 1
      /\ \A i \in 1..Len(q) - 1 : Tail(q)[i] = q[i + 1]
  OBVIOUS
<1>2. Len(q) \in Nat \ {0} /\ DOMAIN q = 1..Len(q) /\ DOMAIN Tail(q) = 1..Len(q) - 1
  BY <1>1
<1>3. Tail(q) = <<>> <=> Len(q) = 1
  <2>1. \A s \in Seq(Members) : s = <<>> <=> Len(s) = 0
    BY EmptySeq
  <2>2. Len(Tail(q)) = 0 <=> Len(q) = 1
    BY <1>1, <1>2
  <2> QED BY <1>1, <2>1, <2>2
<1> QED
  BY <1>1, <1>2, <1>3

\* The same element several times more.
LEMMA Repeated ==
    ASSUME NEW Members, NEW q \in Seq(Members), NEW e \in Members,
           NEW n \in Nat \ {0}, NEW t \in [1..n -> {e}]
    PROVE  LET r == q \o t IN
           /\ r \in Seq(Members) /\ r # <<>> /\ Len(r) = Len(q) + n
           /\ Len(q) \in Nat /\ DOMAIN q = 1..Len(q) /\ DOMAIN r = 1..Len(q) + n
           /\ \A i \in DOMAIN r : r[i] = IF i <= Len(q) THEN q[i] ELSE e
<1> DEFINE r == q \o t
<1>1. t \in Seq(Members) /\ Len(t) = n /\ \A i \in 1..n : t[i] = e
  OBVIOUS
<1>2. /\ r \in Seq(Members) /\ Len(r) = Len(q) + n /\ Len(q) \in Nat
      /\ DOMAIN q = 1..Len(q) /\ DOMAIN r = 1..Len(r)
      /\ \A i \in 1..Len(r) : r[i] = IF i <= Len(q) THEN q[i] ELSE t[i - Len(q)]
  BY <1>1, ConcatProperties, LenProperties
<1> HIDE DEF r
<1>3. ASSUME NEW i \in DOMAIN r
      PROVE  r[i] = IF i <= Len(q) THEN q[i] ELSE e
  <2>1. CASE i <= Len(q)
    BY <1>2, <2>1
  <2>2. CASE ~(i <= Len(q))
    <3>1. i - Len(q) \in 1..n
      BY <1>2, <2>2
    <3> QED
      BY <1>1, <1>2, <2>2, <3>1
  <2> QED
    BY <2>1, <2>2
<1>4. Len(r) # 0
  BY <1>2
<1>5. r # <<>>
  BY <1>4, EmptySeq
<1> QED
  BY <1>2, <1>3, <1>5 DEF r

\* A container that is set shows in every widget that is bound.
LEMMA Received ==
    ASSUME ValueType, NEW v \in Values, Receive(v), bound' = bound
    PROVE  /\ container' = v /\ awaiting' = {} /\ shown' \in [Widgets -> Values]
           /\ conns' \in [Widgets -> Nat] /\ ShownIsContainer'
<1>1. \A w \in Widgets : Seen(w, v) \in Values
  BY GetsValue
<1>2. /\ container' = v /\ awaiting' = {}
      /\ shown' = [w \in Widgets |-> IF w \in bound THEN Seen(w, v) ELSE shown[w]]
      /\ conns' = [w \in Widgets |-> IF w \in bound \cap Boxes THEN 1 ELSE conns[w]]
  BY DEF Receive
<1>3. shown' \in [Widgets -> Values] /\ conns' \in [Widgets -> Nat]
  <2> HIDE DEF Values, Widgets
  <2> QED
    BY <1>1, <1>2 DEF ValueType
<1>4. \A w \in bound : w \in Widgets
  BY DEF ValueType
<1>5. ShownIsContainer'
  BY <1>2, <1>4 DEF ShownIsContainer
<1> QED
  BY <1>2, <1>3, <1>5

-----------------------------------------------------------------------------
(* ParameterValue: what the user does.                                     *)

\* A value is sent, once or several times, behind the others.
LEMMA EnterKeeps ==
    ASSUME VInv, NEW w \in Widgets, NEW s \in Values, Enter(w, s)
    PROVE  VInv'
<1> USE DEF VInv
<1> DEFINE v == GetVariantData(w, container, s)
           times == IF w \in Boxes THEN 1 ELSE conns[w]
<1>0. /\ container \in Values /\ toDevice \in Seq(Messages)
      /\ conns[w] \in Nat /\ conns[w] > 0
  BY DEF Enter, ValueType
<1>1. v \in Values /\ times \in Nat \ {0} /\ toDevice \in Seq(Messages) /\ v \in Messages
  <2>1. v \in Values
    BY <1>0, GetsValue
  <2> QED
    BY <1>0, <2>1 DEF Messages
<1>2. /\ toDevice' = toDevice \o [i \in 1..times |-> v] /\ Receive(v) /\ untold' = FALSE
      /\ wish' = IF w \in Boxes THEN (wish \ {BitOf[w]}) \cup s ELSE s
      /\ raced' = (raced \/ Expected)
      /\ UNCHANGED <<bound, fromDevice, device, answers>>
  BY DEF Enter, SendNewValue
<1>3. wish = container => wish' = v
  BY <1>2 DEF GetVariantData
<1>4. wish' \in Values
  BY <1>2 DEF ValueType
<1> HIDE DEF v, times
<1>5. /\ toDevice' \in Seq(Messages) /\ toDevice' # <<>> /\ Len(toDevice') = Len(toDevice) + times
      /\ Len(toDevice) \in Nat /\ DOMAIN toDevice = 1..Len(toDevice)
      /\ DOMAIN toDevice' = 1..Len(toDevice) + times
      /\ \A i \in DOMAIN toDevice' :
            toDevice'[i] = IF i <= Len(toDevice) THEN toDevice[i] ELSE v
  <2> DEFINE t == [i \in 1..times |-> v]
  <2>1. t \in [1..times -> {v}] /\ toDevice' = toDevice \o t
    BY <1>2
  <2> HIDE DEF t, Messages
  <2> QED
    BY <1>1, <2>1, Repeated
<1>6. /\ container' = v /\ awaiting' = {} /\ shown' \in [Widgets -> Values]
      /\ conns' \in [Widgets -> Nat] /\ ShownIsContainer'
  BY <1>1, <1>2, Received
<1>7. raced' \in BOOLEAN /\ untold' \in BOOLEAN
  BY <1>2 DEF ValueType
<1>8. ValueType'
  BY <1>1, <1>2, <1>4, <1>5, <1>6, <1>7 DEF ValueType
<1>9. Answered'
  BY <1>5 DEF Answered
<1>10. ASSUME ~raced'
       PROVE  ~untold' /\ Ordered' /\ LastIsWanted' /\ OneValue' /\ Consistent'
  <2>1. ~raced /\ fromDevice = <<>> /\ \A i \in DOMAIN toDevice : ~answers /\ toDevice[i] # Ask
    BY <1>2, <1>10 DEF Expected
  <2>2. v # Ask
    BY <1>1
  <2>3. \A i \in DOMAIN toDevice' : toDevice'[i] # Ask
    BY <1>5, <2>1, <2>2
  <2>4. Ordered'
    BY <2>3 DEF Ordered, IsSet
  <2>5. LastIsWanted'
    <3> SUFFICES ASSUME NEW i \in DOMAIN toDevice', IsLast(i)'
                 PROVE  toDevice'[i] = v
      BY <1>6 DEF LastIsWanted
    <3>1. i < Len(toDevice') => i + 1 \in DOMAIN toDevice'
      BY <1>1, <1>5
    <3>2. ~(i < Len(toDevice'))
      BY <2>3, <3>1 DEF IsLast, IsSet
    <3> QED
      BY <1>1, <1>5, <3>2
  <2>6. OneValue'
    <3>1. answers => DOMAIN toDevice = {}
      BY <2>1
    <3>2. answers => Len(toDevice) = 0
      BY <1>5, <3>1
    <3>3. answers => \A i \in DOMAIN toDevice' : toDevice'[i] = v
      BY <1>1, <1>5, <3>2
    <3> QED
      BY <1>2, <1>6, <3>3 DEF OneValue
  <2>7. wish = container
    <3>1. Consistent
      BY <2>1 DEF Calm
    <3> QED
      BY <2>1, <3>1 DEF Consistent
  <2>8. ~NoSet'
    <3>1. Len(toDevice) + times \in DOMAIN toDevice'
      BY <1>1, <1>5
    <3> QED
      BY <2>3, <3>1 DEF NoSet, IsSet
  <2>9. DOMAIN fromDevice = {}
    BY <2>1
  <2>10. Consistent'
    BY <1>2, <1>3, <1>6, <2>7, <2>8, <2>9 DEF Consistent
  <2> QED
    BY <1>2, <2>4, <2>5, <2>6, <2>10
<1> QED
  BY <1>6, <1>8, <1>9, <1>10 DEF Calm
\* Nothing that is under way, or will be, changes.
LEMMA AsBefore ==
    ASSUME Answered, Calm,
           UNCHANGED <<container, toDevice, fromDevice, device, answers, wish, raced, untold>>
    PROVE  Answered' /\ Calm'
  BY DEF Answered, Calm, Ordered, LastIsWanted, OneValue, Consistent, NoSet, IsLast, IsSet

\* A question goes behind the values.
LEMMA AskKeeps ==
    ASSUME VInv, toDevice' = Append(toDevice, Ask),
           UNCHANGED <<container, fromDevice, device, answers, wish, raced, untold>>
    PROVE  toDevice' \in Seq(Messages) /\ Answered' /\ Calm'
<1>1. toDevice \in Seq(Messages) /\ Ask \in Messages
  BY DEF VInv, ValueType, Messages
<1>2. /\ toDevice' \in Seq(Messages) /\ toDevice' # <<>>
      /\ Len(toDevice) \in Nat /\ DOMAIN toDevice = 1..Len(toDevice)
      /\ Len(toDevice') = Len(toDevice) + 1 /\ DOMAIN toDevice' = 1..Len(toDevice) + 1
      /\ \A i \in 1..Len(toDevice) : toDevice'[i] = toDevice[i]
      /\ toDevice'[Len(toDevice) + 1] = Ask
  BY <1>1, Appended
<1>3. \A i \in DOMAIN toDevice' :
         IsSet(i)' => i \in DOMAIN toDevice /\ IsSet(i) /\ toDevice'[i] = toDevice[i]
  BY <1>2 DEF IsSet
<1>4. \A i \in DOMAIN toDevice : i \in DOMAIN toDevice' /\ (IsSet(i) <=> IsSet(i)')
  BY <1>2 DEF IsSet
<1>5. Answered'
  BY <1>2 DEF Answered
<1>6. ASSUME ~raced
      PROVE  ~untold' /\ Ordered' /\ LastIsWanted' /\ OneValue' /\ Consistent'
  <2>0. ~untold /\ Ordered /\ LastIsWanted /\ OneValue /\ Consistent
    BY <1>6 DEF VInv, Calm
  <2>1. Ordered'
    <3> SUFFICES ASSUME NEW i \in DOMAIN toDevice', NEW j \in DOMAIN toDevice', i < j, IsSet(j)'
                 PROVE  IsSet(i)'
      BY DEF Ordered
    <3>1. j \in DOMAIN toDevice /\ IsSet(j)
      BY <1>3
    <3>2. i \in DOMAIN toDevice
      BY <1>2, <3>1
    <3> QED
      BY <1>4, <2>0, <3>1, <3>2 DEF Ordered
  <2>2. LastIsWanted'
    <3> SUFFICES ASSUME NEW i \in DOMAIN toDevice', IsLast(i)'
                 PROVE  toDevice'[i] = container
      BY DEF LastIsWanted
    <3>1. i \in DOMAIN toDevice /\ IsSet(i) /\ toDevice'[i] = toDevice[i]
      BY <1>3 DEF IsLast
    <3>2. i < Len(toDevice) => ~IsSet(i + 1)
      <4>1. SUFFICES ASSUME i < Len(toDevice) PROVE ~IsSet(i + 1)
        OBVIOUS
      <4>2. i + 1 \in DOMAIN toDevice /\ i < Len(toDevice')
        BY <1>2, <3>1, <4>1
      <4> QED
        BY <1>4, <4>2 DEF IsLast
    <3> QED
      BY <2>0, <3>1, <3>2 DEF LastIsWanted, IsLast
  <2>3. OneValue'
    BY <1>3, <2>0 DEF OneValue
  <2>4. NoSet' <=> NoSet
    BY <1>3, <1>4 DEF NoSet
  <2>5. Consistent'
    BY <2>0, <2>4 DEF Consistent
  <2> QED
    BY <2>0, <2>1, <2>2, <2>3, <2>5
<1> QED
  BY <1>2, <1>5, <1>6 DEF Calm

\* A widget is bound by a drop.
LEMMA BindKeeps ==
    ASSUME VInv, NEW w \in Widgets, Bind(w)
    PROVE  VInv'
<1> USE DEF VInv
<1>0. /\ bound' = bound \cup {w}
      /\ UNCHANGED <<container, fromDevice, device, answers, wish, raced, untold>>
  BY DEF Bind
<1>1. CASE w \in Boxes
  <2>1. /\ shown' = [shown EXCEPT ![w] = Seen(w, container)]
        /\ conns' = [conns EXCEPT ![w] = @ + 1]
        /\ UNCHANGED <<toDevice, awaiting>>
    BY <1>1 DEF Bind
  <2>2. Seen(w, container) \in Values
    BY GetsValue DEF ValueType
  <2>3. ValueType'
    <3> HIDE DEF Values, Widgets
    <3> QED
      BY <1>0, <2>1, <2>2 DEF ValueType
  <2>4. ShownIsContainer'
    <3> HIDE DEF Values, Widgets
    <3> QED
      BY <1>0, <2>1 DEF ShownIsContainer, ValueType
  <2>5. Answered' /\ Calm'
    BY <1>0, <2>1, AsBefore
  <2> QED
    BY <2>3, <2>4, <2>5
<1>2. CASE w \notin Boxes
  <2>1. /\ conns' = [conns EXCEPT ![w] = 1] /\ toDevice' = Append(toDevice, Ask)
        /\ awaiting' = awaiting \cup {w} /\ shown' = shown
    BY <1>2 DEF Bind
  <2>2. toDevice' \in Seq(Messages) /\ Answered' /\ Calm'
    BY <1>0, <2>1, AskKeeps
  <2>3. ValueType'
    <3> HIDE DEF Values, Widgets
    <3> QED
      BY <1>0, <2>1, <2>2 DEF ValueType
  <2>4. ShownIsContainer'
    BY <1>0, <2>1 DEF ShownIsContainer
  <2> QED
    BY <2>2, <2>3, <2>4
<1> QED
  BY <1>1, <1>2

\* A widget is bound by an experiment.
LEMMA ConnectKeeps ==
    ASSUME VInv, NEW w \in Widgets, ConnectToID(w)
    PROVE  VInv'
<1> USE DEF VInv
<1>1. /\ bound' = bound \cup {w} /\ conns' = [conns EXCEPT ![w] = @ + 1]
      /\ toDevice' = Append(toDevice, Ask) /\ awaiting' = awaiting \cup {w}
      /\ UNCHANGED <<container, shown, fromDevice, device, answers, wish, raced, untold>>
  BY DEF ConnectToID
<1>2. toDevice' \in Seq(Messages) /\ Answered' /\ Calm'
  BY <1>1, AskKeeps
<1>3. ValueType'
  <2> HIDE DEF Values, Widgets
  <2> QED
    BY <1>1, <1>2 DEF ValueType
<1>4. ShownIsContainer'
  BY <1>1 DEF ShownIsContainer
<1> QED
  BY <1>2, <1>3, <1>4

\* A widget is unbound and reset.
LEMMA RemoveKeeps ==
    ASSUME VInv, NEW w \in Widgets, RemoveConnection(w)
    PROVE  VInv'
<1> USE DEF VInv
<1>1. /\ bound' = bound \ {w} /\ shown' = [shown EXCEPT ![w] = {}]
      /\ awaiting' = awaiting \ {w}
      /\ UNCHANGED <<container, conns, toDevice, fromDevice, device, answers, wish, raced, untold>>
  BY DEF RemoveConnection
<1>2. {} \in Values
  OBVIOUS
<1>3. ValueType'
  <2> HIDE DEF Values, Widgets
  <2> QED
    BY <1>1, <1>2 DEF ValueType
<1>4. ShownIsContainer'
  <2> HIDE DEF Values, Widgets
  <2> QED
    BY <1>1 DEF ShownIsContainer, ValueType
<1>5. Answered' /\ Calm'
  BY <1>1, AsBefore
<1> QED
  BY <1>3, <1>4, <1>5

\* The explorer sets the container and tells nobody.
LEMMA EditKeeps ==
    ASSUME VInv, NEW v \in Values, EditParameterValue(v)
    PROVE  VInv'
<1> USE DEF VInv
<1>1. /\ Receive(v) /\ untold' = TRUE /\ raced' = TRUE
      /\ UNCHANGED <<bound, toDevice, fromDevice, device, answers, wish>>
  BY DEF EditParameterValue
<1>2. /\ container' = v /\ awaiting' = {} /\ shown' \in [Widgets -> Values]
      /\ conns' \in [Widgets -> Nat] /\ ShownIsContainer'
  BY <1>1, Received
<1>3. ValueType'
  BY <1>1, <1>2 DEF ValueType
<1>4. Answered' /\ Calm'
  BY <1>1 DEF Answered, Calm
<1> QED
  BY <1>2, <1>3, <1>4

-----------------------------------------------------------------------------
(* ParameterValue: what the device does.                                   *)

\* A report of the device arrives.
LEMMA DeliverKeeps ==
    ASSUME VInv, Deliver
    PROVE  VInv'
<1> USE DEF VInv
<1>1. /\ fromDevice # <<>> /\ Receive(Head(fromDevice)) /\ fromDevice' = Tail(fromDevice)
      /\ untold' = FALSE /\ UNCHANGED <<bound, toDevice, device, answers>>
  BY DEF Deliver
<1>2. /\ Head(fromDevice) \in Values /\ Head(fromDevice) = fromDevice[1]
      /\ fromDevice' \in Seq(Values)
      /\ Len(fromDevice) \in Nat \ {0} /\ DOMAIN fromDevice = 1..Len(fromDevice)
      /\ Len(fromDevice') = Len(fromDevice) - 1
      /\ DOMAIN fromDevice' = 1..Len(fromDevice) - 1
      /\ \A i \in 1..Len(fromDevice) - 1 : fromDevice'[i] = fromDevice[i + 1]
      /\ fromDevice' = <<>> <=> Len(fromDevice) = 1
  <2>1. fromDevice \in Seq(Values)
    BY DEF ValueType
  <2> HIDE DEF Values
  <2> QED
    BY <1>1, <2>1, Dequeued
<1>3. /\ container' = Head(fromDevice) /\ awaiting' = {} /\ shown' \in [Widgets -> Values]
      /\ conns' \in [Widgets -> Nat] /\ ShownIsContainer'
  BY <1>1, <1>2, Received
<1> DEFINE settled == raced /\ fromDevice' = <<>> /\ toDevice = <<>> /\ device = container'
<1>4. /\ raced' = (raced /\ ~settled) /\ wish' = IF settled THEN device ELSE wish
  BY DEF Deliver
<1>5. raced' \in BOOLEAN /\ wish' \in Values
  BY <1>4 DEF ValueType
<1>6. ValueType'
  BY <1>1, <1>2, <1>3, <1>5 DEF ValueType
<1>7. IF fromDevice' = <<>> THEN container' = fromDevice[Len(fromDevice)]
      ELSE fromDevice'[Len(fromDevice')] = fromDevice[Len(fromDevice)]
  <2>1. CASE Len(fromDevice) = 1
    BY <1>2, <1>3, <2>1
  <2>2. CASE Len(fromDevice) # 1
    <3>1. Len(fromDevice') \in 1..Len(fromDevice) - 1 /\ Len(fromDevice') + 1 = Len(fromDevice)
      BY <1>2, <2>2
    <3> QED
      BY <1>2, <2>2, <3>1
  <2> QED
    BY <2>1, <2>2
<1>8. Answered'
  BY <1>1, <1>7 DEF Answered
<1>9. ASSUME ~raced'
      PROVE  ~untold' /\ Ordered' /\ LastIsWanted' /\ OneValue' /\ Consistent'
  <2>1. CASE settled
    <3>1. /\ toDevice' = <<>> /\ DOMAIN toDevice' = {} /\ fromDevice' = <<>>
          /\ wish' = device' /\ container' = device'
      BY <1>1, <1>4, <2>1
    <3> QED
      BY <1>1, <3>1 DEF Ordered, LastIsWanted, OneValue, Consistent, NoSet
  <2>2. CASE ~settled
    <3>1. ~raced /\ wish' = wish
      BY <1>4, <1>9, <2>2
    <3>2. ~untold /\ Ordered /\ LastIsWanted /\ OneValue /\ Consistent
      BY <3>1 DEF Calm
    <3>3. NoSet' <=> NoSet
      BY <1>1 DEF NoSet, IsSet
    <3>4. Ordered'
      BY <1>1, <3>2 DEF Ordered, IsSet
    <3>5. CASE NoSet
      <4>1. LastIsWanted' /\ OneValue'
        BY <1>1, <3>5 DEF NoSet, LastIsWanted, OneValue, IsLast, IsSet
      <4>2. wish' = device' /\ fromDevice[Len(fromDevice)] = device'
        BY <1>1, <3>1, <3>2, <3>5 DEF Consistent
      <4>3. Consistent'
        BY <1>7, <3>3, <3>5, <4>2 DEF Consistent
      <4> QED
        BY <1>1, <3>4, <4>1, <4>3
    <3>6. CASE ~NoSet
      <4>1. wish = container /\ \A i \in DOMAIN fromDevice : fromDevice[i] = container
        BY <3>2, <3>6 DEF Consistent
      <4>2. container' = container
        BY <1>2, <1>3, <4>1
      <4>3. LastIsWanted' /\ OneValue'
        BY <1>1, <3>2, <4>2 DEF LastIsWanted, OneValue, IsLast, IsSet
      <4>4. ASSUME NEW i \in DOMAIN fromDevice'
            PROVE  fromDevice'[i] = container'
        <5>1. i \in 1..Len(fromDevice) - 1 /\ i + 1 \in DOMAIN fromDevice
          BY <1>2
        <5> QED
          BY <1>2, <4>1, <4>2, <5>1
      <4>5. Consistent'
        BY <3>1, <3>3, <3>6, <4>1, <4>2, <4>4 DEF Consistent
      <4> QED
        BY <1>1, <3>4, <4>3, <4>5
    <3> QED
      BY <3>5, <3>6
  <2> QED
    BY <2>1, <2>2
<1> QED
  BY <1>3, <1>6, <1>8, <1>9 DEF Calm
\* A report is put behind the others.
LEMMA Reports ==
    ASSUME ValueType, NEW v \in Values, fromDevice' = Append(fromDevice, v)
    PROVE  /\ fromDevice' \in Seq(Values) /\ fromDevice' # <<>>
           /\ fromDevice'[Len(fromDevice')] = v
           /\ \A i \in DOMAIN fromDevice' :
                 fromDevice'[i] = v \/ (i \in DOMAIN fromDevice /\ fromDevice'[i] = fromDevice[i])
<1>1. fromDevice \in Seq(Values)
  BY DEF ValueType
<1> HIDE DEF Values
<1>2. /\ fromDevice' \in Seq(Values) /\ fromDevice' # <<>>
      /\ Len(fromDevice) \in Nat /\ DOMAIN fromDevice = 1..Len(fromDevice)
      /\ Len(fromDevice') = Len(fromDevice) + 1 /\ DOMAIN fromDevice' = 1..Len(fromDevice) + 1
      /\ \A i \in 1..Len(fromDevice) : fromDevice'[i] = fromDevice[i]
      /\ fromDevice'[Len(fromDevice) + 1] = v
  BY <1>1, Appended
<1> QED
  BY <1>2

\* The device handles a message, a value or a question.
LEMMA ReceivesKeeps ==
    ASSUME VInv, DeviceReceives
    PROVE  VInv'
<1> USE DEF VInv
<1>1. /\ toDevice # <<>> /\ toDevice' = Tail(toDevice)
      /\ UNCHANGED <<container, shown, bound, conns, answers, wish, raced, untold, awaiting>>
  BY DEF DeviceReceives
<1>2. /\ Head(toDevice) \in Messages /\ Head(toDevice) = toDevice[1]
      /\ toDevice' \in Seq(Messages)
      /\ Len(toDevice) \in Nat \ {0} /\ DOMAIN toDevice = 1..Len(toDevice)
      /\ Len(toDevice') = Len(toDevice) - 1 /\ DOMAIN toDevice' = 1..Len(toDevice) - 1
      /\ \A i \in 1..Len(toDevice) - 1 : toDevice'[i] = toDevice[i + 1]
  <2>1. toDevice \in Seq(Messages)
    BY DEF ValueType
  <2> HIDE DEF Messages
  <2> QED
    BY <1>1, <2>1, Dequeued
<1>3. 1 \in DOMAIN toDevice
  BY <1>2
<1>4. \A i \in DOMAIN toDevice' :
         /\ i \in Nat \ {0} /\ i < Len(toDevice)
         /\ i + 1 \in DOMAIN toDevice /\ toDevice'[i] = toDevice[i + 1]
         /\ IsSet(i)' <=> IsSet(i + 1)
  BY <1>2 DEF IsSet
<1>5. ShownIsContainer'
  BY <1>1 DEF ShownIsContainer
<1>6. CASE Head(toDevice) = Ask
  <2>1. fromDevice' = Append(fromDevice, device) /\ device' = device /\ device \in Values
    BY <1>6 DEF DeviceReceives, ValueType
  <2>2. /\ fromDevice' \in Seq(Values) /\ fromDevice' # <<>>
        /\ fromDevice'[Len(fromDevice')] = device
    BY <2>1, Reports
  <2>3. ValueType'
    BY <1>1, <1>2, <2>1, <2>2 DEF ValueType
  <2>4. Answered'
    BY <2>1, <2>2 DEF Answered
  <2>5. ASSUME ~raced
        PROVE  ~untold' /\ Ordered' /\ LastIsWanted' /\ OneValue' /\ Consistent'
    <3>1. ~untold /\ Ordered /\ Consistent
      BY <2>5 DEF Calm
    <3>2. ~IsSet(1)
      BY <1>2, <1>6 DEF IsSet
    <3>3. NoSet
      <4> SUFFICES ASSUME NEW j \in DOMAIN toDevice, IsSet(j)
                   PROVE  FALSE
        BY DEF NoSet
      <4>1. 1 < j
        BY <1>2, <3>2
      <4> QED
        BY <1>3, <3>1, <3>2, <4>1 DEF Ordered
    <3>4. NoSet'
      BY <1>4, <3>3 DEF NoSet
    <3>5. Ordered' /\ LastIsWanted' /\ OneValue'
      BY <3>4 DEF NoSet, Ordered, LastIsWanted, OneValue, IsLast
    <3>6. Consistent'
      BY <1>1, <2>1, <2>2, <3>1, <3>3, <3>4 DEF Consistent
    <3> QED
      BY <1>1, <3>1, <3>5, <3>6
  <2> QED
    BY <1>1, <1>5, <2>3, <2>4, <2>5 DEF Calm
<1>7. CASE Head(toDevice) # Ask
  <2>1. /\ device' = Head(toDevice)
        /\ fromDevice' = IF answers THEN Append(fromDevice, device') ELSE fromDevice
    BY <1>7 DEF DeviceReceives
  <2>2. device' \in Values
    BY <1>2, <1>7, <2>1 DEF Messages
  <2>3. answers =>
          /\ fromDevice' \in Seq(Values) /\ fromDevice' # <<>>
          /\ fromDevice'[Len(fromDevice')] = device'
          /\ \A i \in DOMAIN fromDevice' :
                fromDevice'[i] = device'
                \/ (i \in DOMAIN fromDevice /\ fromDevice'[i] = fromDevice[i])
    BY <2>1, <2>2, Reports
  <2>4. ValueType'
    BY <1>1, <1>2, <2>1, <2>2, <2>3 DEF ValueType
  <2>5. Answered'
    BY <1>1, <2>3 DEF Answered
  <2>6. ASSUME ~raced
        PROVE  ~untold' /\ Ordered' /\ LastIsWanted' /\ OneValue' /\ Consistent'
    <3>1. ~untold /\ Ordered /\ LastIsWanted /\ OneValue /\ Consistent
      BY <2>6 DEF Calm
    <3>2. IsSet(1) /\ ~NoSet /\ toDevice[1] = device'
      BY <1>2, <1>3, <1>7, <2>1 DEF IsSet, NoSet
    <3>3. wish = container /\ \A i \in DOMAIN fromDevice : fromDevice[i] = container
      BY <3>1, <3>2 DEF Consistent
    <3>4. Ordered'
      <4> SUFFICES ASSUME NEW i \in DOMAIN toDevice', NEW j \in DOMAIN toDevice',
                          i < j, IsSet(j)'
                   PROVE  IsSet(i)'
        BY DEF Ordered
      <4>1. i + 1 < j + 1
        BY <1>4
      <4> QED
        BY <1>4, <3>1, <4>1 DEF Ordered
    <3>5. LastIsWanted'
      <4> SUFFICES ASSUME NEW i \in DOMAIN toDevice', IsLast(i)'
                   PROVE  toDevice'[i] = container
        BY <1>1 DEF LastIsWanted
      <4>1. IsSet(i + 1)
        BY <1>4 DEF IsLast
      <4>2. ASSUME i + 1 < Len(toDevice) PROVE ~IsSet((i + 1) + 1)
        <5>1. i < Len(toDevice') /\ i + 1 \in DOMAIN toDevice'
          BY <1>2, <1>4, <4>2
        <5>2. ~IsSet(i + 1)'
          BY <5>1 DEF IsLast
        <5> QED
          BY <1>4, <5>1, <5>2
      <4> QED
        BY <1>4, <3>1, <4>1, <4>2 DEF LastIsWanted, IsLast
    <3>6. OneValue'
      BY <1>1, <1>4, <3>1 DEF OneValue
    <3>7. CASE NoSet'
      <4>1. 1 < Len(toDevice) => ~IsSet(1 + 1)
        <5>1. 1 < Len(toDevice) => 1 \in DOMAIN toDevice'
          BY <1>2
        <5> QED
          BY <1>4, <3>7, <5>1 DEF NoSet
      <4>2. device' = container
        BY <1>3, <3>1, <3>2, <4>1 DEF LastIsWanted, IsLast
      <4>3. ASSUME answers PROVE Consistent'
        BY <1>1, <2>3, <3>3, <3>7, <4>2, <4>3 DEF Consistent
      <4>4. ASSUME ~answers PROVE Consistent'
        <5>1. fromDevice' = fromDevice
          BY <2>1, <4>4
        <5>2. fromDevice # <<>> => Len(fromDevice) \in DOMAIN fromDevice
          <6>1. fromDevice \in Seq(Values)
            BY DEF ValueType
          <6> HIDE DEF Values
          <6> QED
            BY <6>1
        <5>3. fromDevice # <<>> => fromDevice'[Len(fromDevice')] = device'
          BY <3>3, <4>2, <5>1, <5>2
        <5> QED
          BY <1>1, <3>3, <3>7, <4>2, <5>1, <5>3 DEF Consistent
      <4>5. Consistent'
        BY <4>3, <4>4
      <4> QED
        BY <1>1, <3>1, <3>4, <3>5, <3>6, <4>5
    <3>8. CASE ~NoSet'
      <4>1. answers => device' = container
        BY <1>3, <3>1, <3>2 DEF OneValue
      <4>2. \A i \in DOMAIN fromDevice' : fromDevice'[i] = container
        BY <2>1, <2>3, <3>3, <4>1
      <4>3. Consistent'
        BY <1>1, <3>3, <3>8, <4>2 DEF Consistent
      <4> QED
        BY <1>1, <3>1, <3>4, <3>5, <3>6, <4>3
    <3> QED
      BY <3>7, <3>8
  <2> QED
    BY <1>1, <1>5, <2>4, <2>5, <2>6 DEF Calm
<1> QED
  BY <1>6, <1>7

\* The device changes a bit; the user wants what it has, if nobody raced.
LEMMA ChangesKeeps ==
    ASSUME VInv, NEW b \in Bits, DeviceChanges(b)
    PROVE  VInv'
<1> USE DEF VInv
<1> DEFINE on == {b} \ device
<1>1. /\ device' = (device \ {b}) \cup on /\ wish' = (wish \ {b}) \cup on
      /\ fromDevice' = Append(fromDevice, device')
      /\ raced' = (raced \/ toDevice # <<>>)
      /\ UNCHANGED <<container, shown, bound, conns, toDevice, answers, untold, awaiting>>
  BY DEF DeviceChanges
<1>2. device' \in Values /\ wish' \in Values
  BY <1>1 DEF ValueType
<1>3. /\ fromDevice' \in Seq(Values) /\ fromDevice' # <<>>
      /\ fromDevice'[Len(fromDevice')] = device'
  BY <1>1, <1>2, Reports
<1>4. raced' \in BOOLEAN
  BY <1>1 DEF ValueType
<1>5. ValueType'
  BY <1>1, <1>2, <1>3, <1>4 DEF ValueType
<1>6. ShownIsContainer'
  BY <1>1 DEF ShownIsContainer
<1>7. Answered'
  BY <1>3 DEF Answered
<1>8. ASSUME ~raced'
      PROVE  ~untold' /\ Ordered' /\ LastIsWanted' /\ OneValue' /\ Consistent'
  <2>0. ~raced /\ toDevice = <<>>
    <3>1. raced' = (raced \/ toDevice # <<>>)
      BY <1>1
    <3> QED
      BY <1>8, <3>1
  <2>1. ~raced /\ toDevice' = <<>> /\ DOMAIN toDevice = {} /\ DOMAIN toDevice' = {}
    BY <1>1, <2>0
  <2>2. ~untold /\ wish = device
    BY <2>1 DEF Calm, Consistent, NoSet
  <2>3. wish' = device'
    BY <1>1, <2>2
  <2> QED
    BY <1>1, <1>3, <2>1, <2>2, <2>3 DEF Ordered, LastIsWanted, OneValue, Consistent, NoSet
<1> QED
  BY <1>5, <1>6, <1>7, <1>8 DEF Calm

-----------------------------------------------------------------------------
(* ParameterValue: the theorems.                                           *)

\* The program starts with everything zero.
LEMMA Initially ==
    ASSUME Init
    PROVE  VInv
<1>1. ValueType
  <2>1. toDevice \in Seq(Messages) /\ fromDevice \in Seq(Values)
    BY EmptySeq DEF Init
  <2>2. {} \in Values
    OBVIOUS
  <2> HIDE DEF Values, Widgets
  <2> QED
    BY <2>1, <2>2 DEF Init, ValueType
<1>2. ShownIsContainer
  BY DEF Init, ShownIsContainer
<1>3. DOMAIN toDevice = {} /\ toDevice = <<>> /\ fromDevice = <<>>
  BY DEF Init
<1>4. Answered /\ Calm
  BY <1>3 DEF Init, Answered, Calm, Ordered, LastIsWanted, OneValue, Consistent, NoSet
<1> QED
  BY <1>1, <1>2, <1>4 DEF VInv

\* Every step keeps the invariant.
LEMMA StepKeeps ==
    ASSUME VInv, [Next]_valueVars
    PROVE  VInv'
<1>1. CASE Next
  BY <1>1, EnterKeeps, BindKeeps, ConnectKeeps, RemoveKeeps, EditKeeps, DeliverKeeps,
     ReceivesKeeps, ChangesKeeps DEF Next
<1>2. CASE UNCHANGED valueVars
  <2> USE <1>2 DEF valueVars, VInv
  <2>1. ValueType' /\ ShownIsContainer'
    BY DEF ValueType, ShownIsContainer
  <2>2. Answered' /\ Calm'
    BY AsBefore
  <2> QED
    BY <2>1, <2>2
<1> QED
  BY <1>1, <1>2

\* The invariant holds in every state of every behaviour.
THEOREM Invariant == Spec => []VInv
<1>1. Init => VInv
  BY Initially
<1>2. VInv /\ [Next]_valueVars => VInv'
  BY StepKeeps
<1> QED
  BY <1>1, <1>2, PTL DEF Spec

\* Whoever sets the container, every widget that is bound shows it.
THEOREM ShownIsContainerInvariant == Spec => []ShownIsContainer
<1>1. VInv => ShownIsContainer
  BY DEF VInv
<1> QED
  BY <1>1, Invariant, PTL

\* Container and device agree when nothing is under way.
THEOREM ContainerIsDeviceInvariant == Spec => []ContainerIsDevice
<1>1. VInv => ContainerIsDevice
  <2> SUFFICES ASSUME VInv, Quiet, ~(raced /\ ~answers)
               PROVE  container = device \/ untold
    BY DEF ContainerIsDevice
  <2>1. toDevice = <<>> /\ fromDevice = <<>> /\ DOMAIN toDevice = {}
    BY DEF Quiet
  <2>2. CASE answers
    BY <2>1, <2>2 DEF VInv, Answered
  <2>3. CASE ~raced
    BY <2>1, <2>3 DEF VInv, Calm, Consistent, NoSet
  <2> QED
    BY <2>2, <2>3
<1> QED
  BY <1>1, Invariant, PTL

\* No change of a bit undoes another, unless the user and the device changed
\* the value at the same time.
THEOREM NoLostBitInvariant == Spec => []NoLostBit
<1>1. VInv => NoLostBit
  <2> SUFFICES ASSUME VInv, Quiet, ~raced
               PROVE  device = wish
    BY DEF NoLostBit
  <2>1. DOMAIN toDevice = {}
    BY DEF Quiet
  <2> QED
    BY <2>1 DEF VInv, Calm, Consistent, NoSet
<1> QED
  BY <1>1, Invariant, PTL

-----------------------------------------------------------------------------
(* NumberWidgets: numbers and positions.                                   *)

\* A product grows by one factor when the other does.
LEMMA TimesLess ==
    ASSUME NEW s \in Nat \ {0}, NEW a \in Int, NEW b \in Int, a < b
    PROVE  s * a + s <= s * b
<1>1. s * (b - a - 1) >= 0
  OBVIOUS
<1>2. s * (b - a - 1) = s * b - s * a - s
  OBVIOUS
<1> QED
  BY <1>1, <1>2

\* A quotient, and one that is exact.
LEMMA Quotient ==
    ASSUME NEW a \in Int, NEW d \in Nat \ {0}
    PROVE  /\ a \div d \in Int
           /\ d * (a \div d) <= a /\ a < d * (a \div d) + d
           /\ a % d = 0 => d * (a \div d) = a
OBVIOUS

\* The ranges and the limits.
RangeType == {r \in [lo : Nat, hi : Nat] : r.lo <= r.hi}
LimitsType == [lo : Nat, hi : Nat]

\* A number that is brought into a range.
LEMMA ClampType ==
    ASSUME NEW v \in Int, NEW r \in RangeType
    PROVE  /\ N!Clamp(v, r) \in r.lo..r.hi
           /\ v \in r.lo..r.hi => N!Clamp(v, r) = v
           /\ v < N!Clamp(v, r) => N!Clamp(v, r) = r.lo
           /\ v > N!Clamp(v, r) => N!Clamp(v, r) = r.hi
BY DEF N!Clamp, RangeType

\* The nearest position: twice the error is at most the distance of two positions.
LEMMA NearestPosition ==
    ASSUME NEW n \in Int, NEW l \in LimitsType, l.lo # l.hi
    PROVE  \E q \in Int :
              LET scale == IF l.hi < l.lo THEN l.lo - l.hi ELSE l.hi - l.lo
                  up == IF l.hi < l.lo THEN l.lo - n ELSE n - l.lo
              IN  /\ N!Position(n, l) = (IF q < 0 THEN 0 ELSE IF q > Steps THEN Steps ELSE q)
                  /\ 2 * (scale * q) <= 2 * (up * Steps) + scale
                  /\ 2 * (up * Steps) < 2 * (scale * q) + scale
<1> DEFINE scale == IF l.hi < l.lo THEN l.lo - l.hi ELSE l.hi - l.lo
           up == IF l.hi < l.lo THEN l.lo - n ELSE n - l.lo
           q == (2 * up * Steps + scale) \div (2 * scale)
<1>1. scale \in Nat \ {0} /\ up \in Int /\ Steps \in Nat \ {0} /\ 2 * scale \in Nat \ {0}
  BY NumberAssumed DEF LimitsType, N!NumberAssumption
<1>2. 2 * up * Steps = 2 * (up * Steps) /\ up * Steps \in Int
  <2> HIDE DEF scale, up
  <2> QED
    BY <1>1
<1>3. q \in Int /\ (2 * scale) * q <= 2 * up * Steps + scale
      /\ 2 * up * Steps + scale < (2 * scale) * q + 2 * scale
  <2> HIDE DEF scale, up
  <2>1. 2 * up * Steps + scale \in Int
    BY <1>1, <1>2
  <2> QED
    BY <1>1, <2>1, Quotient
<1>4. (2 * scale) * q = 2 * (scale * q) /\ scale * q \in Int
  <2> HIDE DEF scale, up, q
  <2> QED
    BY <1>1, <1>3
<1>5. N!Position(n, l) = (IF q < 0 THEN 0 ELSE IF q > Steps THEN Steps ELSE q)
  BY DEF N!Position, N!Clamp
<1> HIDE DEF scale, up, q
<1>6. /\ 2 * (scale * q) <= 2 * (up * Steps) + scale
      /\ 2 * (up * Steps) < 2 * (scale * q) + scale
  BY <1>1, <1>2, <1>3, <1>4
<1>7. /\ N!Position(n, l) = (IF q < 0 THEN 0 ELSE IF q > Steps THEN Steps ELSE q)
      /\ 2 * (scale * q) <= 2 * (up * Steps) + scale
      /\ 2 * (up * Steps) < 2 * (scale * q) + scale
  BY <1>5, <1>6
<1> q \in Int
  BY <1>3
<1> WITNESS q \in Int
<1> QED
  BY <1>7 DEF scale, up

\* A position is one of the slider.
LEMMA PositionType ==
    ASSUME NEW n \in Int, NEW l \in LimitsType, l.lo # l.hi
    PROVE  N!Position(n, l) \in 0..Steps
BY NumberAssumed, NearestPosition DEF N!NumberAssumption

\* The number at a position, by the point on the scale from one limit to the other.
LEMMA NumberAt ==
    ASSUME NEW p \in 0..Steps, NEW l \in LimitsType, NEW n \in N!AtPosition(p, l)
    PROVE  LET scaled == p * (l.hi - l.lo) + l.lo * Steps
           IN  /\ n \in Nat
               /\ scaled \in Nat
               /\ Steps * n <= scaled
               /\ scaled <= Steps * n + Steps
<1> DEFINE scaled == p * (l.hi - l.lo) + l.lo * Steps
<1>1. /\ Steps \in Nat \ {0} /\ p \in Nat /\ Steps - p \in Nat /\ l.lo \in Nat /\ l.hi \in Nat
  BY NumberAssumed DEF LimitsType, N!NumberAssumption
<1>2. scaled = p * l.hi + (Steps - p) * l.lo
  BY <1>1
<1>3. p * l.hi \in Nat /\ (Steps - p) * l.lo \in Nat /\ scaled \in Nat
  <2>1. \A a, b \in Nat : a * b \in Nat
    OBVIOUS
  <2>2. p * l.hi \in Nat /\ (Steps - p) * l.lo \in Nat
    BY <1>1, <2>1
  <2> HIDE DEF scaled
  <2> QED
    BY <1>2, <2>2
<1> DEFINE k == scaled \div Steps
<1> HIDE DEF scaled
<1>4. k \in Int /\ Steps * k <= scaled /\ scaled < Steps * k + Steps
      /\ (scaled % Steps = 0 => Steps * k = scaled)
  BY <1>1, <1>3, Quotient
<1>5. k \in Nat
  <2> HIDE DEF k
  <2> SUFFICES ASSUME k < 0 PROVE FALSE
    BY <1>4
  <2>1. Steps * k + Steps <= Steps * 0
    BY <1>1, <1>4, TimesLess
  <2> QED
    BY <1>1, <1>3, <1>4, <2>1
<1>6. n = k \/ (n = k - 1 /\ scaled % Steps = 0 /\ p \in 1..Steps - 1 /\ l.hi # l.lo)
  BY DEF N!AtPosition, scaled
<1> HIDE DEF k
<1>7. CASE n = k
  BY <1>1, <1>3, <1>4, <1>5, <1>7 DEF scaled
<1>8. CASE n = k - 1 /\ scaled % Steps = 0 /\ p \in 1..Steps - 1 /\ l.hi # l.lo
  <2>1. scaled > 0
    <3>1. p * l.hi > 0 \/ (Steps - p) * l.lo > 0
      <4>1. \A a, b \in Nat \ {0} : a * b > 0
        OBVIOUS
      <4>2. CASE l.hi # 0
        BY <1>1, <1>8, <4>1, <4>2
      <4>3. CASE l.lo # 0
        BY <1>1, <1>8, <4>1, <4>3
      <4> QED
        BY <1>1, <1>8, <4>2, <4>3
    <3> QED
      BY <1>2, <1>3, <3>1
  <2>2. k # 0
    BY <1>1, <1>4, <1>8, <2>1
  <2>3. n \in Nat
    BY <1>5, <1>8, <2>2
  <2>4. Steps * n = Steps * k - Steps
    BY <1>1, <1>5, <1>8
  <2> QED
    BY <1>1, <1>3, <1>4, <1>8, <2>3, <2>4 DEF scaled
<1> QED
  BY <1>6, <1>7, <1>8

\* A slider that shows the number n, and is moved from there to v: the number
\* m that comes of it is not on the other side of n, and below n on its way down.
LEMMA SliderFollows ==
    ASSUME NEW n \in Nat, NEW l \in LimitsType, l.lo # l.hi, NEW v \in 0..Steps,
           v # N!Position(n, l), NEW m \in N!AtPosition(v, l)
    PROVE  IF (v > N!Position(n, l)) = (l.lo < l.hi) THEN m >= n ELSE m < n
<1> DEFINE scale == IF l.hi < l.lo THEN l.lo - l.hi ELSE l.hi - l.lo
           up == IF l.hi < l.lo THEN l.lo - n ELSE n - l.lo
           scaled == v * (l.hi - l.lo) + l.lo * Steps
<1>1. scale \in Nat \ {0} /\ up \in Int /\ Steps \in Nat \ {0} /\ v \in Nat
      /\ l.lo \in Nat /\ l.hi \in Nat
  BY NumberAssumed DEF LimitsType, N!NumberAssumption
<1>2. PICK q \in Int : /\ N!Position(n, l) = (IF q < 0 THEN 0 ELSE IF q > Steps THEN Steps ELSE q)
                       /\ 2 * (scale * q) <= 2 * (up * Steps) + scale
                       /\ 2 * (up * Steps) < 2 * (scale * q) + scale
  BY NearestPosition
<1>3. /\ m \in Nat /\ scaled \in Nat
      /\ Steps * m <= scaled /\ scaled <= Steps * m + Steps
  BY NumberAt
<1>4. CASE l.lo < l.hi
  <2>1. up * Steps = n * Steps - l.lo * Steps /\ scaled = scale * v + l.lo * Steps
        /\ scale * v \in Int /\ scale * q \in Int /\ n * Steps \in Int /\ l.lo * Steps \in Int
    BY <1>1, <1>2, <1>4
  <2>2. Steps * m <= scale * v + l.lo * Steps /\ scale * v + l.lo * Steps <= Steps * m + Steps
    <3> HIDE DEF scale
    <3> QED BY <1>3, <2>1
  <2>3. CASE v > N!Position(n, l)
    <3>1. q < v
      BY <1>1, <1>2, <2>3
    <3>2. scale * q + scale <= scale * v
      <4>1. q \in Int /\ v \in Int /\ scale \in Nat \ {0}
        BY <1>1, <1>2
      <4> HIDE DEF scale, up, scaled
      <4> QED BY <3>1, <4>1, TimesLess
    <3>3. n * Steps < scale * v + l.lo * Steps
      <4> HIDE DEF scale, up, scaled
      <4> QED
        BY <1>1, <1>2, <2>1, <3>2
    <3>4. n * Steps < Steps * m + Steps
      <4> HIDE DEF scale, up, scaled
      <4> QED
        BY <1>1, <1>3, <2>1, <2>2, <3>3
    <3>5. m >= n
      <4> SUFFICES ASSUME m < n PROVE FALSE
        BY <1>3
      <4>1. Steps * m + Steps <= Steps * n
        BY <1>1, <1>3, TimesLess
      <4> QED
        BY <1>1, <1>3, <3>4, <4>1
    <3> QED
      BY <1>4, <2>3, <3>5
  <2>4. CASE v < N!Position(n, l)
    <3>1. v < q
      BY <1>1, <1>2, <2>4
    <3>2. scale * v + scale <= scale * q
      <4> HIDE DEF scale
      <4> QED
        BY <1>1, <3>1, TimesLess
    <3>3. scale * v + l.lo * Steps < n * Steps
      <4> HIDE DEF scale, up, scaled
      <4> QED
        BY <1>1, <1>2, <2>1, <3>2
    <3>4. m < n
      <4> SUFFICES ASSUME n <= m PROVE FALSE
        BY <1>3
      <4>1. n * Steps <= Steps * m
        BY <1>1, <1>3
      <4> HIDE DEF scale, up, scaled
      <4> QED
        BY <1>1, <1>3, <2>1, <2>2, <3>3, <4>1
    <3> QED
      BY <1>1, <1>2, <1>4, <2>4, <3>4
  <2> QED
    BY <1>1, <1>2, <2>3, <2>4
<1>5. CASE l.hi < l.lo
  <2>1. up * Steps = l.lo * Steps - n * Steps /\ scaled = l.lo * Steps - scale * v
        /\ scale * v \in Int /\ scale * q \in Int /\ n * Steps \in Int /\ l.lo * Steps \in Int
    BY <1>1, <1>2, <1>5
  <2>2. Steps * m <= l.lo * Steps - scale * v /\ l.lo * Steps - scale * v <= Steps * m + Steps
    <3> HIDE DEF scale
    <3> QED BY <1>3, <2>1
  <2>3. CASE v > N!Position(n, l)
    <3>1. q < v
      BY <1>1, <1>2, <2>3
    <3>2. scale * q + scale <= scale * v
      <4>1. q \in Int /\ v \in Int /\ scale \in Nat \ {0}
        BY <1>1, <1>2
      <4> HIDE DEF scale, up, scaled
      <4> QED BY <3>1, <4>1, TimesLess
    <3>3. l.lo * Steps - scale * v < n * Steps
      <4> HIDE DEF scale, up, scaled
      <4> QED
        BY <1>1, <1>2, <2>1, <3>2
    <3>4. m < n
      <4> SUFFICES ASSUME n <= m PROVE FALSE
        BY <1>3
      <4>1. n * Steps <= Steps * m
        BY <1>1, <1>3
      <4> HIDE DEF scale, up, scaled
      <4> QED
        BY <1>1, <1>3, <2>1, <2>2, <3>3, <4>1
    <3> QED
      BY <1>1, <1>5, <2>3, <3>4
  <2>4. CASE v < N!Position(n, l)
    <3>1. v < q
      BY <1>1, <1>2, <2>4
    <3>2. scale * v + scale <= scale * q
      <4> HIDE DEF scale
      <4> QED
        BY <1>1, <3>1, TimesLess
    <3>3. n * Steps < l.lo * Steps - scale * v
      <4> HIDE DEF scale, up, scaled
      <4> QED
        BY <1>1, <1>2, <2>1, <3>2
    <3>4. n * Steps < Steps * m + Steps
      <4> HIDE DEF scale, up, scaled
      <4> QED
        BY <1>1, <1>3, <2>1, <2>2, <3>3
    <3>5. m >= n
      <4> SUFFICES ASSUME m < n PROVE FALSE
        BY <1>3
      <4>1. Steps * m + Steps <= Steps * n
        BY <1>1, <1>3, TimesLess
      <4> QED
        BY <1>1, <1>3, <3>4, <4>1
    <3> QED
      BY <1>1, <1>2, <1>5, <2>4, <3>5
  <2> QED
    BY <1>1, <1>2, <2>3, <2>4
<1> QED
  BY <1>1, <1>4, <1>5

-----------------------------------------------------------------------------
(* NumberWidgets: the steps.                                               *)

\* TypeOK is not inductive: a bound widget is one, and a range is not empty.
NumberInv ==
    /\ N!TypeOK
    /\ numberBound \subseteq N!Widgets
    /\ spinRange \in [Spins \cup Displays -> RangeType]
    /\ position \in [N!Widgets -> Nat]
    /\ N!ShowsNumber

\* What a widget may show.
NumberPlace(w) == IF w \in Sliders THEN 0..Steps ELSE spinRange[w].lo..spinRange[w].hi

\* What SetVariantData makes of a number is something the widget may show.
LEMMA NumberSetType ==
    ASSUME NumberInv, NEW w \in N!Widgets, NEW n \in Nat
    PROVE  N!SetVariantData(w, n) \in NumberPlace(w) /\ N!SetVariantData(w, n) \in Nat
<1>1. limits \in LimitsType /\ position[w] \in NumberPlace(w) /\ position[w] \in Nat
      /\ Steps \in Nat
  BY NumberAssumed DEF NumberInv, N!TypeOK, NumberPlace, N!NumberAssumption, LimitsType
<1>2. CASE w \in Sliders
  <2>1. w \notin Spins /\ w \notin Displays
    BY NumberAssumed, <1>2 DEF N!NumberAssumption, N!Editors
  <2>2. CASE limits.lo = limits.hi
    BY <1>1, <1>2, <2>1, <2>2 DEF N!SetVariantData
  <2>3. CASE limits.lo # limits.hi
    BY <1>1, <1>2, <2>1, <2>3, PositionType DEF N!SetVariantData, NumberPlace
  <2> QED
    BY <2>2, <2>3
<1>3. CASE w \in Spins
  <2>1. w \notin Sliders /\ w \notin Displays /\ spinRange[w] \in RangeType
    BY NumberAssumed, <1>3 DEF N!NumberAssumption, NumberInv, N!Editors
  <2>2. N!SetVariantData(w, n) = N!Clamp(n, spinRange[w])
    BY <1>3, <2>1 DEF N!SetVariantData
  <2> QED
    BY <2>1, <2>2, ClampType DEF NumberPlace, RangeType
<1>4. CASE w \in Displays
  <2>1. w \notin Sliders /\ w \notin Spins /\ spinRange[w] \in RangeType
    BY NumberAssumed, <1>4 DEF N!NumberAssumption, NumberInv, N!Editors
  <2>2. N!SetVariantData(w, n) = N!Displayed(w, n)
    BY <1>4, <2>1 DEF N!SetVariantData
  <2> QED
    BY <1>1, <2>1, <2>2 DEF N!Displayed, NumberPlace, RangeType
<1> QED
  BY <1>2, <1>3, <1>4 DEF N!Widgets, N!Editors

\* A new value: every widget shows what it makes of it.
LEMMA NumberReceiveKeeps ==
    ASSUME NumberInv, NEW n \in Nat, N!Receive(n),
           UNCHANGED <<limits, numberBound, connected, spinRange, asking>>
    PROVE  NumberInv'
<1>1. number' = n /\ stale' = {} /\ position' \in [N!Widgets -> Nat]
  BY NumberSetType DEF N!Receive, NumberInv
<1>2. \A w \in N!Widgets : NumberPlace(w)' = NumberPlace(w) /\ position'[w] \in NumberPlace(w)
  BY NumberSetType DEF N!Receive, NumberInv, N!TypeOK, NumberPlace
<1>3. \A w \in numberBound : position'[w] = N!SetVariantData(w, number)'
  <2> SUFFICES ASSUME NEW w \in numberBound PROVE position'[w] = N!SetVariantData(w, number)'
    OBVIOUS
  <2>1. w \in N!Widgets /\ position'[w] = N!SetVariantData(w, n)
    BY DEF N!Receive, NumberInv
  <2>2. N!Displayed(w, number)' = N!Displayed(w, n) \/ position'[w] # N!Displayed(w, n)
    BY <1>1 DEF N!Displayed
  <2>3. CASE w \in Sliders
    <3>1. w \notin Spins /\ w \notin Displays
      BY NumberAssumed, <2>3 DEF N!NumberAssumption, N!Editors
    <3> QED
      BY <1>1, <2>1, <2>3, <3>1 DEF N!SetVariantData
  <2>4. CASE w \in Spins
    <3>1. w \notin Sliders /\ w \notin Displays
      BY NumberAssumed, <2>4 DEF N!NumberAssumption, N!Editors
    <3> QED
      BY <1>1, <2>1, <2>4, <3>1 DEF N!SetVariantData
  <2>5. CASE w \in Displays
    <3>1. w \notin Sliders /\ w \notin Spins
      BY NumberAssumed, <2>5 DEF N!NumberAssumption, N!Editors
    <3> QED
      BY <1>1, <2>1, <2>2, <2>5, <3>1 DEF N!SetVariantData
  <2> QED
    BY <2>1, <2>3, <2>4, <2>5 DEF N!Widgets, N!Editors
<1>4. N!TypeOK'
  BY <1>1, <1>2 DEF NumberInv, N!TypeOK, NumberPlace
<1> QED
  BY <1>1, <1>3, <1>4 DEF NumberInv, N!ShowsNumber

\* Where a widget shows the same, under the same limits and in the same range,
\* it makes the same of the number; only sliders depend on the limits.
LEMMA SameShown ==
    ASSUME NumberInv, NEW w \in N!Widgets, position'[w] = position[w], number' = number,
           w \notin Sliders => spinRange'[w] = spinRange[w],
           w \in Sliders => limits' = limits
    PROVE  N!SetVariantData(w, number)' = N!SetVariantData(w, number)
<1>1. CASE w \in Sliders
  <2>1. w \notin Spins /\ w \notin Displays
    BY NumberAssumed, <1>1 DEF N!NumberAssumption, N!Editors
  <2> QED
    BY <1>1, <2>1 DEF N!SetVariantData
<1>2. CASE w \in Spins
  <2>1. w \notin Sliders /\ w \notin Displays
    BY NumberAssumed, <1>2 DEF N!NumberAssumption, N!Editors
  <2> QED
    BY <1>2, <2>1 DEF N!SetVariantData
<1>3. CASE w \in Displays
  <2>1. w \notin Sliders /\ w \notin Spins
    BY NumberAssumed, <1>3 DEF N!NumberAssumption, N!Editors
  <2> QED
    BY <1>3, <2>1 DEF N!SetVariantData, N!Displayed
<1> QED
  BY <1>1, <1>2, <1>3 DEF N!Widgets, N!Editors

\* The user enters a value that the widget can show.
LEMMA NumberEnterKeeps ==
    ASSUME NumberInv, NEW w \in N!Editors, NEW v \in N!Choices(w), N!Enter(w, v)
    PROVE  NumberInv'
<1>1. w \in N!Widgets /\ v \in NumberPlace(w) /\ v \in Nat
  <2>1. Steps \in Nat /\ (w \notin Sliders => spinRange[w] \in RangeType)
    BY NumberAssumed DEF N!NumberAssumption, NumberInv, N!Editors
  <2> QED
    BY <2>1 DEF N!Choices, NumberPlace, N!Widgets, RangeType
<1>2. CASE w \in numberBound \cap connected
  <2>1. PICK n \in N!Entered(w, v) : N!Receive(n)
    BY <1>2 DEF N!Enter
  <2>2. n \in Nat
    <3>1. limits \in LimitsType
      BY NumberAssumed DEF NumberInv, N!TypeOK, N!NumberAssumption, LimitsType
    <3>2. w \in Sliders => v \in 0..Steps
      BY DEF N!Choices
    <3> QED
      BY <1>1, <2>1, <3>1, <3>2, NumberAt DEF N!Entered
  <2> QED
    BY <2>1, <2>2, NumberReceiveKeeps DEF N!Enter
<1>3. CASE w \notin numberBound \cap connected
  <2>1. w \notin numberBound
    BY <1>3 DEF NumberInv, N!TypeOK
  <2>2. /\ position' = [position EXCEPT ![w] = v]
        /\ UNCHANGED <<number, stale, limits, numberBound, connected, spinRange, asking>>
    BY <1>3 DEF N!Enter
  <2>3. N!TypeOK' /\ position' \in [N!Widgets -> Nat]
    BY <1>1, <2>2 DEF NumberInv, N!TypeOK, NumberPlace
  <2>4. \A x \in numberBound \ stale : position'[x] = N!SetVariantData(x, number)'
    <3> SUFFICES ASSUME NEW x \in numberBound \ stale PROVE position'[x] = N!SetVariantData(x, number)'
      OBVIOUS
    <3>1. x \in N!Widgets /\ position'[x] = position[x] /\ position[x] = N!SetVariantData(x, number)
      BY <2>1, <2>2 DEF NumberInv, N!ShowsNumber
    <3> QED
      BY <2>2, <3>1, SameShown
  <2> QED
    BY <2>2, <2>3, <2>4 DEF NumberInv, N!ShowsNumber
<1> QED
  BY <1>2, <1>3

\* What it takes for a step that leaves the number alone.
LEMMA NumberBindingKeeps ==
    ASSUME NumberInv, number' = number, N!TypeOK', numberBound' \subseteq N!Widgets,
           spinRange' \in [Spins \cup Displays -> RangeType], position' \in [N!Widgets -> Nat],
           \A w \in numberBound' \ stale' :
              /\ w \in numberBound \ stale
              /\ position'[w] = position[w]
              /\ w \notin Sliders => spinRange'[w] = spinRange[w]
              /\ w \in Sliders => limits' = limits
    PROVE  NumberInv'
<1>1. \A w \in numberBound' \ stale' : position'[w] = N!SetVariantData(w, number)'
  BY SameShown DEF NumberInv, N!ShowsNumber
<1> QED
  BY <1>1 DEF NumberInv, N!ShowsNumber

\* What is assumed of the constants of numbers, as it is used below.
LEMMA NumberFacts ==
    /\ \A w \in Sliders : w \notin Spins /\ w \notin Displays
    /\ \A w \in Spins : w \notin Displays
    /\ Sliders \subseteq N!Editors /\ Spins \subseteq N!Editors /\ N!Editors \subseteq N!Widgets
    /\ Displays \subseteq N!Widgets /\ \A w \in Displays : w \notin N!Editors
    /\ \A w \in N!Widgets : w \in Sliders \/ w \in Spins \cup Displays
    /\ Nobody \notin N!Widgets
    /\ Limits \subseteq LimitsType /\ N!Unset \in Limits
    /\ Steps \in Nat \ {0}
    /\ FormRange \in [Spins \cup Displays -> RangeType]
BY NumberAssumed DEF N!NumberAssumption, N!Editors, N!Widgets, LimitsType, RangeType

\* A spin box is dropped on: bound, with the limits for its range.
LEMMA NumberDropSpinKeeps ==
    ASSUME NumberInv, NEW w \in Spins, N!DropSpin(w)
    PROVE  NumberInv'
<1> DEFINE raised == [lo |-> limits.lo,
                      hi |-> IF spinRange[w].hi < limits.lo THEN limits.lo ELSE spinRange[w].hi]
           final == [lo |-> IF limits.lo < limits.hi THEN limits.lo ELSE limits.hi,
                     hi |-> limits.hi]
           new == N!Clamp(N!Clamp(position[w], raised), final)
<1>1. limits \in LimitsType /\ spinRange[w] \in RangeType /\ w \in N!Widgets /\ w \in N!Editors
  BY NumberFacts DEF NumberInv, N!TypeOK
<1>2. raised \in RangeType /\ final \in RangeType
  BY <1>1 DEF LimitsType, RangeType
<1>3. new \in final.lo..final.hi /\ new \in Nat
  <2>1. position[w] \in Nat
    BY <1>1 DEF NumberInv
  <2> HIDE DEF raised, final
  <2>2. N!Clamp(position[w], raised) \in Nat
    BY <1>2, <2>1, ClampType DEF RangeType
  <2> QED
    BY <1>2, <2>2, ClampType DEF RangeType
<1>4. /\ spinRange' = [spinRange EXCEPT ![w] = final] /\ position' = [position EXCEPT ![w] = new]
      /\ numberBound' = numberBound \cup {w} /\ stale' = stale \cup {w}
      /\ connected' = connected \cup {w}
      /\ UNCHANGED <<number, limits, asking>> /\ asking = Nobody
  BY <1>1 DEF N!DropSpin, N!Register, N!UserInput
<1> HIDE DEF raised, final, new
<1>5. spinRange' \in [Spins \cup Displays -> RangeType] /\ position' \in [N!Widgets -> Nat]
  BY <1>1, <1>2, <1>3, <1>4 DEF NumberInv
<1>6. N!TypeOK'
  <2>1. \A x \in N!Widgets : position'[x] \in (IF x \in Sliders THEN 0..Steps
                                         ELSE spinRange'[x].lo..spinRange'[x].hi)
    <3> SUFFICES ASSUME NEW x \in N!Widgets
                 PROVE  position'[x] \in (IF x \in Sliders THEN 0..Steps
                                       ELSE spinRange'[x].lo..spinRange'[x].hi)
      OBVIOUS
    <3>1. CASE x = w
      BY <1>3, <1>4, <3>1, NumberFacts DEF NumberInv
    <3>2. CASE x # w
      BY <1>4, <3>2, NumberFacts DEF NumberInv, N!TypeOK
    <3> QED
      BY <3>1, <3>2
  <2>2. /\ number' \in Nat /\ limits' \in Limits
        /\ asking' \in Sliders \cup {Nobody} /\ asking' \notin numberBound'
        /\ numberBound' \cap N!Editors \subseteq connected' /\ connected' \subseteq N!Editors
        /\ stale' \subseteq numberBound'
    BY <1>1, <1>4, NumberFacts DEF NumberInv, N!TypeOK
  <2> QED
    BY <2>1, <2>2 DEF N!TypeOK
<1> QED
  BY <1>1, <1>4, <1>5, <1>6, NumberBindingKeeps DEF NumberInv

\* A display is dropped on.
LEMMA NumberDropDisplayKeeps ==
    ASSUME NumberInv, NEW w \in Displays, N!DropDisplay(w)
    PROVE  NumberInv'
<1>1. /\ w \in N!Widgets /\ w \notin N!Editors
      /\ numberBound' = numberBound \cup {w} /\ stale' = stale \cup {w} /\ asking = Nobody
      /\ connected' = connected /\ UNCHANGED <<number, limits, position, spinRange, asking>>
  BY NumberFacts DEF N!DropDisplay, N!Register, N!UserInput
<1>2. N!TypeOK'
  BY <1>1, NumberFacts DEF NumberInv, N!TypeOK
<1> QED
  BY <1>1, <1>2, NumberBindingKeeps DEF NumberInv

\* A slider is dropped on: bound at once, or after the dialogs.
LEMMA NumberDropSliderKeeps ==
    ASSUME NumberInv, NEW w \in Sliders, N!DropSlider(w)
    PROVE  NumberInv'
<1>1. w \in N!Widgets /\ w \in N!Editors /\ asking = Nobody
      /\ UNCHANGED <<number, limits, position, spinRange>>
  BY NumberFacts DEF N!DropSlider, N!UserInput
<1>2. CASE limits.lo = limits.hi
  <2>1. /\ asking' = w
        /\ numberBound' = numberBound \ {w} /\ connected' = connected \ {w} /\ stale' = stale \ {w}
    BY <1>2 DEF N!DropSlider
  <2>2. N!TypeOK'
    BY <1>1, <2>1, NumberFacts DEF NumberInv, N!TypeOK
  <2> QED
    BY <1>1, <2>1, <2>2, NumberBindingKeeps DEF NumberInv
<1>3. CASE limits.lo # limits.hi
  <2>1. /\ asking' = asking
        /\ numberBound' = numberBound \cup {w} /\ connected' = connected \cup {w}
        /\ stale' = stale \cup {w}
    BY <1>1, <1>3 DEF N!DropSlider, N!Register
  <2>2. N!TypeOK'
    BY <1>1, <2>1, NumberFacts DEF NumberInv, N!TypeOK
  <2> QED
    BY <1>1, <2>1, <2>2, NumberBindingKeeps DEF NumberInv
<1> QED
  BY <1>2, <1>3

\* The dialogs are answered.
LEMMA NumberAnswerKeeps ==
    ASSUME NumberInv, NEW l \in Limits, N!Answer(l)
    PROVE  NumberInv'
<1>1. /\ asking \in Sliders /\ asking \in N!Widgets /\ asking \in N!Editors
      /\ limits' = l /\ asking' = Nobody
      /\ numberBound' = numberBound \cup {asking} /\ connected' = connected \cup {asking}
      /\ stale' = stale \cup (numberBound \cap Sliders) \cup {asking}
      /\ UNCHANGED <<number, position, spinRange>>
  BY NumberFacts DEF N!Answer, NumberInv, N!TypeOK
<1>2. N!TypeOK'
  BY <1>1, NumberFacts DEF NumberInv, N!TypeOK
<1> QED
  BY <1>1, <1>2, NumberBindingKeeps DEF NumberInv

\* The limits are changed in the explorer.
LEMMA NumberChangeMinMaxKeeps ==
    ASSUME NumberInv, NEW l \in Limits, N!ChangeMinMaxValue(l)
    PROVE  NumberInv'
<1>1. /\ limits' = l /\ stale' = stale \cup (numberBound \cap Sliders)
      /\ UNCHANGED <<number, numberBound, connected, position, spinRange, asking>>
  BY DEF N!ChangeMinMaxValue
<1>2. N!TypeOK'
  BY <1>1, NumberFacts DEF NumberInv, N!TypeOK
<1> QED
  BY <1>1, <1>2, NumberBindingKeeps DEF NumberInv

\* A widget is unbound, and reset.
LEMMA NumberRemoveKeeps ==
    ASSUME NumberInv, NEW w \in N!Widgets, N!RemoveConnection(w)
    PROVE  NumberInv'
<1> DEFINE new == CASE w \in Sliders -> 0
                    [] w \in Spins -> N!Clamp(0, spinRange[w])
                    [] OTHER -> position[w]
<1>1. /\ asking = Nobody /\ numberBound' = numberBound \ {w} /\ stale' = stale \ {w}
      /\ position' = [position EXCEPT ![w] = new]
      /\ UNCHANGED <<number, limits, connected, spinRange, asking>>
  BY DEF N!RemoveConnection, N!UserInput
<1>2. new \in Nat /\ new \in NumberPlace(w)
  <2>1. CASE w \in Sliders
    BY <2>1, NumberFacts DEF NumberPlace
  <2>2. CASE w \in Spins
    <3>1. spinRange[w] \in RangeType /\ new = N!Clamp(0, spinRange[w])
      BY <2>2, NumberFacts DEF NumberInv
    <3> HIDE DEF new
    <3> QED
      BY <2>2, <3>1, ClampType, NumberFacts DEF NumberPlace, RangeType
  <2>3. CASE w \notin Sliders /\ w \notin Spins
    <3>1. new = position[w]
      BY <2>3
    <3> HIDE DEF new
    <3> QED
      BY <3>1 DEF NumberPlace, NumberInv, N!TypeOK
  <2> QED
    BY <2>1, <2>2, <2>3
<1> HIDE DEF new
<1>3. N!TypeOK' /\ position' \in [N!Widgets -> Nat]
  BY <1>1, <1>2, NumberFacts DEF NumberInv, N!TypeOK, NumberPlace
<1> QED
  BY <1>1, <1>3, NumberBindingKeeps DEF NumberInv

\* What a widget of a form that is just loaded shows.
LEMMA NumberFreshType ==
    ASSUME NEW w \in N!Widgets
    PROVE  /\ N!Fresh(w) \in Nat
           /\ N!Fresh(w) \in (IF w \in Sliders THEN 0..Steps
                            ELSE FormRange[w].lo..FormRange[w].hi)
<1>1. CASE w \in Sliders
  BY <1>1, NumberFacts DEF N!Fresh
<1>2. CASE w \notin Sliders
  <2>1. FormRange[w] \in RangeType
    BY <1>2, NumberFacts
  <2> QED
    BY <1>2, <2>1, ClampType DEF N!Fresh, RangeType
<1> QED
  BY <1>1, <1>2

\* An experiment is loaded.
LEMMA NumberLoadKeeps ==
    ASSUME NumberInv, NEW l \in Limits, NEW W \in SUBSET N!Widgets, N!LoadExperiment(l, W)
    PROVE  NumberInv'
<1>1. number' \in Nat
  BY NumberAssumed DEF N!LoadExperiment, N!NumberAssumption
<1>2. spinRange' = FormRange /\ position' = [w \in N!Widgets |-> N!Fresh(w)]
      /\ numberBound' = W /\ stale' = W /\ connected' = W \cap N!Editors /\ limits' = l
      /\ asking' = asking /\ asking = Nobody
  BY DEF N!LoadExperiment, N!UserInput
<1>3. N!TypeOK'
  BY <1>1, <1>2, NumberFreshType, NumberFacts DEF N!TypeOK
<1> QED
  BY <1>2, <1>3, NumberFreshType, NumberFacts DEF NumberInv, N!ShowsNumber

\* The invariant holds at the start,
LEMMA NumberInit == N!Init => NumberInv
<1> SUFFICES ASSUME N!Init PROVE NumberInv
  OBVIOUS
<1>1. number \in Nat
  BY NumberAssumed DEF N!Init, N!NumberAssumption
<1>2. N!TypeOK
  BY <1>1, NumberFreshType, NumberFacts DEF N!Init, N!TypeOK
<1> QED
  BY <1>2, NumberFreshType, NumberFacts DEF N!Init, NumberInv, N!ShowsNumber

\* and every step keeps it.
LEMMA NumberNext == NumberInv /\ [N!Next]_(N!numberVars) => NumberInv'
<1> SUFFICES ASSUME NumberInv, [N!Next]_(N!numberVars) PROVE NumberInv'
  OBVIOUS
<1>1. CASE \E w \in N!Editors : \E v \in N!Choices(w) : N!Enter(w, v)
  BY <1>1, NumberEnterKeeps
<1>2. CASE \E w \in Spins : N!DropSpin(w)
  BY <1>2, NumberDropSpinKeeps
<1>3. CASE \E w \in Displays : N!DropDisplay(w)
  BY <1>3, NumberDropDisplayKeeps
<1>4. CASE \E w \in Sliders : N!DropSlider(w)
  BY <1>4, NumberDropSliderKeeps
<1>5. CASE \E w \in N!Widgets : N!RemoveConnection(w)
  BY <1>5, NumberRemoveKeeps
<1>6. CASE \E l \in Limits : N!Answer(l) \/ N!ChangeMinMaxValue(l)
  BY <1>6, NumberAnswerKeeps, NumberChangeMinMaxKeeps
<1>7. CASE \E l \in Limits, W \in SUBSET N!Widgets : N!LoadExperiment(l, W)
  BY <1>7, NumberLoadKeeps
<1>8. CASE \E n \in Numbers : N!DeviceSets(n)
  BY <1>8, NumberAssumed, NumberReceiveKeeps DEF N!DeviceSets, N!NumberAssumption
<1>9. CASE UNCHANGED N!numberVars
  BY <1>9 DEF N!numberVars, NumberInv, N!TypeOK, N!ShowsNumber, N!SetVariantData, N!Displayed
<1> QED
  BY <1>1, <1>2, <1>3, <1>4, <1>5, <1>6, <1>7, <1>8, <1>9 DEF N!Next

\* The number goes the way of the hand.
LEMMA NumberFollows == NumberInv => N!FollowsHand
<1> SUFFICES ASSUME NumberInv, NEW w \in (numberBound \cap N!Editors) \ stale,
                    NEW v \in N!Choices(w),
                    N!Enter(w, v), w \in Sliders => limits.lo # limits.hi
             PROVE  IF (v > position[w]) = (w \in Sliders => limits.lo < limits.hi)
                    THEN number' >= number ELSE number' < number
  BY DEF N!FollowsHand
<1>1. /\ w \in numberBound \cap connected /\ v # position[w] /\ number \in Nat /\ w \in N!Widgets
      /\ limits \in LimitsType /\ position[w] = N!SetVariantData(w, number)
  BY NumberFacts DEF NumberInv, N!TypeOK, N!Enter, N!ShowsNumber
<1>2. PICK n \in N!Entered(w, v) : N!Receive(n)
  BY <1>1 DEF N!Enter
<1>3. number' = n
  BY <1>2 DEF N!Receive
<1>4. CASE w \in Sliders
  <2>1. position[w] = N!Position(number, limits) /\ v \in 0..Steps /\ n \in N!AtPosition(v, limits)
    BY <1>1, <1>2, <1>4, NumberFacts DEF N!SetVariantData, N!Choices, N!Entered
  <2> QED
    BY <1>1, <1>3, <1>4, <2>1, SliderFollows
<1>5. CASE w \in Spins
  <2>1. /\ position[w] = N!Clamp(number, spinRange[w]) /\ v \in spinRange[w].lo..spinRange[w].hi
        /\ n = v
        /\ spinRange[w] \in RangeType /\ w \notin Sliders
    BY <1>1, <1>2, <1>5, NumberFacts DEF NumberInv, N!SetVariantData, N!Choices, N!Entered
  <2> QED
    BY <1>1, <1>3, <2>1, ClampType DEF RangeType
<1> QED
  BY <1>4, <1>5 DEF N!Editors

-----------------------------------------------------------------------------
(* ComboBoxes.                                                             *)

\* The worlds of combo boxes.
ComboWorlds == [selection : [Selections -> S!DeviceSelections],
                items : [Combos -> Seq(Texts)],
                current : [Combos -> Texts \cup {Nothing}],
                bound : [Combos -> Selections \cup {None}],
                connected : SUBSET Combos, unseen : SUBSET Combos, foreign : SUBSET Selections]

\* What the combo box c of a world shows.
ComboShows(w, c) == /\ w.items[c] = w.selection[w.bound[c]].list
               /\ w.current[c] = S!TextShown(w.selection[w.bound[c]])

\* The world between two events; TypeOK and the properties are about World.
ComboWorldOK(w) ==
    /\ w \in ComboWorlds
    /\ \A c \in Combos : /\ w.bound[c] # None => c \in w.connected
                         /\ c \in w.unseen => w.bound[c] # None
                         /\ w.current[c] \in S!ToSet(w.items[c]) \cup {Nothing}
                         /\ w.bound[c] \in Editable /\ c \notin w.unseen => ComboShows(w, c)
    /\ \A id \in Editable \ w.foreign : S!IsOffered(w.selection[id])

\* The inductive invariant of the combo boxes.
ComboInv == ComboWorldOK(S!World)

\* A selection of a device offers what is selected first.
LEMMA ComboSelections ==
    ASSUME NEW s \in S!DeviceSelections
    PROVE  /\ s.first \in Texts /\ s.list \in Seq(Texts) /\ s.list # <<>> /\ s.list \in Offers
           /\ s = [first |-> s.first, list |-> s.list]
           /\ S!TextShown(s) \in Texts /\ S!TextShown(s) \in S!ToSet(s.list)
<1>1. s.first \in Texts /\ s.list \in Seq(Texts) /\ s.list # <<>> /\ s.list \in Offers
      /\ s = [first |-> s.first, list |-> s.list]
  BY ComboAssumed DEF S!DeviceSelections, S!ComboAssumption
<1>2. Head(s.list) \in Texts /\ Head(s.list) \in S!ToSet(s.list)
  BY <1>1 DEF S!ToSet
<1> QED
  BY <1>1, <1>2 DEF S!TextShown, S!FirstOf

\* The first of a list of texts is one of them.
LEMMA ToSetTexts ==
    ASSUME NEW list \in Seq(Texts)
    PROVE  S!ToSet(list) \subseteq Texts /\ (list # <<>> => S!FirstOf(list) \in S!ToSet(list))
           /\ S!FirstOf(list) \in S!ToSet(list) \cup {Nothing}
           /\ S!FirstOf(list) \in Texts \cup {Nothing}
BY DEF S!ToSet, S!FirstOf

\* The combo boxes that are updated when the container of id is.
ComboUpdated(w, id) == IF id \in Editable THEN {c \in Combos : w.bound[c] = id} ELSE {}

\* The fields of a world after an update of the widgets.
LEMMA ComboReceived ==
    ASSUME NEW w \in ComboWorlds, NEW id \in Selections,
           NEW to, to = ComboUpdated(w, id), NEW u, u = S!Received(w, id)
    PROVE  /\ u \in ComboWorlds
           /\ u.items = [c \in Combos |-> IF c \in to THEN w.selection[id].list ELSE w.items[c]]
           /\ u.current = [c \in Combos |-> IF c \in to THEN S!TextShown(w.selection[id])
                                            ELSE w.current[c]]
           /\ u.unseen = w.unseen \ to
           /\ u.selection = w.selection /\ u.bound = w.bound
           /\ u.connected = w.connected /\ u.foreign = w.foreign
<1>1. w.selection[id] \in S!DeviceSelections
  BY DEF ComboWorlds
<1>2. /\ u.items = [c \in Combos |-> IF c \in to THEN w.selection[id].list ELSE w.items[c]]
      /\ u.current = [c \in Combos |-> IF c \in to THEN S!TextShown(w.selection[id])
                                       ELSE w.current[c]]
      /\ u.unseen = w.unseen \ to
      /\ u.selection = w.selection /\ u.bound = w.bound
      /\ u.connected = w.connected /\ u.foreign = w.foreign
      /\ u = [selection |-> u.selection, items |-> u.items, current |-> u.current,
              bound |-> u.bound, connected |-> u.connected, unseen |-> u.unseen,
              foreign |-> u.foreign]
  BY DEF ComboWorlds, S!Received, ComboUpdated
<1>3. u \in ComboWorlds
  <2>1. w.selection[id].list \in Seq(Texts) /\ S!TextShown(w.selection[id]) \in Texts
    BY <1>1, ComboSelections
  <2>2. u.items \in [Combos -> Seq(Texts)] /\ u.current \in [Combos -> Texts \cup {Nothing}]
    BY <1>2, <2>1 DEF ComboWorlds
  <2>3. /\ u.selection \in [Selections -> S!DeviceSelections]
        /\ u.bound \in [Combos -> Selections \cup {None}]
        /\ u.connected \in SUBSET Combos /\ u.unseen \in SUBSET Combos
        /\ u.foreign \in SUBSET Selections
    BY <1>2 DEF ComboWorlds
  <2> QED
    BY <1>2, <2>2, <2>3 DEF ComboWorlds
<1> QED
  BY <1>2, <1>3

\* A world in which the selection of one id has changed is fine once its combo
\* boxes were updated.
LEMMA ComboReceivedOK ==
    ASSUME NEW w, ComboWorldOK(w), NEW v \in ComboWorlds, NEW id \in Selections,
           \A i \in Selections \ {id} : v.selection[i] = w.selection[i]
                                 /\ (i \in v.foreign <=> i \in w.foreign),
           v.bound = w.bound, v.connected = w.connected, v.unseen = w.unseen,
           \A c \in Combos :
              \/ v.items[c] = w.items[c] /\ v.current[c] = w.current[c]
              \/ /\ w.bound[c] \in {id, None}
                 /\ v.current[c] \in S!ToSet(v.items[c]) \cup {Nothing},
           id \in Editable \ v.foreign => S!IsOffered(v.selection[id])
    PROVE  ComboWorldOK(S!Received(v, id))
<1> DEFINE to == ComboUpdated(v, id)
           u == S!Received(v, id)
<1>1. /\ u \in ComboWorlds
      /\ u.items = [c \in Combos |-> IF c \in to THEN v.selection[id].list ELSE v.items[c]]
      /\ u.current = [c \in Combos |-> IF c \in to THEN S!TextShown(v.selection[id])
                                       ELSE v.current[c]]
      /\ u.unseen = v.unseen \ to
      /\ u.selection = v.selection /\ u.bound = v.bound
      /\ u.connected = v.connected /\ u.foreign = v.foreign
  <2> HIDE DEF u, to
  <2>1. u = S!Received(v, id) /\ to = ComboUpdated(v, id)
    BY DEF u, to
  <2> QED
    BY <2>1, ComboReceived
<1>2. v.selection[id] \in S!DeviceSelections
  BY DEF ComboWorlds
<1>c. \A c \in Combos : c \in to <=> id \in Editable /\ v.bound[c] = id
  BY DEF ComboUpdated
<1> HIDE DEF u, to
<1>3. \A i \in Editable \ u.foreign : S!IsOffered(u.selection[i])
  BY <1>1, ComboAssumed DEF ComboWorldOK, S!ComboAssumption
<1>4. ASSUME NEW c \in Combos
      PROVE  /\ u.bound[c] # None => c \in u.connected
             /\ c \in u.unseen => u.bound[c] # None
             /\ u.current[c] \in S!ToSet(u.items[c]) \cup {Nothing}
             /\ u.bound[c] \in Editable /\ c \notin u.unseen => ComboShows(u, c)
  <2>1. CASE c \in to
    <3>1. u.items[c] = v.selection[id].list /\ u.current[c] = S!TextShown(v.selection[id])
          /\ u.bound[c] = id /\ u.bound[c] = w.bound[c]
      BY <1>1, <1>c, <2>1
    <3> QED
      BY <1>1, <1>2, <3>1, ComboSelections DEF ComboShows, ComboWorldOK
  <2>2. CASE c \notin to
    <3>1. u.items[c] = v.items[c] /\ u.current[c] = v.current[c] /\ u.bound[c] = w.bound[c]
          /\ (c \in u.unseen <=> c \in w.unseen)
      BY <1>1, <2>2
    <3>2. u.current[c] \in S!ToSet(u.items[c]) \cup {Nothing}
      BY <3>1 DEF ComboWorldOK
    <3>3. ASSUME u.bound[c] \in Editable, c \notin u.unseen PROVE ComboShows(u, c)
      <4>1. u.bound[c] # id /\ u.bound[c] \in Selections /\ u.bound[c] # None
        BY <1>1, <1>c, <2>2, <3>3, ComboAssumed DEF S!ComboAssumption
      <4>2. u.items[c] = w.items[c] /\ u.current[c] = w.current[c]
        BY <3>1, <4>1
      <4>3. u.selection[u.bound[c]] = w.selection[w.bound[c]]
        BY <1>1, <3>1, <4>1
      <4>4. ComboShows(w, c)
        BY <3>1, <3>3 DEF ComboWorldOK
      <4> QED
        BY <4>2, <4>3, <4>4 DEF ComboShows
    <3> QED
      BY <1>1, <3>1, <3>2, <3>3 DEF ComboWorldOK
  <2> QED
    BY <2>1, <2>2
<1> QED
  BY <1>1, <1>3, <1>4 DEF ComboWorldOK, u

\* The variables take the fields of a world.
LEMMA ComboBecomes ==
    ASSUME NEW w, ComboWorldOK(w), S!Become(w)
    PROVE  ComboInv'
<1>1. S!World' = w
  BY DEF S!World, S!Become, ComboWorldOK, ComboWorlds
<1> QED
  BY <1>1 DEF ComboInv

\* The fields of the world at hand.
LEMMA ComboHere ==
    ASSUME ComboInv
    PROVE  /\ S!World \in ComboWorlds
           /\ S!World.selection = selection /\ S!World.items = items /\ S!World.current = current
           /\ S!World.bound = comboBound /\ S!World.connected = comboConnected
           /\ S!World.unseen = unseen
           /\ S!World.foreign = foreign
           /\ selection \in [Selections -> S!DeviceSelections] /\ items \in [Combos -> Seq(Texts)]
           /\ current \in [Combos -> Texts \cup {Nothing}]
           /\ comboBound \in [Combos -> Selections \cup {None}]
           /\ comboConnected \subseteq Combos /\ unseen \subseteq Combos
           /\ foreign \subseteq Selections
<1>1. S!World \in ComboWorlds
  BY DEF ComboInv, ComboWorldOK
<1>2. /\ S!World.selection = selection /\ S!World.items = items /\ S!World.current = current
      /\ S!World.bound = comboBound /\ S!World.connected = comboConnected /\ S!World.unseen = unseen
      /\ S!World.foreign = foreign
  BY DEF S!World
<1> QED
  BY <1>1, <1>2 DEF ComboWorlds

\* A combo box that is not connected, or not bound, is emptied without a word.
LEMMA ComboCleared ==
    ASSUME NEW w \in ComboWorlds, NEW c \in Combos,
           w.current[c] \in S!ToSet(w.items[c]) \cup {Nothing},
           c \notin w.connected \/ w.bound[c] = None, NEW u, u = S!Clear(w, c)
    PROVE  /\ u \in ComboWorlds
           /\ u.items = [w.items EXCEPT ![c] = <<>>]
           /\ u.current = [w.current EXCEPT ![c] = Nothing]
           /\ u.selection = w.selection /\ u.bound = w.bound
           /\ u.connected = w.connected /\ u.unseen = w.unseen /\ u.foreign = w.foreign
<1> DEFINE v == [w EXCEPT !.items[c] = <<>>, !.current[c] = Nothing]
<1>1. /\ v \in ComboWorlds
      /\ v.items = [w.items EXCEPT ![c] = <<>>]
      /\ v.current = [w.current EXCEPT ![c] = Nothing]
      /\ v.selection = w.selection /\ v.bound = w.bound
      /\ v.connected = w.connected /\ v.unseen = w.unseen /\ v.foreign = w.foreign
  <2>1. [w.items EXCEPT ![c] = <<>>] \in [Combos -> Seq(Texts)]
        /\ [w.current EXCEPT ![c] = Nothing] \in [Combos -> Texts \cup {Nothing}]
    BY DEF ComboWorlds
  <2> QED
    BY <2>1 DEF ComboWorlds
<1> HIDE DEF v
<1>2. CASE w.items[c] = <<>>
  <2>1. u = w
    BY <1>2 DEF S!Clear
  <2>2. w.current[c] = Nothing
    BY <1>2 DEF S!ToSet
  <2>3. w.items = [w.items EXCEPT ![c] = <<>>] /\ w.current = [w.current EXCEPT ![c] = Nothing]
    BY <1>2, <2>2 DEF ComboWorlds
  <2> QED
    BY <2>1, <2>3
<1>3. CASE w.items[c] # <<>>
  <2>1. u = S!IndexChanged(v, c)
    BY <1>3 DEF S!Clear, v
  <2>2. u = v
    BY <1>1, <2>1 DEF S!IndexChanged
  <2> QED
    BY <1>1, <2>2
<1> QED
  BY <1>2, <1>3

\* A combo box is filled with a selection, and bound to it.
WithItems(w, c, id, list, text) ==
    [w EXCEPT !.items[c] = list, !.current[c] = text,
              !.bound[c] = id, !.connected = @ \cup {c}, !.unseen = @ \ {c}]

\* A combo box that is filled and bound, field by field.
LEMMA ComboFilled ==
    ASSUME NEW w \in ComboWorlds, NEW c \in Combos, NEW id \in Selections, NEW list \in Seq(Texts),
           NEW text \in Texts
    PROVE  LET x == WithItems(w, c, id, list, text)
           IN  /\ x \in ComboWorlds /\ x.selection = w.selection
               /\ x.items = [w.items EXCEPT ![c] = list]
               /\ x.current = [w.current EXCEPT ![c] = text]
               /\ x.bound = [w.bound EXCEPT ![c] = id]
               /\ x.connected = w.connected \cup {c} /\ x.unseen = w.unseen \ {c}
               /\ x.foreign = w.foreign
<1> DEFINE x == WithItems(w, c, id, list, text)
           v == [w EXCEPT !.items[c] = list, !.current[c] = text]
           y == [v EXCEPT !.bound[c] = id, !.connected = @ \cup {c}, !.unseen = @ \ {c}]
<1>1. /\ [w.items EXCEPT ![c] = list] \in [Combos -> Seq(Texts)]
      /\ [w.current EXCEPT ![c] = text] \in [Combos -> Texts \cup {Nothing}]
      /\ [w.bound EXCEPT ![c] = id] \in [Combos -> Selections \cup {None}]
      /\ w.connected \cup {c} \in SUBSET Combos /\ w.unseen \ {c} \in SUBSET Combos
  BY DEF ComboWorlds
<1>2. /\ v \in ComboWorlds /\ v.selection = w.selection
      /\ v.items = [w.items EXCEPT ![c] = list]
      /\ v.current = [w.current EXCEPT ![c] = text]
      /\ v.bound = w.bound /\ v.connected = w.connected /\ v.unseen = w.unseen
      /\ v.foreign = w.foreign
  BY <1>1 DEF ComboWorlds
<1>3. x = y
  BY DEF ComboWorlds, WithItems
<1> HIDE DEF v, x
<1>4. /\ y \in ComboWorlds /\ y.selection = v.selection
      /\ y.items = v.items /\ y.current = v.current
      /\ y.bound = [v.bound EXCEPT ![c] = id]
      /\ y.connected = v.connected \cup {c} /\ y.unseen = v.unseen \ {c}
      /\ y.foreign = v.foreign
  BY <1>1, <1>2 DEF ComboWorlds
<1> HIDE DEF y
<1> QED
  BY <1>2, <1>3, <1>4 DEF x

\* A combo box is dropped on.
LEMMA ComboDrop ==
    ASSUME ComboInv, NEW c \in Combos, NEW id \in Selections, S!Drop(c, id)
    PROVE  ComboInv'
<1> DEFINE w == [S!World EXCEPT !.connected = @ \ {c}]
           cleared == S!Clear(w, c)
           s == selection[id]
           u == [cleared EXCEPT !.items[c] = s.list, !.current[c] = S!TextShown(s),
                                !.bound[c] = id, !.connected = @ \cup {c}, !.unseen = @ \ {c}]
<1>1. /\ w \in ComboWorlds /\ w.connected = comboConnected \ {c}
      /\ w.selection = selection /\ w.items = items /\ w.current = current
      /\ w.bound = comboBound /\ w.unseen = unseen /\ w.foreign = foreign
  BY ComboHere DEF ComboWorlds
<1>2. current[c] \in S!ToSet(items[c]) \cup {Nothing}
  BY ComboHere DEF ComboInv, ComboWorldOK
<1>3. s \in S!DeviceSelections /\ s.list \in Seq(Texts) /\ S!TextShown(s) \in Texts
      /\ S!TextShown(s) \in S!ToSet(s.list)
  BY ComboHere, ComboSelections
<1>4. S!Become(u)
  BY DEF S!Drop
<1> HIDE DEF w
<1>5. /\ cleared \in ComboWorlds
      /\ cleared.items = [items EXCEPT ![c] = <<>>]
      /\ cleared.current = [current EXCEPT ![c] = Nothing]
      /\ cleared.selection = selection /\ cleared.bound = comboBound
      /\ cleared.connected = comboConnected \ {c} /\ cleared.unseen = unseen
      /\ cleared.foreign = foreign
  BY <1>1, <1>2, ComboCleared
<1> HIDE DEF cleared, s
<1>6. /\ u \in ComboWorlds
      /\ u.items = [items EXCEPT ![c] = s.list]
      /\ u.current = [current EXCEPT ![c] = S!TextShown(s)]
      /\ u.bound = [comboBound EXCEPT ![c] = id] /\ u.connected = comboConnected \cup {c}
      /\ u.unseen = unseen \ {c} /\ u.selection = selection /\ u.foreign = foreign
  <2>1. /\ [cleared.items EXCEPT ![c] = s.list] = [items EXCEPT ![c] = s.list]
        /\ [cleared.current EXCEPT ![c] = S!TextShown(s)] = [current EXCEPT ![c] = S!TextShown(s)]
        /\ (comboConnected \ {c}) \cup {c} = comboConnected \cup {c}
    BY <1>5, ComboHere
  <2> DEFINE list == s.list
             text == S!TextShown(s)
  <2>4. cleared \in ComboWorlds /\ list \in Seq(Texts) /\ text \in Texts
    BY <1>3, <1>5
  <2>5. u = WithItems(cleared, c, id, list, text)
    BY DEF WithItems
  <2> HIDE DEF u, list, text
  <2>6. /\ u \in ComboWorlds /\ u.selection = cleared.selection
        /\ u.items = [cleared.items EXCEPT ![c] = list]
        /\ u.current = [cleared.current EXCEPT ![c] = text]
        /\ u.bound = [cleared.bound EXCEPT ![c] = id]
        /\ u.connected = cleared.connected \cup {c} /\ u.unseen = cleared.unseen \ {c}
        /\ u.foreign = cleared.foreign
    BY <2>4, <2>5, ComboFilled
  <2>3. /\ u \in ComboWorlds /\ u.selection = cleared.selection
        /\ u.items = [cleared.items EXCEPT ![c] = s.list]
        /\ u.current = [cleared.current EXCEPT ![c] = S!TextShown(s)]
        /\ u.bound = [cleared.bound EXCEPT ![c] = id]
        /\ u.connected = cleared.connected \cup {c} /\ u.unseen = cleared.unseen \ {c}
        /\ u.foreign = cleared.foreign
    BY <2>6 DEF list, text
  <2> QED
    BY <1>5, <2>1, <2>3
<1> HIDE DEF u
<1>7. ASSUME NEW d \in Combos
      PROVE  /\ u.bound[d] # None => d \in u.connected
             /\ d \in u.unseen => u.bound[d] # None
             /\ u.current[d] \in S!ToSet(u.items[d]) \cup {Nothing}
             /\ u.bound[d] \in Editable /\ d \notin u.unseen => ComboShows(u, d)
  <2>1. CASE d = c
    BY <1>3, <1>6, <2>1, ComboHere, ComboAssumed DEF ComboShows, s, S!ComboAssumption
  <2>2. CASE d # c
    BY <1>6, <2>2, ComboHere DEF ComboInv, ComboWorldOK, ComboShows
  <2> QED
    BY <2>1, <2>2
<1>8. ComboWorldOK(u)
  BY <1>6, <1>7, ComboHere DEF ComboInv, ComboWorldOK
<1> QED
  BY <1>4, <1>8, ComboBecomes

\* A combo box is unbound: its items go, one signal after the other.
LEMMA ComboRemove ==
    ASSUME ComboInv, NEW c \in Combos, S!RemoveConnection(c)
    PROVE  ComboInv'
<1> DEFINE w == [S!World EXCEPT !.bound[c] = None, !.unseen = @ \ {c}]
           u == S!Clear(w, c)
<1>1. /\ w \in ComboWorlds /\ w.bound = [comboBound EXCEPT ![c] = None] /\ w.unseen = unseen \ {c}
      /\ w.selection = selection /\ w.items = items /\ w.current = current
      /\ w.connected = comboConnected /\ w.foreign = foreign
  <2>1. [comboBound EXCEPT ![c] = None] \in [Combos -> Selections \cup {None}]
        /\ unseen \ {c} \in SUBSET Combos
    BY ComboHere
  <2> QED
    BY <2>1, ComboHere DEF ComboWorlds
<1>2. /\ w.current[c] \in S!ToSet(w.items[c]) \cup {Nothing}
      /\ c \notin w.connected \/ w.bound[c] = None
  <2>1. current[c] \in S!ToSet(items[c]) \cup {Nothing}
    BY ComboHere DEF ComboInv, ComboWorldOK
  <2> QED
    BY <1>1, <2>1, ComboHere
<1>3. S!Become(u)
  BY DEF S!RemoveConnection
<1> HIDE DEF w
<1>4. /\ u \in ComboWorlds
      /\ u.items = [items EXCEPT ![c] = <<>>]
      /\ u.current = [current EXCEPT ![c] = Nothing]
      /\ u.selection = selection /\ u.bound = [comboBound EXCEPT ![c] = None]
      /\ u.connected = comboConnected /\ u.unseen = unseen \ {c} /\ u.foreign = foreign
  <2>1. u = S!Clear(w, c)
    OBVIOUS
  <2>3. w \in ComboWorlds
    BY <1>1
  <2> HIDE DEF u
  <2>2. /\ u \in ComboWorlds
        /\ u.items = [w.items EXCEPT ![c] = <<>>]
        /\ u.current = [w.current EXCEPT ![c] = Nothing]
        /\ u.selection = w.selection /\ u.bound = w.bound
        /\ u.connected = w.connected /\ u.unseen = w.unseen /\ u.foreign = w.foreign
    BY <1>2, <2>1, <2>3, ComboCleared
  <2> QED
    BY <1>1, <2>2
<1> HIDE DEF u
<1>5. ASSUME NEW d \in Combos
      PROVE  /\ u.bound[d] # None => d \in u.connected
             /\ d \in u.unseen => u.bound[d] # None
             /\ u.current[d] \in S!ToSet(u.items[d]) \cup {Nothing}
             /\ u.bound[d] \in Editable /\ d \notin u.unseen => ComboShows(u, d)
  <2>1. CASE d = c
    BY <1>4, <2>1, ComboHere, ComboAssumed DEF S!ComboAssumption
  <2>2. CASE d # c
    BY <1>4, <2>2, ComboHere DEF ComboInv, ComboWorldOK, ComboShows
  <2> QED
    BY <2>1, <2>2
<1>6. ComboWorldOK(u)
  BY <1>4, <1>5, ComboHere DEF ComboInv, ComboWorldOK
<1> QED
  BY <1>3, <1>6, ComboBecomes

\* The user picks an item of a combo box that is not bound.
LEMMA ComboPickUnbound ==
    ASSUME ComboInv, NEW c \in Combos, NEW t \in S!ToSet(items[c]), comboBound[c] = None,
           NEW w, w = [S!World EXCEPT !.current[c] = t]
    PROVE  ComboWorldOK(w)
<1>1. t \in Texts
  BY ComboHere, ToSetTexts
<1>2. /\ w \in ComboWorlds /\ w.current = [current EXCEPT ![c] = t]
      /\ w.selection = selection /\ w.items = items /\ w.bound = comboBound
      /\ w.connected = comboConnected /\ w.unseen = unseen /\ w.foreign = foreign
  <2>1. [current EXCEPT ![c] = t] \in [Combos -> Texts \cup {Nothing}]
    BY <1>1, ComboHere
  <2> QED
    BY <2>1, ComboHere DEF ComboWorlds
<1>3. ASSUME NEW d \in Combos
      PROVE  /\ w.bound[d] # None => d \in w.connected
             /\ d \in w.unseen => w.bound[d] # None
             /\ w.current[d] \in S!ToSet(w.items[d]) \cup {Nothing}
             /\ w.bound[d] \in Editable /\ d \notin w.unseen => ComboShows(w, d)
  <2>1. CASE d = c
    BY <1>2, <2>1, ComboHere, ComboAssumed DEF S!ComboAssumption, ComboInv, ComboWorldOK
  <2>2. CASE d # c
    BY <1>2, <2>2, ComboHere DEF ComboInv, ComboWorldOK, ComboShows
  <2> QED
    BY <2>1, <2>2
<1> QED
  BY <1>2, <1>3, ComboHere DEF ComboInv, ComboWorldOK

\* The world after the selection of id got another text.
LEMMA ComboNewText ==
    ASSUME NEW w \in ComboWorlds, NEW id \in Selections, NEW t \in Texts
    PROVE  [w.selection EXCEPT ![id].first = t] \in [Selections -> S!DeviceSelections]
           /\ [w.selection EXCEPT ![id].first = t][id] = [first |-> t, list |-> w.selection[id].list]
<1>1. w.selection \in [Selections -> S!DeviceSelections] /\ w.selection[id] \in S!DeviceSelections
  BY DEF ComboWorlds
<1>2. w.selection[id] = [first |-> w.selection[id].first, list |-> w.selection[id].list]
      /\ w.selection[id].list \in Offers
  BY <1>1, ComboSelections
<1>3. [w.selection[id] EXCEPT !.first = t] = [first |-> t, list |-> w.selection[id].list]
  BY <1>2
<1>4. [first |-> t, list |-> w.selection[id].list] \in S!DeviceSelections
  BY <1>2 DEF S!DeviceSelections
<1> QED
  BY <1>1, <1>3, <1>4

\* The user picks an item.
LEMMA ComboPick ==
    ASSUME ComboInv, NEW c \in Combos, NEW t \in Texts, S!Pick(c, t)
    PROVE  ComboInv'
<1> DEFINE v == [S!World EXCEPT !.current[c] = t]
           id == comboBound[c]
<1>1. t \in S!ToSet(items[c]) /\ S!Become(S!IndexChanged(v, c))
  BY DEF S!Pick
<1>2. /\ v \in ComboWorlds /\ v.current = [current EXCEPT ![c] = t]
      /\ v.selection = selection /\ v.items = items /\ v.bound = comboBound
      /\ v.connected = comboConnected /\ v.unseen = unseen /\ v.foreign = foreign
  <2>1. [current EXCEPT ![c] = t] \in [Combos -> Texts \cup {Nothing}]
    BY ComboHere
  <2> QED
    BY <2>1, ComboHere DEF ComboWorlds
<1>3. CASE comboBound[c] = None
  <2>1. ComboWorldOK(v)
    BY <1>1, <1>3, ComboPickUnbound
  <2> HIDE DEF v
  <2>2. S!IndexChanged(v, c) = v
    BY <1>2, <1>3 DEF S!IndexChanged
  <2> QED
    BY <1>1, <2>1, <2>2, ComboBecomes
<1>4. CASE comboBound[c] # None
  <2> HIDE DEF v
  <2>1. id \in Selections /\ c \in comboConnected
    BY <1>4, ComboHere DEF ComboInv, ComboWorldOK
  <2> DEFINE x == [v EXCEPT !.selection[id].first = t,
                            !.foreign = IF c \in unseen THEN foreign \cup {id} ELSE foreign \ {id}]
  <2>2. S!IndexChanged(v, c) = S!Received(x, id)
    <3>1. v.current[c] = t
      BY <1>2, ComboHere
    <3>2. S!IndexChanged(v, c) =
            S!Received([v EXCEPT !.selection[id].first = v.current[c],
                               !.foreign = IF c \in v.unseen THEN @ \cup {id} ELSE @ \ {id}], id)
      BY <1>2, <1>4, <2>1 DEF S!IndexChanged
    <3> QED
      BY <1>2, <3>1, <3>2
  <2>3. /\ x \in ComboWorlds /\ x.selection = [selection EXCEPT ![id].first = t]
        /\ x.foreign = (IF c \in unseen THEN foreign \cup {id} ELSE foreign \ {id})
        /\ x.current = [current EXCEPT ![c] = t]
        /\ x.items = items /\ x.bound = comboBound /\ x.connected = comboConnected
        /\ x.unseen = unseen
    <3>1. [v.selection EXCEPT ![id].first = t] \in [Selections -> S!DeviceSelections]
      BY <1>2, <2>1, ComboNewText
    <3>2. (IF c \in unseen THEN foreign \cup {id} ELSE foreign \ {id}) \in SUBSET Selections
      BY <2>1, ComboHere
    <3> QED
      BY <1>2, <3>1, <3>2 DEF ComboWorlds
  <2> HIDE DEF x
  <2>4. \A i \in Selections \ {id} : x.selection[i] = S!World.selection[i]
                              /\ (i \in x.foreign <=> i \in S!World.foreign)
    BY <2>1, <2>3, ComboHere
  <2>5. \A d \in Combos :
           \/ x.items[d] = S!World.items[d] /\ x.current[d] = S!World.current[d]
           \/ S!World.bound[d] \in {id, None} /\ x.current[d] \in S!ToSet(x.items[d]) \cup {Nothing}
    BY <1>1, <2>3, ComboHere
  <2>6. ASSUME id \in Editable \ x.foreign PROVE S!IsOffered(x.selection[id])
    <3>1. c \notin unseen
      BY <2>3, <2>6
    <3>2. items[c] = selection[id].list
      BY <2>6, <3>1, ComboHere DEF ComboInv, ComboWorldOK, ComboShows
    <3>3. S!World.selection = selection /\ S!World \in ComboWorlds
      BY ComboHere
    <3>4. x.selection[id] = [first |-> t, list |-> selection[id].list]
      BY <2>1, <2>3, <3>3, ComboNewText
    <3> QED
      BY <1>1, <3>2, <3>4 DEF S!IsOffered
  <2>7. ComboWorldOK(S!Received(x, id))
    <3>1. x.bound = S!World.bound /\ x.connected = S!World.connected /\ x.unseen = S!World.unseen
          /\ ComboWorldOK(S!World)
      BY <2>3, ComboHere DEF ComboInv
    <3> HIDE DEF id
    <3> QED
      BY <2>1, <2>3, <2>4, <2>5, <2>6, <3>1, ComboReceivedOK
  <2> QED
    BY <1>1, <2>2, <2>7, ComboBecomes
<1> QED
  BY <1>3, <1>4

\* What the device, the remote control and a file do: a selection changes.
LEMMA ComboSelected ==
    ASSUME ComboInv, NEW id \in Selections, NEW x \in ComboWorlds,
           x.items = items, x.current = current, x.bound = comboBound,
           x.connected = comboConnected, x.unseen = unseen,
           \A i \in Selections \ {id} : x.selection[i] = selection[i]
                                 /\ (i \in x.foreign <=> i \in foreign),
           id \in Editable \ x.foreign => S!IsOffered(x.selection[id])
    PROVE  ComboWorldOK(S!Received(x, id))
<1>1. /\ ComboWorldOK(S!World) /\ S!World.items = x.items /\ S!World.current = x.current
      /\ x.bound = S!World.bound /\ x.connected = S!World.connected /\ x.unseen = S!World.unseen
      /\ S!World.selection = selection /\ S!World.foreign = foreign
  BY ComboHere DEF ComboInv
<1>2. \A c \in Combos :
          \/ x.items[c] = S!World.items[c] /\ x.current[c] = S!World.current[c]
          \/ S!World.bound[c] \in {id, None} /\ x.current[c] \in S!ToSet(x.items[c]) \cup {Nothing}
  BY <1>1
<1>3. \A i \in Selections \ {id} : x.selection[i] = S!World.selection[i]
                            /\ (i \in x.foreign <=> i \in S!World.foreign)
  BY <1>1
<1> QED
  BY <1>1, <1>2, <1>3, ComboReceivedOK

\* A device sets a selection.
LEMMA ComboDeviceSets ==
    ASSUME ComboInv, NEW id \in Selections, NEW s \in S!Published, S!DeviceSets(id, s)
    PROVE  ComboInv'
<1> DEFINE x == [S!World EXCEPT !.selection[id] = s, !.foreign = @ \ {id}]
<1>1. s \in S!DeviceSelections /\ S!IsOffered(s)
  BY DEF S!Published
<1>2. /\ x \in ComboWorlds /\ x.selection = [selection EXCEPT ![id] = s]
      /\ x.foreign = foreign \ {id} /\ x.items = items /\ x.current = current
      /\ x.bound = comboBound
      /\ x.connected = comboConnected /\ x.unseen = unseen
  <2>1. [selection EXCEPT ![id] = s] \in [Selections -> S!DeviceSelections]
        /\ foreign \ {id} \in SUBSET Selections
    BY <1>1, ComboHere
  <2> QED
    BY <2>1, ComboHere DEF ComboWorlds
<1>3. S!Become(S!Received(x, id))
  BY DEF S!DeviceSets
<1> HIDE DEF x
<1>4. x.selection[id] = s
  BY <1>2, ComboHere
<1>5. \A i \in Selections \ {id} : x.selection[i] = selection[i]
      /\ (i \in x.foreign <=> i \in foreign)
  BY <1>2, ComboHere
<1>6. ComboWorldOK(S!Received(x, id))
  BY <1>1, <1>2, <1>4, <1>5, ComboSelected
<1> QED
  BY <1>3, <1>6, ComboBecomes

\* A remote client selects a text.
LEMMA ComboRemoteSets ==
    ASSUME ComboInv, NEW id \in Selections, NEW t \in Texts, S!RemoteSets(id, t)
    PROVE  ComboInv'
<1> DEFINE x == [S!World EXCEPT !.selection[id].first = t, !.foreign = @ \ {id}]
<1>1. S!World \in ComboWorlds /\ S!World.selection = selection
      /\ [selection EXCEPT ![id].first = t] \in [Selections -> S!DeviceSelections]
      /\ [selection EXCEPT ![id].first = t][id] = [first |-> t, list |-> selection[id].list]
  <2>1. S!World \in ComboWorlds /\ S!World.selection = selection
    BY ComboHere
  <2> QED
    BY <2>1, ComboNewText
<1>2. /\ x \in ComboWorlds /\ x.selection = [selection EXCEPT ![id].first = t]
      /\ x.foreign = foreign \ {id} /\ x.items = items /\ x.current = current
      /\ x.bound = comboBound
      /\ x.connected = comboConnected /\ x.unseen = unseen
  <2>1. foreign \ {id} \in SUBSET Selections
    BY ComboHere
  <2> QED
    BY <1>1, <2>1, ComboHere DEF ComboWorlds
<1>3. S!Become(S!Received(x, id)) /\ t \in S!ToSet(selection[id].list)
  BY DEF S!RemoteSets
<1> HIDE DEF x
<1>4. S!IsOffered(x.selection[id])
  BY <1>1, <1>2, <1>3 DEF S!IsOffered
<1>5. \A i \in Selections \ {id} : x.selection[i] = selection[i]
      /\ (i \in x.foreign <=> i \in foreign)
  BY <1>2, ComboHere
<1>6. ComboWorldOK(S!Received(x, id))
  BY <1>2, <1>4, <1>5, ComboSelected
<1> QED
  BY <1>3, <1>6, ComboBecomes

\* A parameter file selects a text.
LEMMA ComboFileSets ==
    ASSUME ComboInv, NEW id \in Selections, NEW t \in Texts, S!FileSets(id, t)
    PROVE  ComboInv'
<1> DEFINE x == [S!World EXCEPT !.selection[id].first = t, !.foreign = @ \cup {id}]
<1>1. S!World \in ComboWorlds /\ S!World.selection = selection
      /\ [selection EXCEPT ![id].first = t] \in [Selections -> S!DeviceSelections]
  <2>1. S!World \in ComboWorlds /\ S!World.selection = selection
    BY ComboHere
  <2> QED
    BY <2>1, ComboNewText
<1>2. /\ x \in ComboWorlds /\ x.selection = [selection EXCEPT ![id].first = t]
      /\ x.foreign = foreign \cup {id} /\ x.items = items /\ x.current = current
      /\ x.bound = comboBound
      /\ x.connected = comboConnected /\ x.unseen = unseen
  <2>1. foreign \cup {id} \in SUBSET Selections
    BY ComboHere
  <2> QED
    BY <1>1, <2>1, ComboHere DEF ComboWorlds
<1>3. S!Become(S!Received(x, id))
  BY DEF S!FileSets
<1> HIDE DEF x
<1>4. \A i \in Selections \ {id} : x.selection[i] = selection[i]
      /\ (i \in x.foreign <=> i \in foreign)
  BY <1>2, ComboHere
<1>5. ComboWorldOK(S!Received(x, id))
  BY <1>2, <1>4, ComboSelected
<1> QED
  BY <1>3, <1>5, ComboBecomes

\* The experiment is loaded again.
LEMMA ComboReload ==
    ASSUME ComboInv, NEW new \in [Selections -> S!Published], S!Reload(new)
    PROVE  ComboInv'
<1> DEFINE again == {c \in Combos : comboBound[c] # None}
           first == [c \in Combos |-> S!FirstOf(FormItems[c])]
           x == [S!World EXCEPT !.selection = new, !.items = FormItems, !.current = first,
                              !.connected = again, !.unseen = again, !.foreign = {}]
<1>1. S!Become(x)
  BY DEF S!Reload
<1>2. /\ FormItems \in [Combos -> Seq(Texts)] /\ new \in [Selections -> S!DeviceSelections]
      /\ first \in [Combos -> Texts \cup {Nothing}]
      /\ \A c \in Combos : first[c] \in S!ToSet(FormItems[c]) \cup {Nothing}
  <2>1. FormItems \in [Combos -> Seq(Texts)] /\ new \in [Selections -> S!DeviceSelections]
    BY ComboAssumed DEF S!ComboAssumption, S!Published
  <2> QED
    BY <2>1, ToSetTexts
<1>3. again \in SUBSET Combos /\ {} \in SUBSET Selections
  OBVIOUS
<1> HIDE DEF first
<1>4. /\ x \in ComboWorlds /\ x.selection = new /\ x.items = FormItems /\ x.current = first
      /\ x.bound = comboBound /\ x.connected = again /\ x.unseen = again /\ x.foreign = {}
  <2> HIDE DEF again
  <2> QED
    BY <1>2, <1>3, ComboHere DEF ComboWorlds
<1> HIDE DEF x
<1>5. ASSUME NEW c \in Combos
      PROVE  /\ x.bound[c] # None => c \in x.connected
             /\ c \in x.unseen => x.bound[c] # None
             /\ x.current[c] \in S!ToSet(x.items[c]) \cup {Nothing}
             /\ x.bound[c] \in Editable /\ c \notin x.unseen => ComboShows(x, c)
  BY <1>2, <1>4, ComboHere, ComboAssumed DEF S!ComboAssumption
<1>6. \A id \in Editable \ x.foreign : S!IsOffered(x.selection[id])
  BY <1>4, ComboAssumed DEF S!Published, S!ComboAssumption
<1>7. ComboWorldOK(x)
  BY <1>4, <1>5, <1>6 DEF ComboWorldOK
<1> QED
  BY <1>1, <1>7, ComboBecomes

\* The invariant holds at the start,
LEMMA ComboInit == S!Init => ComboInv
<1> SUFFICES ASSUME S!Init PROVE ComboInv
  OBVIOUS
<1>1. /\ selection \in [Selections -> S!DeviceSelections] /\ items \in [Combos -> Seq(Texts)]
      /\ \A id \in Selections : S!IsOffered(selection[id])
      /\ items = FormItems
      /\ comboBound = [c \in Combos |-> None] /\ comboConnected = {} /\ unseen = {} /\ foreign = {}
  BY ComboAssumed DEF S!Init, S!Published, S!ComboAssumption
<1>2. current \in [Combos -> Texts \cup {Nothing}]
      /\ \A c \in Combos : current[c] \in S!ToSet(items[c]) \cup {Nothing}
  BY <1>1, ToSetTexts DEF S!Init
<1>3. S!World \in ComboWorlds
  <2>1. comboBound \in [Combos -> Selections \cup {None}] /\ comboConnected \in SUBSET Combos
        /\ unseen \in SUBSET Combos /\ foreign \in SUBSET Selections
    BY <1>1
  <2> QED
    BY <1>1, <1>2, <2>1 DEF S!World, ComboWorlds
<1> QED
  BY <1>1, <1>2, <1>3, ComboAssumed DEF S!World, ComboInv, ComboWorldOK, S!ComboAssumption

\* and every step keeps it.
LEMMA ComboNext == ComboInv /\ [S!Next]_(S!comboVars) => ComboInv'
<1> SUFFICES ASSUME ComboInv, [S!Next]_(S!comboVars) PROVE ComboInv'
  OBVIOUS
<1>1. CASE \E c \in Combos, id \in Selections : S!Drop(c, id)
  BY <1>1, ComboDrop
<1>2. CASE \E c \in Combos : S!RemoveConnection(c)
  BY <1>2, ComboRemove
<1>3. CASE \E c \in Combos, t \in Texts : S!Pick(c, t)
  BY <1>3, ComboPick
<1>4. CASE \E id \in Selections, s \in S!Published : S!DeviceSets(id, s)
  BY <1>4, ComboDeviceSets
<1>5. CASE \E id \in Selections, t \in Texts : S!RemoteSets(id, t) \/ S!FileSets(id, t)
  BY <1>5, ComboRemoteSets, ComboFileSets
<1>6. CASE \E new \in [Selections -> S!Published] : S!Reload(new)
  BY <1>6, ComboReload
<1>7. CASE UNCHANGED S!comboVars
  <2>1. S!World' = S!World
    BY <1>7 DEF S!comboVars, S!World
  <2> QED
    BY <2>1 DEF ComboInv
<1> QED
  BY <1>1, <1>2, <1>3, <1>4, <1>5, <1>6, <1>7 DEF S!Next

\* What the invariant says of the properties.
LEMMA ComboImplies == ComboInv => S!TypeOK /\ S!ComboShowsSelection /\ S!SelectedIsOffered
<1> SUFFICES ASSUME ComboInv PROVE S!TypeOK /\ S!ComboShowsSelection /\ S!SelectedIsOffered
  OBVIOUS
<1>1. \A c \in Combos : /\ comboBound[c] # None => c \in comboConnected
                        /\ c \in unseen => comboBound[c] # None
                        /\ current[c] \in S!ToSet(items[c]) \cup {Nothing}
                        /\ comboBound[c] \in Editable /\ c \notin unseen => ComboShows(S!World, c)
  BY ComboHere DEF ComboInv, ComboWorldOK
<1>2. S!TypeOK
  BY <1>1, ComboHere DEF S!TypeOK
<1>3. S!ComboShowsSelection
  BY <1>1, ComboHere DEF S!ComboShowsSelection, ComboShows
<1>4. S!SelectedIsOffered
  BY ComboHere DEF ComboInv, ComboWorldOK, S!SelectedIsOffered
<1> QED
  BY <1>2, <1>3, <1>4

-----------------------------------------------------------------------------
(* ListViews.                                                              *)

\* The worlds of list views.
ListWorlds == [value : [L!Parameters -> Seq(L!Entries) \cup {Number}],
               rows : [Views -> Seq(L!Entries)],
               bound : [Views -> L!Parameters \cup {None}],
               connected : SUBSET Views, crashed : BOOLEAN, unseen : SUBSET Views]

\* What the view v of a world shows.
ShowsList(w, v) == w.rows[v] = w.value[w.bound[v]] \/ w.value[w.bound[v]] = Number

\* The world between two events, and between two items that are dropped.
ListWorldOK(w) ==
    /\ w \in ListWorlds
    /\ \A v \in Views : /\ v \in w.connected <=> w.bound[v] # None
                        /\ v \in w.unseen => w.bound[v] # None
                        /\ w.bound[v] # None /\ v \notin w.unseen => ShowsList(w, v)
    /\ \A id \in Lists : w.value[id] # Number

\* The inductive invariant of the list views.
ListInv == ListWorldOK(L!World)

\* What is assumed of the constants of lists, as it is used below.
LEMMA ListFacts ==
    /\ Number \notin Seq(L!Entries) /\ <<>> \in Seq(L!Entries)
    /\ None \notin L!Parameters /\ Branch \notin L!Parameters
    /\ Lists \subseteq L!Parameters /\ Scalars \subseteq L!Parameters
    /\ \A id \in Scalars : id \notin Lists
    /\ \A id \in L!Parameters : id \in Lists \/ id \in Scalars
    /\ \A s \in Signals : s \notin L!Parameters /\ s # Branch /\ s \in L!Entries
    /\ Blank \in L!Entries /\ L!Parameters \subseteq L!Entries
    /\ DeviceLists \subseteq Seq(L!Entries)
BY ListAssumed DEF L!ListAssumption, L!Parameters, L!Entries

\* The world that the variables are.
LEMMA ListHere ==
    ASSUME ListInv
    PROVE  /\ L!World \in ListWorlds
           /\ L!World.value = listOf /\ L!World.rows = entries /\ L!World.bound = viewBound
           /\ L!World.connected = viewConnected /\ L!World.crashed = crashed
           /\ L!World.unseen = viewUnseen
           /\ listOf \in [L!Parameters -> Seq(L!Entries) \cup {Number}]
           /\ entries \in [Views -> Seq(L!Entries)]
           /\ viewBound \in [Views -> L!Parameters \cup {None}]
           /\ viewConnected \subseteq Views /\ viewUnseen \subseteq Views /\ crashed \in BOOLEAN
<1>1. L!World \in ListWorlds
  BY DEF ListInv, ListWorldOK
<1>2. /\ L!World.value = listOf /\ L!World.rows = entries /\ L!World.bound = viewBound
      /\ L!World.connected = viewConnected /\ L!World.crashed = crashed
      /\ L!World.unseen = viewUnseen
  BY DEF L!World
<1> QED
  BY <1>1, <1>2 DEF ListWorlds

\* The variables take the fields of a world.
LEMMA ListBecomes ==
    ASSUME NEW w, ListWorldOK(w), L!Become(w)
    PROVE  ListInv' /\ listOf' = w.value
<1>1. L!World' = w /\ listOf' = w.value
  BY DEF L!World, L!Become, ListWorldOK, ListWorlds
<1> QED
  BY <1>1 DEF ListInv

\* The fields of a world after an update of the views.
LEMMA ListReceived ==
    ASSUME NEW w \in ListWorlds, NEW id \in L!Parameters, w.value[id] # Number
    PROVE  LET u == L!Received(w, id)
           IN  /\ u \in ListWorlds
               /\ u.rows = [v \in Views |-> IF w.bound[v] = id THEN w.value[id] ELSE w.rows[v]]
               /\ \A v \in Views : v \in u.unseen <=> v \in w.unseen /\ w.bound[v] # id
               /\ u.value = w.value /\ u.bound = w.bound
               /\ u.connected = w.connected /\ u.crashed = w.crashed
<1> DEFINE u == L!Received(w, id)
           to == {v \in Views : w.bound[v] = id}
<1>1. /\ u.rows = [v \in Views |-> IF v \in to THEN w.value[id] ELSE w.rows[v]]
      /\ u.unseen = w.unseen \ to
      /\ u.value = w.value /\ u.bound = w.bound
      /\ u.connected = w.connected /\ u.crashed = w.crashed
      /\ u = [value |-> u.value, rows |-> u.rows, bound |-> u.bound,
              connected |-> u.connected, crashed |-> u.crashed, unseen |-> u.unseen]
  BY DEF ListWorlds, L!Received
<1>2. u.rows \in [Views -> Seq(L!Entries)]
  <2>1. w.value[id] \in Seq(L!Entries) /\ w.rows \in [Views -> Seq(L!Entries)]
    BY DEF ListWorlds
  <2> HIDE DEF u
  <2> QED
    BY <1>1, <2>1
<1>3. u \in ListWorlds
  <2>1. /\ u.value \in [L!Parameters -> Seq(L!Entries) \cup {Number}]
        /\ u.bound \in [Views -> L!Parameters \cup {None}]
        /\ u.connected \in SUBSET Views /\ u.crashed \in BOOLEAN /\ u.unseen \in SUBSET Views
    BY <1>1 DEF ListWorlds
  <2> QED
    BY <1>1, <1>2, <2>1 DEF ListWorlds
<1> HIDE DEF u
<1>4. \A v \in Views : v \in u.unseen <=> v \in w.unseen /\ w.bound[v] # id
  BY <1>1
<1>5. u.rows = [v \in Views |-> IF w.bound[v] = id THEN w.value[id] ELSE w.rows[v]]
  BY <1>1
<1> QED
  BY <1>1, <1>3, <1>4, <1>5 DEF u

\* A world in which one value has changed is fine once its views were updated,
\* if it is a list; and at once if it is not.
LEMMA ListReceivedOK ==
    ASSUME NEW w, ListWorldOK(w), NEW x \in ListWorlds, NEW id \in L!Parameters,
           \A i \in L!Parameters \ {id} : x.value[i] = w.value[i],
           id \in Lists => x.value[id] # Number,
           x.bound = w.bound, x.connected = w.connected, x.unseen = w.unseen,
           \A v \in Views : w.bound[v] \in {id, None} \/ x.rows[v] = w.rows[v]
    PROVE  ListWorldOK(L!Received(x, id)) /\ L!Received(x, id).value = x.value
<1> DEFINE u == L!Received(x, id)
<1>1. CASE x.value[id] = Number
  <2>1. u = x
    BY <1>1 DEF L!Received
  <2> HIDE DEF u
  <2>2. ASSUME NEW v \in Views, x.bound[v] # None, v \notin x.unseen PROVE ShowsList(x, v)
    <3>1. CASE x.bound[v] = id
      BY <1>1, <3>1 DEF ShowsList
    <3>2. CASE x.bound[v] # id
      <4>1. x.bound[v] \in L!Parameters \ {id} /\ x.rows[v] = w.rows[v]
        BY <2>2, <3>2 DEF ListWorlds
      <4> QED
        BY <2>2, <4>1 DEF ListWorldOK, ShowsList
    <3> QED
      BY <3>1, <3>2
  <2>3. \A i \in Lists : x.value[i] # Number
    BY ListFacts DEF ListWorldOK
  <2> QED
    BY <2>1, <2>2, <2>3 DEF ListWorldOK, u
<1>2. CASE x.value[id] # Number
  <2>1. /\ u \in ListWorlds
        /\ u.rows = [v \in Views |-> IF x.bound[v] = id THEN x.value[id] ELSE x.rows[v]]
        /\ \A v \in Views : v \in u.unseen <=> v \in x.unseen /\ x.bound[v] # id
        /\ u.value = x.value /\ u.bound = x.bound
        /\ u.connected = x.connected /\ u.crashed = x.crashed
    BY <1>2, ListReceived
  <2> HIDE DEF u
  <2>2. ASSUME NEW v \in Views, u.bound[v] # None, v \notin u.unseen PROVE ShowsList(u, v)
    <3>1. CASE x.bound[v] = id
      BY <2>1, <3>1 DEF ShowsList
    <3>2. CASE x.bound[v] # id
      <4>1. x.bound[v] \in L!Parameters \ {id} /\ u.rows[v] = w.rows[v]
        BY <2>1, <2>2, <3>2 DEF ListWorlds
      <4> QED
        BY <2>1, <2>2, <3>2, <4>1 DEF ListWorldOK, ShowsList
    <3> QED
      BY <3>1, <3>2
  <2>3. \A i \in Lists : u.value[i] # Number
    BY <2>1, ListFacts DEF ListWorldOK
  <2> QED
    BY <2>1, <2>2, <2>3 DEF ListWorldOK, u
<1> QED
  BY <1>1, <1>2

\* The view v shows a list that the user has edited.
WithEntries(w, v, list) == [w EXCEPT !.rows[v] = list]

\* An edited list is sent to the container the view is bound to.
LEMMA ListEdited ==
    ASSUME NEW w, ListWorldOK(w), NEW v \in Views, NEW list \in Seq(L!Entries)
    PROVE  LET u == L!NewEntry(WithEntries(w, v, list), v)
           IN  /\ ListWorldOK(u)
               /\ v \in w.connected => u.value = [w.value EXCEPT ![w.bound[v]] = L!SentList(list)]
<1> DEFINE y == WithEntries(w, v, list)
           id == w.bound[v]
           x == [y EXCEPT !.value[id] = L!SentList(y.rows[v])]
           u == L!NewEntry(y, v)
<1>1. w \in ListWorlds
  BY DEF ListWorldOK
<1>2. /\ y \in ListWorlds /\ y.rows = [w.rows EXCEPT ![v] = list]
      /\ y.value = w.value /\ y.bound = w.bound
      /\ y.connected = w.connected /\ y.crashed = w.crashed /\ y.unseen = w.unseen
  <2>1. [w.rows EXCEPT ![v] = list] \in [Views -> Seq(L!Entries)]
    BY <1>1 DEF ListWorlds
  <2> QED
    BY <1>1, <2>1 DEF ListWorlds, WithEntries
<1>3. y.rows[v] = list /\ \A d \in Views \ {v} : y.rows[d] = w.rows[d]
  BY <1>1, <1>2 DEF ListWorlds
<1>4. CASE v \notin w.connected
  <2>1. u = y
    BY <1>2, <1>4 DEF L!NewEntry
  <2> HIDE DEF y, u
  <2>2. w.bound[v] = None
    BY <1>4 DEF ListWorldOK
  <2>3. ListWorldOK(y)
    BY <1>2, <1>3, <2>2 DEF ListWorldOK, ShowsList
  <2> QED
    BY <1>4, <2>1, <2>3 DEF u, y
<1>5. CASE v \in w.connected
  <2>1. id \in L!Parameters /\ L!SentList(list) \in Seq(L!Entries) /\ L!SentList(list) # Number
    <3>1. id \in L!Parameters
      BY <1>1, <1>5 DEF ListWorldOK, ListWorlds
    <3>2. <<Blank>> \in Seq(L!Entries)
      BY ListFacts
    <3>3. L!SentList(list) \in Seq(L!Entries)
      BY <3>2 DEF L!SentList
    <3> QED
      BY <3>1, <3>3, ListFacts
  <2>2. u = L!Received(x, id)
    BY <1>2, <1>5 DEF L!NewEntry
  <2> HIDE DEF y
  <2>3. /\ x \in ListWorlds /\ x.value = [w.value EXCEPT ![id] = L!SentList(list)]
        /\ x.rows = y.rows /\ x.bound = w.bound
        /\ x.connected = w.connected /\ x.crashed = w.crashed /\ x.unseen = w.unseen
    <3>1. [y.value EXCEPT ![id] = L!SentList(list)] \in [L!Parameters -> Seq(L!Entries) \cup {Number}]
      BY <1>2, <2>1 DEF ListWorlds
    <3> HIDE DEF id
    <3> QED
      BY <1>2, <1>3, <2>1, <3>1 DEF ListWorlds
  <2> HIDE DEF x, u
  <2>4. x.value[id] = L!SentList(list) /\ \A i \in L!Parameters \ {id} : x.value[i] = w.value[i]
    BY <1>1, <2>1, <2>3 DEF ListWorlds
  <2>5. \A d \in Views : w.bound[d] \in {id, None} \/ x.rows[d] = w.rows[d]
    BY <1>3, <2>3
  <2>6. id \in Lists => x.value[id] # Number
    BY <2>1, <2>4
  <2>7. ListWorldOK(L!Received(x, id)) /\ L!Received(x, id).value = x.value
    <3> HIDE DEF id
    <3>1. /\ x \in ListWorlds /\ id \in L!Parameters
          /\ x.bound = w.bound /\ x.connected = w.connected /\ x.unseen = w.unseen
      BY <2>1, <2>3
    <3>2. \A i \in L!Parameters \ {id} : x.value[i] = w.value[i]
      BY <2>4
    <3> QED
      BY <2>5, <2>6, <3>1, <3>2, ListReceivedOK
  <2> QED
    BY <2>2, <2>3, <2>7 DEF u, y
<1> QED
  BY <1>4, <1>5

\* What may be dropped.
LEMMA ListItems ==
    ASSUME NEW dropped \in L!SelectedItems
    PROVE  /\ Len(dropped) \in Nat \ {0} /\ DOMAIN dropped = 1..Len(dropped)
           /\ \/ \A i \in 1..Len(dropped) : dropped[i] \in L!Parameters \cup {Branch}
              \/ \A i \in 1..Len(dropped) : dropped[i] \in Signals \cup {Branch}
<1>1. PICK n \in 1..2, tree \in {L!Parameters \cup {Branch}, Signals \cup {Branch}} :
         dropped \in [1..n -> tree]
  BY DEF L!SelectedItems
<1>2. dropped \in Seq(tree) /\ Len(dropped) = n /\ DOMAIN dropped = 1..n
  BY <1>1
<1> QED
  BY <1>1, <1>2

\* One item.
LEMMA ListDropItem ==
    ASSUME NEW w, ListWorldOK(w), NEW v \in Views, NEW first, NEW item,
           \/ first \in L!Parameters \cup {Branch} /\ item \in L!Parameters \cup {Branch}
           \/ first \in Signals \cup {Branch} /\ item \in Signals \cup {Branch}
    PROVE  ListWorldOK(L!DropItem(w, v, first, item))
<1>1. w \in ListWorlds
  BY DEF ListWorldOK
<1>2. CASE w.crashed \/ item = Branch
  BY <1>2 DEF L!DropItem
<1>3. CASE ~w.crashed /\ item # Branch /\ ~L!Supports(w, item)
  <2>1. Append(w.rows[v], item) \in Seq(L!Entries)
    <3>1. item \in L!Entries /\ w.rows[v] \in Seq(L!Entries)
      BY <1>1, <1>3, ListFacts DEF ListWorlds
    <3> QED
      BY <3>1
  <2>2. L!DropItem(w, v, first, item) = L!NewEntry(WithEntries(w, v, Append(w.rows[v], item)), v)
    BY <1>3 DEF L!DropItem, WithEntries
  <2>3. \A list \in Seq(L!Entries) : ListWorldOK(L!NewEntry(WithEntries(w, v, list), v))
    BY ListEdited
  <2> QED
    BY <2>1, <2>2, <2>3
<1>4. CASE ~w.crashed /\ item # Branch /\ L!Supports(w, item) /\ first = Branch
  <2> DEFINE u == [w EXCEPT !.crashed = TRUE]
  <2>1. L!DropItem(w, v, first, item) = u
    BY <1>4 DEF L!DropItem
  <2>2. /\ u \in ListWorlds /\ u.value = w.value /\ u.rows = w.rows /\ u.bound = w.bound
        /\ u.connected = w.connected /\ u.unseen = w.unseen
    BY <1>1 DEF ListWorlds
  <2> HIDE DEF u
  <2>3. ListWorldOK(u)
    BY <2>2 DEF ListWorldOK, ShowsList
  <2> QED
    BY <2>1, <2>3
<1>5. CASE ~w.crashed /\ item # Branch /\ L!Supports(w, item) /\ first # Branch
  <2>1. item \in L!Parameters /\ w.value[item] \in Seq(L!Entries) /\ first \in L!Parameters
    BY <1>1, <1>5, ListFacts DEF L!Supports, ListWorlds
  <2> DEFINE seen == IF first = item THEN w.unseen \ {v} ELSE w.unseen \cup {v}
             u == [w EXCEPT !.rows[v] = w.value[item], !.bound[v] = first,
                            !.connected = w.connected \cup {v}, !.unseen = seen]
  <2>2. L!DropItem(w, v, first, item) = u
    BY <1>5 DEF L!DropItem
  <2>3. seen \in SUBSET Views /\ w.connected \cup {v} \in SUBSET Views
        /\ [w.rows EXCEPT ![v] = w.value[item]] \in [Views -> Seq(L!Entries)]
        /\ [w.bound EXCEPT ![v] = first] \in [Views -> L!Parameters \cup {None}]
    BY <1>1, <2>1 DEF ListWorlds
  <2> HIDE DEF seen
  <2>4. /\ u \in ListWorlds /\ u.value = w.value
        /\ u.rows = [w.rows EXCEPT ![v] = w.value[item]]
        /\ u.bound = [w.bound EXCEPT ![v] = first]
        /\ u.connected = w.connected \cup {v} /\ u.unseen = seen
    BY <1>1, <2>3 DEF ListWorlds
  <2> HIDE DEF u
  <2>5. ASSUME NEW d \in Views
        PROVE  /\ d \in u.connected <=> u.bound[d] # None
               /\ d \in u.unseen => u.bound[d] # None
               /\ u.bound[d] # None /\ d \notin u.unseen => ShowsList(u, d)
    <3>1. CASE d = v
      <4>1. u.bound[d] = first /\ u.rows[d] = w.value[item] /\ d \in u.connected
        BY <1>1, <2>4, <3>1 DEF ListWorlds
      <4>2. d \notin u.unseen => first = item
        BY <2>4, <3>1 DEF seen
      <4> QED
        BY <2>1, <2>4, <4>1, <4>2, ListFacts DEF ShowsList
    <3>2. CASE d # v
      <4>1. u.bound[d] = w.bound[d] /\ u.rows[d] = w.rows[d]
            /\ (d \in u.connected <=> d \in w.connected)
        BY <1>1, <2>4, <3>2 DEF ListWorlds
      <4>2. d \in u.unseen <=> d \in w.unseen
        BY <2>4, <3>2 DEF seen
      <4> QED
        BY <2>4, <4>1, <4>2 DEF ShowsList, ListWorldOK
    <3> QED
      BY <3>1, <3>2
  <2>6. ListWorldOK(u)
    BY <2>4, <2>5 DEF ListWorldOK
  <2> QED
    BY <2>2, <2>6
<1> QED
  BY <1>2, <1>3, <1>4, <1>5

\* All items of a selection.
LEMMA ListDrop ==
    ASSUME ListInv, NEW v \in Views, NEW dropped \in L!SelectedItems, L!Drop(v, dropped)
    PROVE  ListInv'
<1> DEFINE gone == {w \in ListWorlds : ListWorldOK(w)}
           len == Len(dropped)
           Turn(w, item) == L!DropItem(w, v, dropped[1], item)
           step == [x \in (1..len) \X gone |-> Turn(x[2], dropped[x[1]])]
           Recursion(f) == f = [s \in SUBSET (1..len) |->
                                  IF s = {} THEN L!World
                                  ELSE Turn(f[s \ {L!Max(s)}], dropped[L!Max(s)])]
           F == CHOOSE f : Recursion(f)
           last == L!FoldLeft(LAMBDA w, item : L!DropItem(w, v, dropped[1], item), L!World, dropped)
<1>1. len \in Nat /\ DOMAIN dropped = 1..len /\ L!World \in gone
  BY ListItems, ListHere DEF ListInv
<1>2. \A w \in gone, i \in 1..len : Turn(w, dropped[i]) \in gone
  <2> SUFFICES ASSUME NEW w \in gone, NEW i \in 1..len PROVE Turn(w, dropped[i]) \in gone
    OBVIOUS
  <2>1. \/ dropped[1] \in L!Parameters \cup {Branch} /\ dropped[i] \in L!Parameters \cup {Branch}
        \/ dropped[1] \in Signals \cup {Branch} /\ dropped[i] \in Signals \cup {Branch}
    BY ListItems
  <2>2. ListWorldOK(L!DropItem(w, v, dropped[1], dropped[i]))
    BY <2>1, ListDropItem
  <2> QED
    BY <2>2 DEF ListWorldOK
<1>3. step \in Turns(len, gone)
  <2> HIDE DEF Turn, gone
  <2> QED BY <1>2 DEF Turns
<1>4. \A s \in SUBSET (1..len) : s # {} => L!Max(s) \in 1..len /\ L!Max(s) = Max(s)
  BY <1>1, MaxIn DEF L!Max, Max
<1>5. last = F[1..len]
  BY <1>1 DEF L!FoldLeft, L!MapThenFoldSet
<1>6. \A w \in gone, i \in 1..len : step[<<i, w>>] = Turn(w, dropped[i])
  <2> HIDE DEF Turn, gone
  <2> QED OBVIOUS
<1>11. L!Become(last)
  BY DEF L!Drop
<1> HIDE DEF Turn, gone, step, len, Recursion, F, last
<1>7. Recursion(F)
  <2>1. PICK g : IsFold(g, gone, len, L!World, step)
    BY <1>1, <1>3, FoldExists
  <2>2. Recursion(g)
    BY <1>4, <1>6, <2>1 DEF Recursion, IsFold
  <2> QED BY <2>2 DEF F
<1>8. Follows(F, gone, len, L!World, step)
  BY <1>4, <1>6, <1>7 DEF Recursion, Follows
<1>9. PICK h : ArePrefixes(h, gone, len, L!World, step) /\ F[1..len] = h[len]
  BY <1>1, <1>3, <1>8, FoldPrefixes
<1>10. last \in gone
  <2>1. len \in 0..len
    BY <1>1
  <2> QED BY <1>5, <1>9, <2>1 DEF ArePrefixes
<1> QED
  BY <1>10, <1>11, ListBecomes DEF gone

\* One item is dropped as DropItem has it.
LEMMA DropOne ==
    ASSUME NEW v \in Views, NEW s
    PROVE  L!FoldLeft(LAMBDA w, item : L!DropItem(w, v, <<s>>[1], item), L!World, <<s>>)
             = L!DropItem(L!World, v, s, s)
<1> DEFINE dropped == <<s>>
           Recursion(f) == f = [t \in SUBSET (1..1) |->
                                  IF t = {} THEN L!World
                                  ELSE L!DropItem(f[t \ {L!Max(t)}], v, dropped[1], dropped[L!Max(t)])]
           F == CHOOSE f : Recursion(f)
           g == [t \in SUBSET (1..1) |-> IF t = {} THEN L!World ELSE L!DropItem(L!World, v, s, s)]
<1>1. SUBSET (1..1) = {{}, {1}} /\ L!Max({1}) = 1 /\ {1} \ {1} = {} /\ 1..1 = {1}
  <2>1. 1..1 = {1} /\ 1 \in Nat /\ {1} \subseteq 1..1
    OBVIOUS
  <2>2. L!Max({1}) = 1
    BY <2>1, MaxTop DEF L!Max, Max
  <2> QED
    BY <2>1, <2>2
<1>6. dropped[1] = s
  OBVIOUS
<1> HIDE DEF dropped
<1>2. Recursion(g)
  <2>1. g = [t \in SUBSET (1..1) |-> g[t]] /\ g[{}] = L!World
        /\ g[{1}] = L!DropItem(L!World, v, s, s)
    BY <1>1
  <2> HIDE DEF g
  <2>2. \A t \in SUBSET (1..1) : g[t] = IF t = {} THEN L!World
                                       ELSE L!DropItem(g[t \ {L!Max(t)}], v, dropped[1], dropped[L!Max(t)])
    <3> SUFFICES ASSUME NEW t \in SUBSET (1..1), t # {}
                 PROVE  g[t] = L!DropItem(g[t \ {L!Max(t)}], v, dropped[1], dropped[L!Max(t)])
      BY <1>1, <2>1
    <3>1. t = {1} /\ L!Max(t) = 1 /\ t \ {L!Max(t)} = {}
      BY <1>1
    <3> QED
      BY <1>6, <2>1, <3>1
  <2> QED
    BY <2>1, <2>2
<1>3. L!FoldLeft(LAMBDA w, item : L!DropItem(w, v, <<s>>[1], item), L!World, <<s>>) = F[1..1]
  BY DEF L!FoldLeft, L!MapThenFoldSet, dropped
<1> HIDE DEF g
<1>4. Recursion(F)
  BY <1>2
<1> HIDE DEF F
<1>5. F[{1}] = L!DropItem(L!World, v, s, s)
  <2>1. {1} \in SUBSET (1..1) /\ {} \in SUBSET (1..1) /\ {1} # {}
    BY <1>1
  <2>2. F[{1}] = L!DropItem(F[{1} \ {L!Max({1})}], v, dropped[1], dropped[L!Max({1})])
        /\ F[{}] = L!World
    BY <1>4, <2>1
  <2>3. L!Max({1}) = 1 /\ {1} \ {1} = {}
    BY <1>1
  <2> QED
    BY <1>6, <2>2, <2>3
<1> QED
  BY <1>1, <1>3, <1>5

\* An entry, or all of them, are deleted.
LEMMA ListDelete ==
    ASSUME ListInv, NEW v \in Views, NEW list \in Seq(L!Entries),
           L!Become(L!NewEntry([L!World EXCEPT !.rows[v] = list], v))
    PROVE  /\ ListInv'
           /\ viewBound[v] # None => listOf' = [listOf EXCEPT ![viewBound[v]] = L!SentList(list)]
<1> DEFINE u == L!NewEntry(WithEntries(L!World, v, list), v)
<1>1. L!Become(u)
  BY DEF WithEntries
<1>2. ListWorldOK(u)
      /\ (v \in L!World.connected => u.value = [L!World.value EXCEPT ![L!World.bound[v]] = L!SentList(list)])
  <2>1. ListWorldOK(L!World)
    BY DEF ListInv
  <2> QED
    BY <2>1, ListEdited
<1>3. viewBound[v] # None => v \in L!World.connected
  BY ListHere DEF ListInv, ListWorldOK
<1> HIDE DEF u
<1> QED
  BY <1>1, <1>2, <1>3, ListHere, ListBecomes

\* A list of which an entry is removed.
LEMMA RemovedType ==
    ASSUME NEW gone, NEW list \in Seq(gone), NEW r \in DOMAIN list
    PROVE  L!RemoveAt(list, r) \in Seq(gone)
BY DEF L!RemoveAt

\* A device sets a list, or a number.
LEMMA ListDeviceSets ==
    ASSUME ListInv, NEW id \in L!Parameters, NEW new \in DeviceLists \cup {Number},
           L!DeviceSets(id, new)
    PROVE  ListInv'
<1> DEFINE x == [L!World EXCEPT !.value[id] = new]
<1>1. L!Become(L!Received(x, id)) /\ (id \in Lists => new # Number)
  BY ListFacts DEF L!DeviceSets
<1>2. [listOf EXCEPT ![id] = new] \in [L!Parameters -> Seq(L!Entries) \cup {Number}]
  BY ListHere, ListFacts
<1>3. /\ x \in ListWorlds /\ x.value = [listOf EXCEPT ![id] = new] /\ x.rows = entries
      /\ x.bound = viewBound /\ x.connected = viewConnected /\ x.unseen = viewUnseen
  BY <1>2, ListHere DEF ListWorlds
<1> HIDE DEF x
<1>4. /\ ListWorldOK(L!World) /\ x \in ListWorlds /\ id \in L!Parameters
      /\ x.bound = L!World.bound /\ x.connected = L!World.connected /\ x.unseen = L!World.unseen
  BY <1>3, ListHere DEF ListInv
<1>5. \A i \in L!Parameters \ {id} : x.value[i] = L!World.value[i]
  BY <1>3, ListHere
<1>6. id \in Lists => x.value[id] # Number
  BY <1>1, <1>3, ListHere
<1>7. \A v \in Views : L!World.bound[v] \in {id, None} \/ x.rows[v] = L!World.rows[v]
  BY <1>3, ListHere
<1>8. ListWorldOK(L!Received(x, id))
  BY <1>4, <1>5, <1>6, <1>7, ListReceivedOK
<1> QED
  BY <1>1, <1>8, ListBecomes

\* The experiment is loaded again.
LEMMA ListReload ==
    ASSUME ListInv, NEW new \in [L!Parameters -> DeviceLists \cup {Number}], L!Reload(new)
    PROVE  ListInv'
<1> DEFINE again == {v \in Views : viewBound[v] # None}
           none == [v \in Views |-> <<>>]
           x == [L!World EXCEPT !.value = new, !.rows = none, !.connected = again, !.unseen = again]
<1>1. L!Become(x) /\ \A id \in Lists : new[id] # Number
  BY ListFacts DEF L!Reload
<1>2. new \in [L!Parameters -> Seq(L!Entries) \cup {Number}] /\ none \in [Views -> Seq(L!Entries)]
      /\ again \in SUBSET Views
  BY ListFacts
<1> HIDE DEF again, none
<1>3. /\ x \in ListWorlds /\ x.value = new /\ x.rows = none
      /\ x.bound = viewBound /\ x.connected = again /\ x.unseen = again
  BY <1>2, ListHere DEF ListWorlds
<1> HIDE DEF x
<1>4. \A v \in Views : v \in again <=> viewBound[v] # None
  BY DEF again
<1>5. ListWorldOK(x)
  BY <1>1, <1>3, <1>4 DEF ListWorldOK
<1> QED
  BY <1>1, <1>5, ListBecomes

\* The invariant holds at the start,
LEMMA ListInit == L!Init => ListInv
<1> SUFFICES ASSUME L!Init PROVE ListInv
  OBVIOUS
<1>1. /\ listOf \in [L!Parameters -> Seq(L!Entries) \cup {Number}]
      /\ entries \in [Views -> Seq(L!Entries)]
      /\ viewBound \in [Views -> L!Parameters \cup {None}] /\ viewConnected \in SUBSET Views
      /\ viewUnseen \in SUBSET Views /\ crashed \in BOOLEAN
      /\ \A v \in Views : viewBound[v] = None
      /\ viewConnected = {} /\ viewUnseen = {}
      /\ \A id \in Lists : listOf[id] # Number
  BY ListFacts DEF L!Init
<1>2. L!World \in ListWorlds
  BY <1>1 DEF L!World, ListWorlds
<1> QED
  BY <1>1, <1>2 DEF L!World, ListInv, ListWorldOK

\* and every step keeps it.
LEMMA ListNext == ListInv /\ [L!Next]_(L!listVars) => ListInv'
<1> SUFFICES ASSUME ListInv, [L!Next]_(L!listVars) PROVE ListInv'
  OBVIOUS
<1>1. CASE \E v \in Views, dropped \in L!SelectedItems : L!Drop(v, dropped)
  BY <1>1, ListDrop
<1>2. CASE \E v \in Views, r \in 1..MaxList : L!DeleteEntry(v, r)
  <2>1. PICK v \in Views, r \in 1..MaxList : L!DeleteEntry(v, r)
    BY <1>2
  <2>2. L!RemoveAt(entries[v], r) \in Seq(L!Entries)
    BY <2>1, ListHere, RemovedType DEF L!DeleteEntry
  <2>3. L!Become(L!NewEntry([L!World EXCEPT !.rows[v] = L!RemoveAt(entries[v], r)], v))
    BY <2>1, ListHere DEF L!DeleteEntry
  <2> QED
    BY <2>2, <2>3, ListDelete
<1>3. CASE \E v \in Views : L!DeleteAllEntries(v)
  <2>1. PICK v \in Views : L!DeleteAllEntries(v)
    BY <1>3
  <2>2. L!Become(L!NewEntry([L!World EXCEPT !.rows[v] = <<>>], v)) /\ <<>> \in Seq(L!Entries)
    BY <2>1, ListFacts DEF L!DeleteAllEntries
  <2> QED
    BY <2>2, ListDelete
<1>4. CASE \E id \in L!Parameters, new \in DeviceLists \cup {Number} : L!DeviceSets(id, new)
  BY <1>4, ListDeviceSets
<1>5. CASE \E new \in [L!Parameters -> DeviceLists \cup {Number}] : L!Reload(new)
  BY <1>5, ListReload
<1>6. CASE UNCHANGED L!listVars
  <2>1. L!World' = L!World
    BY <1>6 DEF L!listVars, L!World
  <2> QED
    BY <2>1 DEF ListInv
<1> QED
  BY <1>1, <1>2, <1>3, <1>4, <1>5, <1>6 DEF L!Next

\* What the invariant says of the properties.
LEMMA ListImplies == ListInv => L!TypeOK /\ L!ViewShowsList
<1> SUFFICES ASSUME ListInv PROVE L!TypeOK /\ L!ViewShowsList
  OBVIOUS
<1>1. /\ \A v \in Views : /\ v \in viewConnected <=> viewBound[v] # None
                          /\ v \in viewUnseen => viewBound[v] # None
                          /\ viewBound[v] # None /\ v \notin viewUnseen => ShowsList(L!World, v)
      /\ \A id \in Lists : listOf[id] # Number
  BY ListHere DEF ListInv, ListWorldOK
<1>2. L!TypeOK
  BY <1>1, ListHere DEF L!TypeOK, L!Bound
<1>3. L!ViewShowsList
  BY <1>1, ListHere DEF L!ViewShowsList, ShowsList, L!Bound
<1> QED
  BY <1>2, <1>3

\* An edit of a list that is shown changes that entry.
LEMMA ListEdits == ListInv => L!OnlyEdits
<1> SUFFICES ASSUME ListInv, NEW v \in L!Bound \ viewUnseen, listOf[viewBound[v]] # Number
             PROVE  /\ \A r \in DOMAIN entries[v] : L!DeleteEntry(v, r) =>
                          L!Only(viewBound[v], L!RemoveAt(listOf[viewBound[v]], r))
                    /\ L!DeleteAllEntries(v) => L!Only(viewBound[v], <<>>)
                    /\ \A s \in Signals : L!Drop(v, <<s>>) =>
                          L!Only(viewBound[v], Append(listOf[viewBound[v]], s))
  BY DEF L!OnlyEdits
<1>1. v \in Views /\ viewBound[v] # None /\ entries[v] = listOf[viewBound[v]]
      /\ entries[v] \in Seq(L!Entries)
  BY ListHere, ListImplies DEF L!Bound, L!ViewShowsList
<1>2. ASSUME NEW r \in DOMAIN entries[v], L!DeleteEntry(v, r)
      PROVE  L!Only(viewBound[v], L!RemoveAt(listOf[viewBound[v]], r))
  <2>1. L!RemoveAt(entries[v], r) \in Seq(L!Entries)
    BY <1>1, RemovedType
  <2>2. L!Become(L!NewEntry([L!World EXCEPT !.rows[v] = L!RemoveAt(entries[v], r)], v))
    BY <1>2, ListHere DEF L!DeleteEntry
  <2> QED
    BY <1>1, <2>1, <2>2, ListDelete DEF L!Only
<1>3. ASSUME L!DeleteAllEntries(v) PROVE L!Only(viewBound[v], <<>>)
  <2>1. L!Become(L!NewEntry([L!World EXCEPT !.rows[v] = <<>>], v)) /\ <<>> \in Seq(L!Entries)
    BY <1>3, ListFacts DEF L!DeleteAllEntries
  <2> QED
    BY <1>1, <2>1, ListDelete DEF L!Only
<1>4. ASSUME NEW s \in Signals, L!Drop(v, <<s>>)
      PROVE  L!Only(viewBound[v], Append(listOf[viewBound[v]], s))
  <2>1. L!Become(L!DropItem(L!World, v, s, s))
    BY <1>1, <1>4, DropOne DEF L!Drop
  <2>2. L!DropItem(L!World, v, s, s) = L!NewEntry([L!World EXCEPT !.rows[v] = Append(entries[v], s)], v)
    BY <1>4, ListHere, ListFacts DEF L!DropItem, L!Supports, L!Drop
  <2>3. Append(entries[v], s) \in Seq(L!Entries)
    BY <1>1, ListFacts
  <2> DEFINE list == Append(entries[v], s)
  <2>4. L!Become(L!NewEntry([L!World EXCEPT !.rows[v] = list], v))
    BY <2>1, <2>2
  <2>5. list \in Seq(L!Entries)
    BY <2>3
  <2>6. viewBound[v] # None => listOf' = [listOf EXCEPT ![viewBound[v]] = L!SentList(list)]
    <3> HIDE DEF list
    <3> QED BY <1>1, <2>4, <2>5, ListDelete
  <2> QED
    BY <1>1, <2>6 DEF L!Only
<1> QED
  BY <1>2, <1>3, <1>4

-----------------------------------------------------------------------------
(* TableCells: the rows and the cells.                                     *)

\* Rows; and sequences in which none is twice.
TableRows == [label : Labels, number : T!Serials, serial : T!Serials, cells : SUBSET T!Columns]
Distinct(s) == \A i, j \in DOMAIN s : s[i].serial = s[j].serial => i = j

\* k holds the rows 1..n of s that are not in gone.
AreKept(k, s, n, gone) ==
    /\ \A j \in DOMAIN k : \E i \in (1..n) \ gone : k[j] = s[i]
    /\ \A i \in (1..n) \ gone : \E j \in DOMAIN k : k[j] = s[i]
    /\ Distinct(k)

\* RemoveSelectedRows leaves the other rows, each of them once.
LEMMA KeptRows ==
    ASSUME rows \in Seq(TableRows), Distinct(rows), NEW gone
    PROVE  T!Kept(gone) \in Seq(TableRows) /\ AreKept(T!Kept(gone), rows, Len(rows), gone)
<1> DEFINE R == Seq(TableRows)
           len == Len(rows)
           list == [i \in DOMAIN rows |-> i]
           Turn(k, i) == IF i \in gone THEN k ELSE Append(k, rows[i])
           step == [x \in (1..len) \X R |-> Turn(x[2], list[x[1]])]
           Recursion(f) == f = [s \in SUBSET (1..len) |->
                                  IF s = {} THEN <<>>
                                  ELSE Turn(f[s \ {T!Max(s)}], list[T!Max(s)])]
           F == CHOOSE f : Recursion(f)
<1>1. len \in Nat /\ DOMAIN rows = 1..len /\ <<>> \in R /\ DOMAIN list = 1..len
      /\ \A i \in 1..len : list[i] = i /\ rows[i] \in TableRows
  OBVIOUS
<1>2. \A k \in R, i \in 1..len : Turn(k, i) \in R
  BY <1>1
<1>3. step \in Turns(len, R)
  <2> HIDE DEF Turn, R, list
  <2> QED BY <1>1, <1>2 DEF Turns
<1>4. \A s \in SUBSET (1..len) : s # {} => T!Max(s) \in 1..len /\ T!Max(s) = Max(s)
  BY <1>1, MaxIn DEF T!Max, Max
<1>5. T!Kept(gone) = F[1..len]
  BY <1>1 DEF T!Kept, T!FoldLeftDomain, T!FoldLeft, T!MapThenFoldSet
<1>6. \A k \in R, i \in 1..len : step[<<i, k>>] = Turn(k, list[i])
  <2> HIDE DEF Turn, R, list
  <2> QED BY <1>1
<1>7. \A k \in R, i \in 1..len :
         IF i \in gone THEN Turn(k, i) = k
         ELSE /\ DOMAIN Turn(k, i) = 1..(Len(k) + 1) /\ DOMAIN k = 1..Len(k) /\ Len(k) \in Nat
              /\ Turn(k, i)[Len(k) + 1] = rows[i]
              /\ \A j \in 1..Len(k) : Turn(k, i)[j] = k[j]
  BY <1>1
<1> HIDE DEF Turn, R, step, Recursion, F, list
<1>8. Recursion(F)
  <2>1. PICK g : IsFold(g, R, len, <<>>, step)
    BY <1>1, <1>3, FoldExists
  <2>2. /\ g \in [SUBSET (1..len) -> R]
        /\ \A s \in SUBSET (1..len) :
              g[s] = IF s = {} THEN <<>> ELSE step[<<T!Max(s), g[s \ {T!Max(s)}]>>]
    BY <1>4, <2>1 DEF IsFold
  <2>3. Recursion(g)
    BY <1>4, <1>6, <2>2 DEF Recursion
  <2> QED BY <2>3 DEF F
<1>9. Follows(F, R, len, <<>>, step)
  BY <1>4, <1>6, <1>8 DEF Recursion, Follows
<1>10. PICK h : ArePrefixes(h, R, len, <<>>, step) /\ F[1..len] = h[len]
  BY <1>1, <1>3, <1>9, FoldPrefixes
<1> DEFINE upTo == {n \in 0..len : AreKept(h[n], rows, n, gone)}
<1>11. 0..len \subseteq upTo
  <2>1. 0 \in upTo
    <3>1. h[0] = <<>> /\ 1..0 = {}
      BY <1>10 DEF ArePrefixes
    <3> QED
      BY <1>1, <3>1 DEF AreKept, Distinct
  <2>2. ASSUME NEW n \in 0..len, n < len, n \in upTo PROVE n + 1 \in upTo
    <3>1. n + 1 \in 1..len /\ n + 1 \in 0..len /\ (n + 1) - 1 = n
      BY <1>1, <2>2
    <3>2. h[n] \in R /\ h[n + 1] = Turn(h[n], n + 1)
      <4>1. h[n] \in R /\ h[n + 1] = Turn(h[n], list[n + 1])
        BY <1>6, <1>10, <3>1 DEF ArePrefixes
      <4>2. list[n + 1] = n + 1
        BY <1>1, <3>1
      <4> QED
        BY <4>1, <4>2
    <3>3. AreKept(h[n], rows, n, gone)
      BY <2>2
    <3>4. \A i : i \in 1..(n + 1) <=> i \in 1..n \/ i = n + 1
      BY <1>1
    <3>5. CASE n + 1 \in gone
      <4>1. h[n + 1] = h[n] /\ (1..(n + 1)) \ gone = (1..n) \ gone
        BY <1>7, <3>1, <3>2, <3>4, <3>5
      <4>2. AreKept(h[n + 1], rows, n + 1, gone)
        BY <3>3, <4>1 DEF AreKept
      <4> QED
        BY <3>1, <4>2
    <3>6. CASE n + 1 \notin gone
      <4> DEFINE k == h[n]
                 m == h[n + 1]
                 l == Len(k)
      <4>1. /\ DOMAIN m = 1..(l + 1) /\ DOMAIN k = 1..l /\ l \in Nat
            /\ m[l + 1] = rows[n + 1]
            /\ \A j \in 1..l : m[j] = k[j]
        BY <1>7, <3>1, <3>2, <3>6
      <4> HIDE DEF k, m, l
      <4>2. \A j : j \in 1..(l + 1) <=> j \in 1..l \/ j = l + 1
        BY <4>1
      <4>3. \A j \in DOMAIN m : \E i \in (1..(n + 1)) \ gone : m[j] = rows[i]
        BY <3>3, <3>4, <3>6, <4>1, <4>2 DEF AreKept, k
      <4>4. \A i \in (1..(n + 1)) \ gone : \E j \in DOMAIN m : m[j] = rows[i]
        BY <3>3, <3>4, <4>1, <4>2 DEF AreKept, k
      <4>5. \A j \in 1..l : m[j].serial # m[l + 1].serial
        <5> SUFFICES ASSUME NEW j \in 1..l PROVE m[j].serial # m[l + 1].serial
          OBVIOUS
        <5>1. PICK i \in (1..n) \ gone : k[j] = rows[i]
          BY <3>3, <4>1 DEF AreKept, k
        <5>2. i # n + 1 /\ i \in DOMAIN rows /\ n + 1 \in DOMAIN rows
          BY <1>1, <3>1, <2>2
        <5> QED
          BY <4>1, <5>1, <5>2 DEF Distinct
      <4>6. Distinct(m)
        <5> SUFFICES ASSUME NEW i \in DOMAIN m, NEW j \in DOMAIN m, m[i].serial = m[j].serial
                     PROVE  i = j
          BY DEF Distinct
        <5>1. CASE i \in 1..l /\ j \in 1..l
          <6>1. Distinct(k)
            BY <3>3 DEF AreKept, k
          <6>2. k[i].serial = k[j].serial /\ i \in DOMAIN k /\ j \in DOMAIN k
            BY <4>1, <5>1
          <6> QED
            BY <6>1, <6>2 DEF Distinct
        <5> QED
          BY <4>1, <4>2, <4>5, <5>1
      <4>7. AreKept(m, rows, n + 1, gone)
        BY <4>3, <4>4, <4>6 DEF AreKept
      <4> QED
        BY <3>1, <4>7 DEF m
    <3> QED
      BY <3>5, <3>6
  <2> HIDE DEF upTo
  <2> QED BY <1>1, <2>1, <2>2, BoundedInduction
<1>12. len \in 0..len
  BY <1>1
<1>13. AreKept(h[len], rows, len, gone)
  BY <1>11, <1>12
<1> QED
  BY <1>5, <1>10, <1>12, <1>13 DEF ArePrefixes, R

\* A row is inserted.
LEMMA InsertedRow ==
    ASSUME NEW s \in Seq(TableRows), NEW i \in 1..(Len(s) + 1), NEW e \in TableRows
    PROVE  LET t == T!InsertAt(s, i, e)
           IN  /\ t \in Seq(TableRows) /\ Len(t) = Len(s) + 1
               /\ t[i] = e
               /\ \A j \in 1..(i - 1) : t[j] = s[j]
               /\ \A j \in i..Len(s) : t[j + 1] = s[j]
<1> DEFINE a == SubSeq(s, 1, i - 1)
           b == SubSeq(s, i, Len(s))
<1>1. Len(s) \in Nat /\ i \in Nat /\ i >= 1 /\ i <= Len(s) + 1
  OBVIOUS
<1>2. a \in Seq(TableRows) /\ Len(a) = i - 1 /\ \A j \in 1..(i - 1) : a[j] = s[j]
  BY <1>1
<1>3. b \in Seq(TableRows) /\ Len(b) = Len(s) - i + 1
      /\ \A j \in 1..(Len(s) - i + 1) : b[j] = s[i + j - 1]
  BY <1>1
<1>4. T!InsertAt(s, i, e) = (a \o <<e>>) \o b
  BY DEF T!InsertAt
<1> HIDE DEF a, b
<1> DEFINE c == a \o <<e>>
<1>5. c \in Seq(TableRows) /\ Len(c) = i /\ c[i] = e /\ \A j \in 1..(i - 1) : c[j] = s[j]
  BY <1>1, <1>2
<1> HIDE DEF c
<1> DEFINE t == c \o b
<1>6. t \in Seq(TableRows) /\ Len(t) = Len(s) + 1
      /\ (\A j \in 1..i : t[j] = c[j]) /\ \A j \in 1..Len(b) : t[i + j] = b[j]
  BY <1>1, <1>3, <1>5
<1> HIDE DEF t
<1>7. \A j \in i..Len(s) : t[j + 1] = s[j]
  <2> SUFFICES ASSUME NEW j \in i..Len(s) PROVE t[j + 1] = s[j]
    OBVIOUS
  <2> DEFINE k == j - i + 1
  <2>1. k \in 1..Len(b) /\ i + k = j + 1 /\ i + k - 1 = j /\ k \in 1..(Len(s) - i + 1)
    BY <1>1, <1>3
  <2> HIDE DEF k
  <2>2. t[i + k] = b[k] /\ b[k] = s[i + k - 1]
    BY <1>3, <1>6, <2>1
  <2> QED
    BY <2>1, <2>2
<1>8. T!InsertAt(s, i, e) = t
  BY <1>4 DEF t, c
<1>9. i \in 1..i /\ \A j \in 1..(i - 1) : j \in 1..i
  BY <1>1
<1> QED
  BY <1>5, <1>6, <1>7, <1>8, <1>9

\* The rows on the screen, their cells and the subscriptions of these.
CellInv ==
    /\ rows \in Seq(TableRows) /\ Distinct(rows)
    /\ published \subseteq Elements
    /\ binding \in [T!CellNames -> Elements \cup {None}]
    /\ \A o \in objects :
          /\ o.name \in T!CellNames /\ binding[o.name] = o.element /\ o.element \in Elements
          /\ \E r \in T!ToSet(rows) : /\ r.serial = o.serial /\ o.name \in T!NamesOf(r)
                                   /\ o.element = <<r.label, o.name[2]>>
    /\ \A r \in T!ToSet(rows) : r.serial \notin robbed =>
          \A c \in r.cells : \E o \in objects : o.serial = r.serial /\ o.name = <<r.number, c>>
    /\ \A r, q \in T!ToSet(rows) : r.serial # q.serial /\ r.number = q.number => r.serial \in robbed

\* The labels of the rows, of those to come and of the file.
FileInv ==
    /\ pending \in Seq(Labels) /\ wanted \in Seq(Labels) /\ table.labels \in Seq(Labels)
    /\ table.connected \subseteq Elements
    /\ table.labels = T!Reverse(wanted)
    /\ \A r \in T!ToSet(rows) : T!All(r.label) # {}
    /\ \A i \in DOMAIN pending : T!All(pending[i]) # {}
    /\ \A i \in DOMAIN table.labels : T!All(table.labels[i]) # {}
    /\ faithful => /\ T!LabelsOf(rows) \o pending = table.labels
                   /\ \A r \in T!ToSet(rows) :
                         r.cells = {n \in T!All(r.label) : <<r.label, n>> \in Shown}

\* The inductive invariant of a table.
TableInv == CellInv /\ FileInv

\* What is assumed of the constants of tables, as it is used below.
LEMMA TableFacts ==
    /\ MaxRows \in Nat \ {0} /\ T!Serials = 1..MaxRows /\ Shown \subseteq Elements
    /\ \A e \in Elements : e = <<e[1], e[2]>> /\ e[1] \in Labels /\ e[2] \in T!Columns
    /\ \A l, n : <<l, n>> \in Elements => n \in T!Columns /\ n \in Nat
    /\ None \notin Elements
BY TableAssumed DEF T!TableAssumption, T!Serials, T!Columns

\* A table that is not full has a serial left.
LEMMA SerialLeft ==
    ASSUME rows \in Seq(TableRows), Len(rows) < MaxRows
    PROVE  \E s \in T!Serials : s \notin {rows[i].serial : i \in DOMAIN rows}
<1> SUFFICES ASSUME \A s \in T!Serials : s \in {rows[i].serial : i \in DOMAIN rows} PROVE FALSE
  OBVIOUS
<1> DEFINE n == Len(rows)
           f == [s \in T!Serials |-> CHOOSE i \in 1..n : rows[i].serial = s]
<1>1. n \in Nat /\ DOMAIN rows = 1..n /\ T!Serials = 1..MaxRows /\ MaxRows \in Nat /\ n < MaxRows
  BY TableFacts
<1>2. \A s \in T!Serials : f[s] \in 1..n /\ rows[f[s]].serial = s
  BY <1>1
<1>3. f \in [T!Serials -> 1..n]
  BY <1>2
<1>4. /\ IsFiniteSet(T!Serials) /\ Cardinality(T!Serials) = MaxRows
      /\ IsFiniteSet(1..n) /\ Cardinality(1..n) = n
  <2>1. \A m \in Nat : IsFiniteSet(1..m) /\ Cardinality(1..m) = m
    BY FS_Interval
  <2> QED
    BY <1>1, <2>1
<1> HIDE DEF f, n
<1>5. \E x, y \in T!Serials : x # y /\ f[x] = f[y]
  <2> DEFINE Large == T!Serials
             Small == 1..n
  <2>1. /\ IsFiniteSet(Large) /\ IsFiniteSet(Small) /\ f \in [Large -> Small]
        /\ Cardinality(Small) < Cardinality(Large)
    BY <1>1, <1>3, <1>4
  <2>2. \E x, y \in Large : x # y /\ f[x] = f[y]
    <3> HIDE DEF Large, Small
    <3> QED BY <2>1, FS_PigeonHole
  <2> QED BY <2>2
<1> QED
  BY <1>2, <1>5

\* What is found is published, and all there is has a column.
LEMMA FoundType ==
    ASSUME NEW label, published \subseteq Elements
    PROVE  /\ T!Found(label) \subseteq T!Columns /\ T!Found(label) \subseteq T!All(label)
<1> SUFFICES ASSUME NEW n \in T!Found(label) PROVE n \in T!Columns /\ n \in T!All(label)
  OBVIOUS
<1>1. n \in T!Columns /\ \A k \in 0..n : <<label, k>> \in published
  BY DEF T!Found
<1>2. n \in Nat
  BY <1>1, TableAssumed DEF T!TableAssumption, T!Columns
<1>3. n \in 0..n
  BY <1>2
<1> QED
  BY <1>1, <1>3 DEF T!All

\* The row that CreateRow adds.
RowCreated(new, label, i) ==
    /\ new \in TableRows /\ new.label = label /\ new.number = Len(rows) + 1
    /\ new.cells = {n \in T!Found(label) : <<label, n>> \in Shown}
    /\ \A j \in DOMAIN rows : rows[j].serial # new.serial
    /\ rows' = T!InsertAt(rows, i, new)
    /\ objects' = T!Bound(new)
    /\ binding' = [n \in T!CellNames |->
           IF n \in T!NamesOf(new) THEN <<label, n[2]>> ELSE binding[n]]
    /\ LET twins == {rows[j].serial : j \in {k \in DOMAIN rows : rows[k].number = new.number}}
       IN  robbed' = IF twins = {} THEN robbed \ {new.serial}
                     ELSE robbed \cup twins \cup {new.serial}

\* CreateRow adds a row whose serial no other row has.
LEMMA RowIsCreated ==
    ASSUME TableInv, NEW label \in Labels, NEW i, T!CreateRow(label, i), T!Found(label) # {}
    PROVE  \E new : RowCreated(new, label, i)
<1> DEFINE used == {rows[j].serial : j \in DOMAIN rows}
           new == [label |-> label, number |-> Len(rows) + 1,
                   serial |-> CHOOSE s \in T!Serials : s \notin used,
                   cells |-> {n \in T!Found(label) : <<label, n>> \in Shown}]
<1>1. Len(rows) < MaxRows /\ Len(rows) \in Nat
  BY DEF T!CreateRow, TableInv, CellInv
<1>2. \E s \in T!Serials : s \notin used
  BY <1>1, SerialLeft DEF TableInv, CellInv
<1>3. new.serial \in T!Serials /\ new.serial \notin used
  BY <1>2
<1>4. new.number \in T!Serials
  BY <1>1, TableFacts
<1>5. new.cells \subseteq T!Columns
  BY FoundType DEF TableInv, CellInv
<1>6. new \in TableRows
  BY <1>3, <1>4, <1>5 DEF TableRows
<1>7. /\ rows' = T!InsertAt(rows, i, new)
      /\ objects' = T!Bound(new)
      /\ binding' = [n \in T!CellNames |->
             IF n \in T!NamesOf(new) THEN <<label, n[2]>> ELSE binding[n]]
      /\ LET twins == {rows[j].serial : j \in {k \in DOMAIN rows : rows[k].number = new.number}}
         IN  robbed' = IF twins = {} THEN robbed \ {new.serial}
                       ELSE robbed \cup twins \cup {new.serial}
  BY Zenon DEF T!CreateRow
<1>8. new.label = label /\ new.number = Len(rows) + 1
      /\ new.cells = {n \in T!Found(label) : <<label, n>> \in Shown}
      /\ \A j \in DOMAIN rows : rows[j].serial # new.serial
  BY <1>3
<1> HIDE DEF new
<1>9. RowCreated(new, label, i)
  BY <1>6, <1>7, <1>8 DEF RowCreated
<1> QED
  BY <1>9

\* The rows of a sequence, as a set.
LEMMA RowsSet ==
    ASSUME NEW s \in Seq(TableRows)
    PROVE  /\ DOMAIN s = 1..Len(s) /\ Len(s) \in Nat
           /\ \A i \in DOMAIN s : s[i] \in T!ToSet(s)
           /\ \A r \in T!ToSet(s) : r \in TableRows /\ \E i \in DOMAIN s : r = s[i]
           /\ Distinct(s) => \A r, q \in T!ToSet(s) : r.serial = q.serial => r = q
BY DEF T!ToSet, Distinct

\* The rows with one more.
LEMMA InsertedSet ==
    ASSUME NEW s \in Seq(TableRows), NEW i \in 1..(Len(s) + 1), NEW e \in TableRows,
           Distinct(s), \A j \in DOMAIN s : s[j].serial # e.serial
    PROVE  LET t == T!InsertAt(s, i, e)
           IN  t \in Seq(TableRows) /\ Distinct(t) /\ T!ToSet(t) = T!ToSet(s) \cup {e}
<1> DEFINE t == T!InsertAt(s, i, e)
<1>1. /\ t \in Seq(TableRows) /\ Len(t) = Len(s) + 1
      /\ t[i] = e
      /\ \A j \in 1..(i - 1) : t[j] = s[j]
      /\ \A j \in i..Len(s) : t[j + 1] = s[j]
  BY InsertedRow
<1> HIDE DEF t
<1>2. DOMAIN t = 1..(Len(s) + 1) /\ DOMAIN s = 1..Len(s) /\ Len(s) \in Nat /\ i \in DOMAIN t
  BY <1>1
<1>3. \A k \in DOMAIN t : \/ k = i
                          \/ k \in 1..(i - 1) /\ k \in DOMAIN s
                          \/ k - 1 \in i..Len(s) /\ k - 1 \in DOMAIN s /\ (k - 1) + 1 = k
  BY <1>2
<1>4. \A k \in DOMAIN t : \/ k = i /\ t[k] = e
                          \/ k < i /\ k \in DOMAIN s /\ t[k] = s[k]
                          \/ k > i /\ k - 1 \in DOMAIN s /\ t[k] = s[k - 1]
  BY <1>1, <1>2, <1>3
<1>5. \A j \in DOMAIN s : \/ j \in 1..(i - 1) /\ j \in DOMAIN t
                          \/ j \in i..Len(s) /\ j + 1 \in DOMAIN t
  BY <1>2
<1>6. T!ToSet(t) = T!ToSet(s) \cup {e}
  <2>1. ASSUME NEW k \in DOMAIN t PROVE t[k] \in T!ToSet(s) \cup {e}
    BY <1>4 DEF T!ToSet
  <2>2. ASSUME NEW j \in DOMAIN s PROVE \E k \in DOMAIN t : t[k] = s[j]
    <3>1. CASE j \in 1..(i - 1) /\ j \in DOMAIN t
      BY <1>1, <3>1
    <3>2. CASE j \in i..Len(s) /\ j + 1 \in DOMAIN t
      BY <1>1, <3>2
    <3> QED BY <1>5, <3>1, <3>2
  <2>3. i \in DOMAIN t /\ t[i] = e
    BY <1>1, <1>2
  <2> QED BY <2>1, <2>2, <2>3 DEF T!ToSet
<1>7. Distinct(t)
  <2> SUFFICES ASSUME NEW k \in DOMAIN t, NEW m \in DOMAIN t, t[k].serial = t[m].serial PROVE k = m
    BY DEF Distinct
  <2>1. k = i <=> m = i
    BY <1>4
  <2>2. CASE k # i
    <3>1. k \in Int /\ m \in Int
      BY <1>2
    <3> QED
      BY <1>4, <2>1, <2>2, <3>1 DEF Distinct
  <2> QED
    BY <2>1, <2>2
<1> QED
  BY <1>1, <1>6, <1>7 DEF t

\* The rows without those of a set.
LEMMA KeptSet ==
    ASSUME CellInv, NEW gone
    PROVE  /\ T!Kept(gone) \in Seq(TableRows) /\ Distinct(T!Kept(gone))
           /\ T!ToSet(T!Kept(gone)) = {rows[i] : i \in (DOMAIN rows) \ gone}
<1>1. T!Kept(gone) \in Seq(TableRows) /\ AreKept(T!Kept(gone), rows, Len(rows), gone)
  BY KeptRows DEF CellInv
<1>2. DOMAIN rows = 1..Len(rows)
  BY DEF CellInv
<1> DEFINE k == T!Kept(gone)
<1>3. k \in Seq(TableRows) /\ Distinct(k)
      /\ (\A j \in DOMAIN k : \E i \in (DOMAIN rows) \ gone : k[j] = rows[i])
      /\ (\A i \in (DOMAIN rows) \ gone : \E j \in DOMAIN k : k[j] = rows[i])
  <2> HIDE DEF k
  <2>1. AreKept(k, rows, Len(rows), gone)
    BY <1>1 DEF k
  <2> QED
    BY <1>1, <1>2, <2>1 DEF AreKept, k
<1> HIDE DEF k
<1>4. T!ToSet(k) = {rows[i] : i \in (DOMAIN rows) \ gone}
  BY <1>3 DEF T!ToSet
<1> QED
  BY <1>3, <1>4 DEF k

\* A row that is added is subscribed in all its cells, and other rows lose
\* their subscriptions to it only where their number is the same.
LEMMA CreatedCells ==
    ASSUME CellInv, NEW label \in Labels, NEW new, NEW i \in 1..(Len(rows) + 1),
           RowCreated(new, label, i), UNCHANGED published
    PROVE  CellInv' /\ T!ToSet(rows)' = T!ToSet(rows) \cup {new}
<1>1. /\ new \in TableRows /\ new.label = label
      /\ new.cells = {n \in T!Found(label) : <<label, n>> \in Shown}
      /\ \A j \in DOMAIN rows : rows[j].serial # new.serial
      /\ rows' = T!InsertAt(rows, i, new) /\ objects' = T!Bound(new)
      /\ binding' = [n \in T!CellNames |->
             IF n \in T!NamesOf(new) THEN <<label, n[2]>> ELSE binding[n]]
  BY DEF RowCreated
<1>2. rows' \in Seq(TableRows) /\ Distinct(rows') /\ T!ToSet(rows)' = T!ToSet(rows) \cup {new}
  BY <1>1, InsertedSet DEF CellInv
<1>3. \A r \in T!ToSet(rows) : r \in TableRows /\ r.serial # new.serial
  BY <1>1, RowsSet DEF CellInv
<1>4. \A c \in new.cells : /\ <<new.number, c>> \in T!CellNames
      /\ <<new.number, c>> \in T!NamesOf(new)
                           /\ <<new.label, c>> \in Elements
  BY <1>1, TableFacts DEF TableRows, T!CellNames, T!NamesOf
<1>5. \A n \in T!NamesOf(new) : n \in T!CellNames /\ \E c \in new.cells : n = <<new.number, c>>
  BY <1>4 DEF T!NamesOf
<1>6. binding' \in [T!CellNames -> Elements \cup {None}]
      /\ \A n \in T!CellNames : binding'[n] = IF n \in T!NamesOf(new) THEN <<new.label, n[2]>>
                                            ELSE binding[n]
  <2>1. \A n \in T!NamesOf(new) : <<label, n[2]>> \in Elements
    <3> SUFFICES ASSUME NEW n \in T!NamesOf(new) PROVE <<label, n[2]>> \in Elements
      OBVIOUS
    <3>1. PICK c \in new.cells : n = <<new.number, c>>
      BY <1>5
    <3>2. n[2] = c
      BY <3>1
    <3> QED
      BY <1>1, <1>4, <3>2
  <2>2. binding \in [T!CellNames -> Elements \cup {None}]
    BY DEF CellInv
  <2> QED
    BY <1>1, <2>1, <2>2
<1>7. \A o \in objects : o.name \in T!CellNames /\ binding[o.name] = o.element
  BY DEF CellInv
<1> DEFINE fresh == {[element |-> <<new.label, c>>, name |-> <<new.number, c>>,
                      serial |-> new.serial] : c \in new.cells}
<1>8. objects' = {o \in objects : o.name \notin T!NamesOf(new)} \cup fresh
  BY <1>1, <1>7 DEF T!Bound, T!Unbound
<1>9. \A o \in fresh : \E c \in new.cells : /\ o.element = <<new.label, c>>
                                            /\ o.name = <<new.number, c>> /\ o.serial = new.serial
  OBVIOUS
<1>10. \A c \in new.cells : \E o \in fresh : o.serial = new.serial /\ o.name = <<new.number, c>>
  <2> SUFFICES ASSUME NEW c \in new.cells
               PROVE  \E o \in fresh : o.serial = new.serial /\ o.name = <<new.number, c>>
    OBVIOUS
  <2> DEFINE o == [element |-> <<new.label, c>>, name |-> <<new.number, c>>, serial |-> new.serial]
  <2>1. o \in fresh /\ o.serial = new.serial /\ o.name = <<new.number, c>>
    OBVIOUS
  <2> QED
    BY <2>1
<1> HIDE DEF fresh
<1>11. ASSUME NEW o \in objects'
       PROVE  /\ o.name \in T!CellNames /\ binding'[o.name] = o.element /\ o.element \in Elements
              /\ \E r \in T!ToSet(rows)' : /\ r.serial = o.serial /\ o.name \in T!NamesOf(r)
                                         /\ o.element = <<r.label, o.name[2]>>
  <2>1. CASE o \in objects /\ o.name \notin T!NamesOf(new)
    <3>1. /\ o.name \in T!CellNames /\ binding[o.name] = o.element /\ o.element \in Elements
          /\ \E r \in T!ToSet(rows) : /\ r.serial = o.serial /\ o.name \in T!NamesOf(r)
                                    /\ o.element = <<r.label, o.name[2]>>
      BY <2>1 DEF CellInv
    <3> QED
      BY <1>2, <1>6, <2>1, <3>1
  <2>2. CASE o \in fresh
    <3>1. PICK c \in new.cells : /\ o.element = <<new.label, c>>
                                 /\ o.name = <<new.number, c>> /\ o.serial = new.serial
      BY <1>9, <2>2
    <3>2. o.name \in T!CellNames /\ o.name \in T!NamesOf(new) /\ o.element \in Elements
          /\ o.name[2] = c
      BY <1>4, <3>1
    <3> QED
      BY <1>2, <1>6, <3>1, <3>2
  <2> QED
    BY <1>8, <2>1, <2>2
<1> DEFINE twins == {rows[j].serial : j \in {k \in DOMAIN rows : rows[k].number = new.number}}
<1>12. robbed' = IF twins = {} THEN robbed \ {new.serial} ELSE robbed \cup twins \cup {new.serial}
  BY DEF RowCreated
<1>13. \A r \in T!ToSet(rows) : r.number = new.number => r.serial \in twins
  BY DEF T!ToSet
<1> HIDE DEF twins
<1>14. \A r \in T!ToSet(rows) : r.serial \in robbed => r.serial \in robbed'
  BY <1>3, <1>12
<1>15. \A r \in T!ToSet(rows) : r.number = new.number => r.serial \in robbed'
       /\ new.serial \in robbed'
  BY <1>12, <1>13
<1>16. ASSUME NEW r \in T!ToSet(rows)', r.serial \notin robbed', NEW c \in r.cells
       PROVE  \E o \in objects' : o.serial = r.serial /\ o.name = <<r.number, c>>
  <2>1. CASE r = new
    BY <1>8, <1>10, <2>1
  <2>2. CASE r \in T!ToSet(rows)
    <3>1. PICK o \in objects : o.serial = r.serial /\ o.name = <<r.number, c>>
      BY <1>14, <1>16, <2>2 DEF CellInv
    <3>2. r.number # new.number
      BY <1>15, <1>16, <2>2
    <3>3. o.name \notin T!NamesOf(new)
      BY <1>5, <3>1, <3>2
    <3> QED
      BY <1>8, <3>1, <3>3
  <2> QED
    BY <1>2, <2>1, <2>2
<1>17. ASSUME NEW r \in T!ToSet(rows)', NEW q \in T!ToSet(rows)', r.serial # q.serial,
              r.number = q.number
       PROVE  r.serial \in robbed'
  <2>1. CASE r \in T!ToSet(rows) /\ q \in T!ToSet(rows)
    BY <1>14, <1>17, <2>1 DEF CellInv
  <2>2. CASE r = new /\ q \in T!ToSet(rows)
    BY <1>15, <1>17, <2>2
  <2>3. CASE r \in T!ToSet(rows) /\ q = new
    BY <1>15, <1>17, <2>3
  <2> QED
    BY <1>2, <1>17, <2>1, <2>2, <2>3
<1>18. published' \subseteq Elements
  BY DEF CellInv
<1> QED
  BY <1>2, <1>6, <1>11, <1>16, <1>17, <1>18 DEF CellInv

\* The rows of S go; what is left was not subscribed under their names, or
\* had shared a number with them.
LEMMA WithoutCells ==
    ASSUME CellInv, NEW gone, gone \subseteq DOMAIN rows, T!Without(gone),
           UNCHANGED <<published, robbed>>
    PROVE  CellInv' /\ T!ToSet(rows)' \subseteq T!ToSet(rows)
<1> DEFINE names == UNION {T!NamesOf(rows[i]) : i \in gone}
<1>1. /\ rows' = T!Kept(gone) /\ objects' = T!Unbound(names, objects)
      /\ binding' = [n \in T!CellNames |-> IF n \in names THEN None ELSE binding[n]]
  BY DEF T!Without
<1>2. /\ rows' \in Seq(TableRows) /\ Distinct(rows')
      /\ T!ToSet(rows)' = {rows[i] : i \in (DOMAIN rows) \ gone}
  BY <1>1, KeptSet
<1>3. T!ToSet(rows)' \subseteq T!ToSet(rows)
  BY <1>2 DEF T!ToSet
<1>4. \A n \in names : \E i \in gone : n \in T!NamesOf(rows[i])
  OBVIOUS
<1>5. \A i \in gone : \A n \in T!NamesOf(rows[i]) : n \in names
  OBVIOUS
<1> HIDE DEF names
<1>6. \A o \in objects : o \in objects' <=> o.name \notin names
  BY <1>1 DEF T!Unbound, CellInv
<1>7. objects' \subseteq objects
  BY <1>1 DEF T!Unbound
<1>8. binding' \in [T!CellNames -> Elements \cup {None}]
  BY <1>1 DEF CellInv
<1>9. ASSUME NEW o \in objects'
      PROVE  /\ o.name \in T!CellNames /\ binding'[o.name] = o.element /\ o.element \in Elements
             /\ \E r \in T!ToSet(rows)' : /\ r.serial = o.serial /\ o.name \in T!NamesOf(r)
                                        /\ o.element = <<r.label, o.name[2]>>
  <2>1. o \in objects /\ o.name \notin names
    BY <1>6, <1>7
  <2>2. /\ o.name \in T!CellNames /\ binding[o.name] = o.element /\ o.element \in Elements
    BY <2>1 DEF CellInv
  <2>3. PICK r \in T!ToSet(rows) : /\ r.serial = o.serial /\ o.name \in T!NamesOf(r)
                                 /\ o.element = <<r.label, o.name[2]>>
    BY <2>1 DEF CellInv
  <2>4. r \in T!ToSet(rows)'
    BY <1>2, <1>5, <2>1, <2>3 DEF T!ToSet
  <2> QED
    BY <1>1, <2>1, <2>2, <2>3, <2>4
<1>10. ASSUME NEW r \in T!ToSet(rows)', r.serial \notin robbed', NEW c \in r.cells
       PROVE  \E o \in objects' : o.serial = r.serial /\ o.name = <<r.number, c>>
  <2>1. PICK k \in (DOMAIN rows) \ gone : r = rows[k]
    BY <1>2
  <2>2. r \in T!ToSet(rows) /\ r.serial \notin robbed
    BY <1>3, <1>10
  <2>3. PICK o \in objects : o.serial = r.serial /\ o.name = <<r.number, c>>
    BY <2>2 DEF CellInv
  <2>4. o.name \notin names
    <3> SUFFICES ASSUME o.name \in names PROVE FALSE
      OBVIOUS
    <3>1. PICK i \in gone : o.name \in T!NamesOf(rows[i])
      BY <1>4
    <3>2. rows[i].number = r.number
      BY <2>3, <3>1 DEF T!NamesOf
    <3>3. rows[i] \in T!ToSet(rows) /\ i # k /\ i \in DOMAIN rows
      BY <2>1 DEF T!ToSet
    <3>4. rows[i].serial # r.serial
      BY <2>1, <3>3 DEF CellInv, Distinct
    <3> QED
      BY <2>2, <3>2, <3>3, <3>4 DEF CellInv
  <2> QED
    BY <1>6, <2>3, <2>4
<1>11. \A r, q \in T!ToSet(rows)' : r.serial # q.serial
       /\ r.number = q.number => r.serial \in robbed'
  BY <1>3 DEF CellInv
<1>12. published' \subseteq Elements
  BY DEF CellInv
<1> QED
  BY <1>2, <1>3, <1>8, <1>9, <1>10, <1>11, <1>12 DEF CellInv

-----------------------------------------------------------------------------
(* TableCells: the labels, and the steps.                                  *)

\* The labels of a sequence of rows.
LEMMA LabelsType ==
    ASSUME NEW s \in Seq(TableRows)
    PROVE  /\ T!LabelsOf(s) \in Seq(Labels) /\ Len(T!LabelsOf(s)) = Len(s)
           /\ DOMAIN T!LabelsOf(s) = DOMAIN s
           /\ \A i \in DOMAIN s : T!LabelsOf(s)[i] = s[i].label
<1>1. DOMAIN s = 1..Len(s) /\ Len(s) \in Nat /\ \A i \in DOMAIN s : s[i].label \in Labels
  <2>1. DOMAIN s = 1..Len(s) /\ Len(s) \in Nat /\ \A i \in 1..Len(s) : s[i] \in TableRows
    OBVIOUS
  <2>2. \A r \in TableRows : r.label \in Labels
    BY DEF TableRows
  <2> QED
    BY <2>1, <2>2
<1>2. T!LabelsOf(s) = [i \in 1..Len(s) |-> s[i].label]
  BY <1>1 DEF T!LabelsOf
<1> HIDE DEF T!LabelsOf
<1>3. T!LabelsOf(s) \in [1..Len(s) -> Labels]
  BY <1>1, <1>2
<1> QED
  BY <1>1, <1>2, <1>3

\* A sequence of labels from its end.
LEMMA ReverseType ==
    ASSUME NEW s \in Seq(Labels)
    PROVE  /\ T!Reverse(s) \in Seq(Labels) /\ DOMAIN T!Reverse(s) = 1..Len(s)
           /\ \A i \in 1..Len(s) : \E j \in DOMAIN s : T!Reverse(s)[i] = s[j]
<1>1. \A i \in 1..Len(s) : Len(s) - i + 1 \in 1..Len(s)
  OBVIOUS
<1>2. T!Reverse(s) = [i \in 1..Len(s) |-> s[(Len(s) - i) + 1]]
  BY DEF T!Reverse
<1>3. T!Reverse(s) \in [1..Len(s) -> Labels]
  BY <1>1, <1>2
<1> HIDE DEF T!Reverse
<1>4. T!Reverse(s) \in Seq(Labels) /\ DOMAIN T!Reverse(s) = 1..Len(s) /\ DOMAIN s = 1..Len(s)
  BY <1>3
<1> QED
  BY <1>1, <1>2, <1>4

\* The first of the rows to come is the last on the screen.
LEMMA LabelMoves ==
    ASSUME NEW s \in Seq(TableRows), NEW e \in TableRows, NEW p \in Seq(Labels), p # <<>>,
           e.label = Head(p)
    PROVE  T!LabelsOf(T!InsertAt(s, Len(s) + 1, e)) \o Tail(p) = T!LabelsOf(s) \o p
<1> DEFINE t == T!InsertAt(s, Len(s) + 1, e)
           a == T!LabelsOf(s)
           b == T!LabelsOf(t)
<1>1. Len(s) \in Nat /\ Len(s) + 1 \in 1..(Len(s) + 1)
  OBVIOUS
<1>2. /\ t \in Seq(TableRows) /\ Len(t) = Len(s) + 1 /\ t[Len(s) + 1] = e
      /\ \A j \in 1..Len(s) : t[j] = s[j]
  <2> DEFINE k == Len(s) + 1
  <2>1. k \in 1..(Len(s) + 1) /\ k - 1 = Len(s)
    BY <1>1
  <2> HIDE DEF k
  <2> DEFINE u == T!InsertAt(s, k, e)
  <2>2. u \in Seq(TableRows) /\ Len(u) = Len(s) + 1 /\ u[k] = e /\ \A j \in 1..(k - 1) : u[j] = s[j]
    <3>1. k \in 1..(Len(s) + 1)
      BY <2>1
    <3> QED BY <3>1, InsertedRow
  <2>3. t = u
    BY DEF k
  <2> HIDE DEF u, t
  <2> QED
    BY <2>1, <2>2, <2>3 DEF k
<1> HIDE DEF t
<1>3. /\ a \in Seq(Labels) /\ Len(a) = Len(s) /\ \A i \in 1..Len(s) : a[i] = s[i].label
      /\ b \in Seq(Labels) /\ Len(b) = Len(s) + 1 /\ \A i \in 1..(Len(s) + 1) : b[i] = t[i].label
  BY <1>2, LabelsType
<1> HIDE DEF a, b
<1>4. b[Len(s) + 1] = Head(p) /\ \A i \in 1..Len(s) : b[i] = a[i]
  <2>1. Len(s) + 1 \in 1..(Len(s) + 1) /\ \A i \in 1..Len(s) : i \in 1..(Len(s) + 1)
    BY <1>1
  <2>2. b[Len(s) + 1] = t[Len(s) + 1].label
    BY <1>3, <2>1
  <2>3. \A i \in 1..Len(s) : b[i] = t[i].label /\ a[i] = s[i].label
    BY <1>3, <2>1
  <2> QED BY <1>2, <2>2, <2>3
<1>5. b = Append(a, Head(p))
  BY <1>1, <1>3, <1>4
<1>6. Append(a, Head(p)) \o Tail(p) = a \o p
  <2>1. Head(p) \in Labels /\ Tail(p) \in Seq(Labels) /\ p = <<Head(p)>> \o Tail(p)
    OBVIOUS
  <2>2. Append(a, Head(p)) = a \o <<Head(p)>> /\ <<Head(p)>> \in Seq(Labels)
    BY <1>3, <2>1
  <2>3. (a \o <<Head(p)>>) \o Tail(p) = a \o (<<Head(p)>> \o Tail(p))
    BY <1>3, <2>1, <2>2, ConcatAssociative
  <2> QED
    BY <2>1, <2>2, <2>3
<1> QED
  BY <1>5, <1>6 DEF a, b, t

\* A row that finds elements has elements.
LEMMA FileFacts ==
    ASSUME TableInv
    PROVE  /\ \A label : T!Found(label) # {} => T!All(label) # {}
           /\ \A r \in T!ToSet(rows) : r \in TableRows
           /\ rows \in Seq(TableRows)
<1>1. rows \in Seq(TableRows) /\ published \subseteq Elements
  BY DEF TableInv, CellInv
<1> QED
  BY <1>1, FoundType, RowsSet

\* The table is edited.
LEMMA OtherLabels ==
    ASSUME TableInv, ~faithful', \A r \in T!ToSet(rows)' : T!All(r.label) # {},
           UNCHANGED <<pending, table, wanted>>
    PROVE  FileInv'
<1>1. /\ pending' \in Seq(Labels) /\ wanted' \in Seq(Labels) /\ table'.labels \in Seq(Labels)
      /\ table'.connected \subseteq Elements
      /\ table'.labels = T!Reverse(wanted')
      /\ \A i \in DOMAIN pending' : T!All(pending'[i]) # {}
      /\ \A i \in DOMAIN table'.labels : T!All(table'.labels[i]) # {}
  BY DEF TableInv, FileInv
<1> QED
  BY <1>1 DEF FileInv

\* Nothing happens to the labels.
LEMMA SameLabels ==
    ASSUME TableInv, UNCHANGED <<rows, pending, table, wanted, faithful>>
    PROVE  FileInv'
<1>1. T!ToSet(rows)' = T!ToSet(rows) /\ T!LabelsOf(rows)' = T!LabelsOf(rows)
  BY DEF T!ToSet, T!LabelsOf
<1>2. rows' = rows /\ pending' = pending /\ table' = table /\ wanted' = wanted
      /\ faithful' = faithful
  OBVIOUS
<1>3. /\ pending' \in Seq(Labels) /\ wanted' \in Seq(Labels) /\ table'.labels \in Seq(Labels)
      /\ table'.connected \subseteq Elements
      /\ table'.labels = T!Reverse(wanted')
      /\ \A r \in T!ToSet(rows)' : T!All(r.label) # {}
      /\ \A i \in DOMAIN pending' : T!All(pending'[i]) # {}
      /\ \A i \in DOMAIN table'.labels : T!All(table'.labels[i]) # {}
  BY <1>1, <1>2 DEF TableInv, FileInv
<1>4. faithful' => /\ T!LabelsOf(rows)' \o pending' = table'.labels
                   /\ \A r \in T!ToSet(rows)' :
                         r.cells = {n \in T!All(r.label) : <<r.label, n>> \in Shown}
  <2> SUFFICES ASSUME faithful'
               PROVE  /\ T!LabelsOf(rows)' \o pending' = table'.labels
                      /\ \A r \in T!ToSet(rows)' :
                            r.cells = {n \in T!All(r.label) : <<r.label, n>> \in Shown}
    OBVIOUS
  <2>1. faithful
    BY SMT, <1>2
  <2>2. /\ T!LabelsOf(rows) \o pending = table.labels
        /\ \A r \in T!ToSet(rows) :
              r.cells = {n \in T!All(r.label) : <<r.label, n>> \in Shown}
    BY Zenon, <2>1 DEF TableInv, FileInv
  <2>3. T!LabelsOf(rows)' \o pending' = table'.labels
    BY <1>1, <1>2, <2>2
  <2>4. \A r \in T!ToSet(rows)' :
              r.cells = {n \in T!All(r.label) : <<r.label, n>> \in Shown}
    BY <1>1, <2>2
  <2> QED
    BY Zenon, <2>3, <2>4
<1>5. T!LabelsOf(rows)' = T!LabelsOf(rows')
  BY DEF T!LabelsOf
<1> QED
  BY Zenon, <1>3, <1>4, <1>5 DEF FileInv

\* A row that is dropped or created by its timer.
LEMMA TableDropKeeps ==
    ASSUME TableInv, NEW label \in Labels, NEW i \in 1..(Len(rows) + 1), T!Drop(label, i)
    PROVE  TableInv'
<1>1. /\ T!CreateRow(label, i) /\ faithful' = FALSE
      /\ UNCHANGED <<published, pending, table, wanted, whole>>
  BY DEF T!Drop
<1>2. CASE T!Found(label) = {}
  <2>1. UNCHANGED <<rows, binding, objects, robbed>>
    BY <1>1, <1>2 DEF T!CreateRow
  <2>2. CellInv'
    BY <1>1, <2>1 DEF TableInv, CellInv, Distinct, T!NamesOf, T!ToSet
  <2>3. \A r \in T!ToSet(rows)' : T!All(r.label) # {}
    BY <2>1 DEF TableInv, FileInv, T!ToSet
  <2>4. FileInv'
    BY <1>1, <2>3, OtherLabels
  <2> QED
    BY <2>2, <2>4 DEF TableInv
<1>3. CASE T!Found(label) # {}
  <2>1. PICK new : RowCreated(new, label, i)
    BY <1>1, <1>3, RowIsCreated
  <2>2. CellInv' /\ T!ToSet(rows)' = T!ToSet(rows) \cup {new}
    BY <1>1, <2>1, CreatedCells DEF TableInv
  <2>3. new.label = label
    BY <2>1 DEF RowCreated
  <2>4. \A r \in T!ToSet(rows)' : T!All(r.label) # {}
    BY <1>3, <2>2, <2>3, FileFacts DEF TableInv, FileInv
  <2>5. FileInv'
    BY <1>1, <2>4, OtherLabels
  <2> QED
    BY <2>2, <2>5 DEF TableInv
<1> QED
  BY <1>2, <1>3

\* A timer fires.
LEMMA TableFireKeeps ==
    ASSUME TableInv, T!Fire
    PROVE  TableInv'
<1> DEFINE label == Head(pending)
<1>1. /\ pending # <<>> /\ T!CreateRow(label, Len(rows) + 1) /\ pending' = Tail(pending)
      /\ faithful' = (faithful /\ T!Found(label) = T!All(label))
      /\ UNCHANGED <<published, table, wanted, whole>>
  BY DEF T!Fire
<1>2. pending \in Seq(Labels)
  BY DEF TableInv, FileInv
<1>3. /\ label \in Labels /\ T!All(label) # {} /\ pending' \in Seq(Labels)
      /\ \A j \in DOMAIN pending' : \E k \in DOMAIN pending : pending'[j] = pending[k]
  <2>1. 1 \in DOMAIN pending /\ label = pending[1]
    BY <1>1, <1>2
  <2>2. \A k \in DOMAIN pending : T!All(pending[k]) # {}
    BY DEF TableInv, FileInv
  <2>3. T!All(label) # {}
    <3> HIDE DEF label
    <3> QED BY <2>1, <2>2
  <2>4. label \in Labels /\ pending' \in Seq(Labels)
    BY <1>1, <1>2
  <2>5. \A j \in DOMAIN pending' : j + 1 \in DOMAIN pending /\ pending'[j] = pending[j + 1]
    BY <1>1, <1>2
  <2> QED
    BY <2>3, <2>4, <2>5
<1>4. \A j \in DOMAIN pending' : T!All(pending'[j]) # {}
  <2>1. \A k \in DOMAIN pending : T!All(pending[k]) # {}
    BY DEF TableInv, FileInv
  <2> QED
    BY <1>3, <2>1
<1>5. rows \in Seq(TableRows) /\ Len(rows) + 1 \in 1..(Len(rows) + 1)
  BY DEF TableInv, CellInv
<1> HIDE DEF label
<1>6. CASE T!Found(label) = {}
  <2>1. UNCHANGED <<rows, binding, objects, robbed>> /\ ~faithful'
    BY <1>1, <1>3, <1>6 DEF T!CreateRow
  <2>2. UNCHANGED published
    BY <1>1
  <2>3. CellInv'
    BY <2>1, <2>2 DEF TableInv, CellInv, Distinct, T!NamesOf, T!ToSet
  <2>4. \A r \in T!ToSet(rows)' : T!All(r.label) # {}
    BY <2>1 DEF TableInv, FileInv, T!ToSet
  <2>5. wanted' = wanted /\ table' = table /\ pending' \in Seq(Labels)
    BY <1>1, <1>3
  <2>6. FileInv'
    <3>1. /\ wanted' \in Seq(Labels) /\ table'.labels \in Seq(Labels)
          /\ table'.connected \subseteq Elements
          /\ table'.labels = T!Reverse(wanted')
          /\ \A i \in DOMAIN table'.labels : T!All(table'.labels[i]) # {}
      BY <2>5 DEF TableInv, FileInv
    <3> QED
      BY <1>4, <2>1, <2>4, <2>5, <3>1 DEF FileInv
  <2> QED
    BY <2>3, <2>6 DEF TableInv
<1>7. CASE T!Found(label) # {}
  <2>1. PICK new : RowCreated(new, label, Len(rows) + 1)
    BY <1>1, <1>3, <1>7, RowIsCreated
  <2>2. \A i \in 1..(Len(rows) + 1) : RowCreated(new, label, i) =>
            CellInv' /\ T!ToSet(rows)' = T!ToSet(rows) \cup {new}
    BY <1>1, <1>3, CreatedCells DEF TableInv
  <2>3. CellInv' /\ T!ToSet(rows)' = T!ToSet(rows) \cup {new}
    BY <1>5, <2>1, <2>2
  <2>4. new \in TableRows /\ new.label = label /\ rows' = T!InsertAt(rows, Len(rows) + 1, new)
        /\ new.cells = {n \in T!Found(label) : <<label, n>> \in Shown}
    BY <2>1 DEF RowCreated
  <2>5. T!LabelsOf(rows') \o pending' = T!LabelsOf(rows) \o pending
    BY <1>1, <1>2, <1>5, <2>4, LabelMoves DEF label
  <2>6. faithful' => /\ T!LabelsOf(rows') \o pending' = table.labels
                     /\ \A r \in T!ToSet(rows)' :
                           r.cells = {n \in T!All(r.label) : <<r.label, n>> \in Shown}
    <3> SUFFICES ASSUME faithful'
                 PROVE  /\ T!LabelsOf(rows') \o pending' = table.labels
                        /\ \A r \in T!ToSet(rows)' :
                              r.cells = {n \in T!All(r.label) : <<r.label, n>> \in Shown}
      OBVIOUS
    <3>1. faithful /\ T!Found(label) = T!All(label)
      BY <1>1
    <3>2. /\ T!LabelsOf(rows) \o pending = table.labels
          /\ \A r \in T!ToSet(rows) :
                r.cells = {n \in T!All(r.label) : <<r.label, n>> \in Shown}
      BY <3>1 DEF TableInv, FileInv
    <3>3. new.cells = {n \in T!All(new.label) : <<new.label, n>> \in Shown}
      BY <2>4, <3>1
    <3> QED BY <2>3, <2>5, <3>2, <3>3
  <2>7. FileInv'
    <3>1. \A r \in T!ToSet(rows)' : T!All(r.label) # {}
      BY <1>3, <2>3, <2>4 DEF TableInv, FileInv
    <3>2. /\ wanted' \in Seq(Labels) /\ table'.labels \in Seq(Labels)
          /\ table'.connected \subseteq Elements
          /\ table'.labels = T!Reverse(wanted')
          /\ \A i \in DOMAIN table'.labels : T!All(table'.labels[i]) # {}
      BY <1>1 DEF TableInv, FileInv
    <3>3. table' = table /\ pending' \in Seq(Labels)
      BY <1>1, <1>3
    <3> QED BY <1>4, <2>6, <3>1, <3>2, <3>3 DEF FileInv
  <2> QED
    BY <2>3, <2>7 DEF TableInv
<1> QED
  BY <1>6, <1>7

\* Rows are removed.
LEMMA TableRemoveKeeps ==
    ASSUME TableInv, NEW gone, gone \subseteq DOMAIN rows, T!Without(gone), faithful' = FALSE,
           UNCHANGED <<published, pending, table, robbed, wanted, whole>>
    PROVE  TableInv'
<1>1. CellInv' /\ T!ToSet(rows)' \subseteq T!ToSet(rows)
  BY WithoutCells DEF TableInv
<1>2. \A r \in T!ToSet(rows)' : T!All(r.label) # {}
  BY <1>1 DEF TableInv, FileInv
<1>3. FileInv'
  BY <1>2, OtherLabels
<1> QED
  BY <1>1, <1>3 DEF TableInv

\* The table is saved.
LEMMA TableSaveKeeps ==
    ASSUME TableInv, T!SaveToXML
    PROVE  TableInv'
<1>1. /\ table' = [labels |-> T!Reverse(T!LabelsOf(rows)), connected |-> {o.element : o \in objects}]
      /\ wanted' = T!LabelsOf(rows) /\ faithful' = FALSE
      /\ UNCHANGED <<published, rows, binding, objects, pending, robbed>>
  BY DEF T!SaveToXML
<1>2. table'.labels = T!Reverse(T!LabelsOf(rows)) /\ table'.connected = {o.element : o \in objects}
  BY <1>1
<1>3. rows \in Seq(TableRows)
  BY DEF TableInv, CellInv
<1>4. /\ T!LabelsOf(rows) \in Seq(Labels) /\ Len(T!LabelsOf(rows)) = Len(rows)
      /\ DOMAIN T!LabelsOf(rows) = DOMAIN rows
      /\ \A i \in DOMAIN rows : T!LabelsOf(rows)[i] = rows[i].label
  BY <1>3, LabelsType
<1>5. \A s \in Seq(Labels) :
         /\ T!Reverse(s) \in Seq(Labels) /\ DOMAIN T!Reverse(s) = 1..Len(s)
         /\ \A i \in 1..Len(s) : \E j \in DOMAIN s : T!Reverse(s)[i] = s[j]
  BY ReverseType
<1>6. table'.labels \in Seq(Labels)
      /\ \A i \in DOMAIN table'.labels : \E j \in DOMAIN rows : table'.labels[i] = rows[j].label
  <2> DEFINE l == T!LabelsOf(rows)
             m == T!Reverse(l)
  <2>1. l \in Seq(Labels) /\ DOMAIN rows = 1..Len(l) /\ \A i \in DOMAIN l : l[i] = rows[i].label
    BY <1>3, <1>4
  <2>2. m = table'.labels
    BY <1>2
  <2> HIDE DEF l
  <2>3. /\ m \in Seq(Labels) /\ DOMAIN m = 1..Len(l)
        /\ \A i \in 1..Len(l) : \E j \in DOMAIN l : m[i] = l[j]
    BY <1>5, <2>1
  <2> HIDE DEF m
  <2>4. DOMAIN l = 1..Len(l)
    BY <2>1
  <2> QED
    BY <2>1, <2>2, <2>3, <2>4
<1>7. \A j \in DOMAIN rows : T!All(rows[j].label) # {}
  BY <1>3, RowsSet DEF TableInv, FileInv
<1>8. table'.connected \subseteq Elements
  BY <1>2 DEF TableInv, CellInv
<1>9. CellInv'
  BY <1>1 DEF TableInv, CellInv, Distinct, T!NamesOf, T!ToSet
<1>10. \A i \in DOMAIN table'.labels : T!All(table'.labels[i]) # {}
  BY <1>6, <1>7
<1>11. (\A r \in T!ToSet(rows)' : T!All(r.label) # {}) /\ pending' \in Seq(Labels)
       /\ \A i \in DOMAIN pending' : T!All(pending'[i]) # {}
  BY <1>1 DEF TableInv, FileInv, T!ToSet
<1>12. FileInv'
  BY <1>1, <1>2, <1>4, <1>6, <1>8, <1>10, <1>11 DEF FileInv, T!All
<1> QED
  BY <1>9, <1>12 DEF TableInv

\* A table without rows has no labels.
LEMMA NoLabels == T!LabelsOf(<<>>) = <<>> /\ \A s \in Seq(Labels) : T!LabelsOf(<<>>) \o s = s
BY DEF T!LabelsOf

\* A table without rows.
LEMMA EmptyTable ==
    /\ <<>> \in Seq(TableRows) /\ Distinct(<<>>) /\ T!ToSet(<<>>) = {}
    /\ [n \in T!CellNames |-> None] \in [T!CellNames -> Elements \cup {None}]
BY DEF Distinct, T!ToSet

\* The experiment is loaded.
LEMMA TableLoadKeeps ==
    ASSUME TableInv, T!LoadFromXML
    PROVE  TableInv'
<1>1. /\ rows' = <<>> /\ objects' = {} /\ robbed' = {}
      /\ binding' = [n \in T!CellNames |-> None]
      /\ published' = table.connected /\ pending' = table.labels
      /\ UNCHANGED <<table, wanted, whole>>
  BY DEF T!LoadFromXML
<1>2. T!ToSet(rows)' = {}
  BY <1>1, EmptyTable
<1>3. CellInv'
  BY <1>1, <1>2, EmptyTable DEF CellInv, TableInv, FileInv
<1>4. FileInv'
  <2>1. /\ pending' \in Seq(Labels) /\ wanted' \in Seq(Labels) /\ table'.labels \in Seq(Labels)
        /\ table'.connected \subseteq Elements
        /\ table'.labels = T!Reverse(wanted') /\ pending' = table'.labels
        /\ \A i \in DOMAIN table'.labels : T!All(table'.labels[i]) # {}
    BY <1>1 DEF TableInv, FileInv
  <2>2. T!LabelsOf(rows') \o pending' = table'.labels
    BY <1>1, <2>1, NoLabels
  <2> QED
    BY <1>2, <2>1, <2>2 DEF FileInv
<1> QED
  BY <1>3, <1>4 DEF TableInv

\* The invariant holds at the start,
LEMMA TableInit == T!Init => TableInv
<1> SUFFICES ASSUME T!Init PROVE TableInv
  OBVIOUS
<1>1. /\ rows = <<>> /\ objects = {} /\ published = {} /\ binding = [n \in T!CellNames |-> None]
      /\ pending = <<>> /\ wanted = <<>> /\ faithful = FALSE
      /\ table.labels = <<>> /\ table.connected = {}
  BY DEF T!Init
<1>2. CellInv
  BY <1>1, EmptyTable DEF CellInv
<1>3. T!Reverse(<<>>) = <<>>
  BY DEF T!Reverse
<1>4. FileInv
  BY <1>1, <1>3, EmptyTable DEF FileInv
<1> QED
  BY <1>2, <1>4 DEF TableInv

\* and every step keeps it.
LEMMA TableNext == TableInv /\ [T!Next]_(T!tableVars) => TableInv'
<1> SUFFICES ASSUME TableInv, [T!Next]_(T!tableVars) PROVE TableInv'
  OBVIOUS
<1>1. ASSUME NEW e \in Elements, T!Publish(e) PROVE TableInv'
  <2>1. CellInv'
    BY <1>1 DEF T!Publish, TableInv, CellInv, Distinct, T!NamesOf, T!ToSet
  <2>2. FileInv'
    BY <1>1, SameLabels DEF T!Publish
  <2> QED
    BY <2>1, <2>2 DEF TableInv
<1>2. ASSUME NEW label \in Labels, NEW i \in 1..Len(rows) + 1, T!Drop(label, i) PROVE TableInv'
  BY <1>2, TableDropKeeps
<1>3. ASSUME NEW gone \in SUBSET DOMAIN rows, T!RemoveSelectedRows(gone) PROVE TableInv'
  BY <1>3, TableRemoveKeeps DEF T!RemoveSelectedRows
<1>4. CASE T!RemoveConnection
  BY <1>4, TableRemoveKeeps DEF T!RemoveConnection
<1>5. CASE UNCHANGED T!tableVars
  <2>1. CellInv'
    BY <1>5 DEF T!tableVars, TableInv, CellInv, Distinct, T!NamesOf, T!ToSet
  <2>2. FileInv'
    BY <1>5, SameLabels DEF T!tableVars
  <2> QED
    BY <2>1, <2>2 DEF TableInv
<1> QED
  BY <1>1, <1>2, <1>3, <1>4, <1>5, TableFireKeeps, TableSaveKeeps, TableLoadKeeps DEF T!Next

\* What the invariant says of the properties.
LEMMA TableImplies ==
    ASSUME TableInv PROVE T!TypeOK /\ T!CellsAreUpdated /\ T!RowsComeBack
<1>1. rows \in Seq(TableRows) /\ Distinct(rows) /\ \A i \in DOMAIN rows : rows[i] \in TableRows
  BY DEF TableInv, CellInv
<1>2. T!TypeOK
  <2>1. \A i \in DOMAIN rows : /\ rows[i].label \in Labels /\ rows[i].number \in T!Serials
                               /\ rows[i].cells \subseteq T!Columns
    BY <1>1 DEF TableRows
  <2> QED
    BY <1>1, <2>1 DEF T!TypeOK, TableInv, CellInv, FileInv, Distinct
<1>3. \A i \in DOMAIN rows : rows[i] \in T!ToSet(rows)
  BY <1>1, RowsSet
<1>4. T!CellsAreUpdated
  <2>1. T!CellsExist
    <3> SUFFICES ASSUME NEW o \in objects
                 PROVE  \E i \in DOMAIN rows : /\ rows[i].serial = o.serial
                                               /\ o.name \in T!NamesOf(rows[i])
                                               /\ o.element = <<rows[i].label, o.name[2]>>
      BY DEF T!CellsExist
    <3>1. PICK r \in T!ToSet(rows) : /\ r.serial = o.serial /\ o.name \in T!NamesOf(r)
                                   /\ o.element = <<r.label, o.name[2]>>
      BY DEF TableInv, CellInv
    <3> QED
      BY <1>1, <3>1, RowsSet
  <2> QED
    BY <1>3, <2>1 DEF T!CellsAreUpdated, TableInv, CellInv
<1>5. T!RowsComeBack
  <2> SUFFICES ASSUME faithful, pending = <<>>
               PROVE  /\ T!LabelsOf(rows) = T!Reverse(wanted)
                      /\ \A i \in DOMAIN rows :
                            rows[i].cells = {n \in T!All(rows[i].label) : <<rows[i].label, n>> \in Shown}
    BY DEF T!RowsComeBack
  <2>1. T!LabelsOf(rows) \in Seq(Labels)
    BY <1>1, LabelsType
  <2>2. T!LabelsOf(rows) \o pending = T!LabelsOf(rows)
    BY <2>1
  <2> QED
    BY <1>3, <2>2 DEF TableInv, FileInv
<1> QED
  BY <1>2, <1>4, <1>5


\* Cursors are active together; only There depends on more.
CursorsInv == /\ at \in [C!Cursors -> Int]
        /\ active \in {{}, C!Cursors}
        /\ range \in [lower : Int, upper : Int]
        /\ dragged \in C!Cursors \cup {None}
        /\ synced \in BOOLEAN
        /\ C!There

\* Where cursors may be.
CursorPositions == [C!Cursors -> Int]

\* What a step does to synchronised cursors, and a reload to any; the part of
\* CursorsKeep that is about steps.
CursorsStepKeeps ==
    /\ (synced /\ synced' /\ ~\E s \in Spacings : C!EnterFrequency(s))
           => at'["B"] - at'["A"] = at["B"] - at["A"]
    /\ (synced' /\ at' # at) => C!OnAxis(at', range')
    /\ C!Reload => (at' = at /\ active' = active)

-----------------------------------------------------------------------------
(* Cursors: which of them are active.                                      *)

\* Cursors that are made active are both, in their places between the marks.
LEMMA MadeActiveType ==
    ASSUME CursorsInv, NEW m, NEW cursors, cursors.at \in CursorPositions,
           cursors.active \in {{}, C!Cursors}
    PROVE  /\ C!MadeActive(cursors, m, range).at \in CursorPositions
           /\ C!MadeActive(cursors, m, range).active = C!Cursors
           /\ cursors.active = C!Cursors => C!MadeActive(cursors, m, range) = cursors
<1>1. cursors.active = C!Cursors => "A" \in cursors.active /\ "B" \in cursors.active
  BY DEF C!Cursors
<1>2. C!Both(C!Third(1, range), C!Third(2, range)) \in CursorPositions
  BY DEF CursorsInv, C!Both, C!Third, CursorPositions
<1>3. CASE cursors.active = C!Cursors
  BY <1>1, <1>3 DEF C!MadeActive
<1>4. CASE cursors.active = {}
  BY <1>2, <1>4 DEF C!MadeActive, C!Cursors
<1> QED
  BY <1>3, <1>4

-----------------------------------------------------------------------------
(* Cursors: where they are.                                                *)

\* Cursors that move together keep their distance and their order, and are on
\* the axis afterwards, wherever they were.
LEMMA MovedTogether ==
    ASSUME CursorsInv, active = C!Cursors, NEW a \in CursorPositions, NEW c \in C!Cursors,
           NEW to \in Int,
           NEW moved, moved = C!Moved(a, c, to, TRUE)
    PROVE  /\ moved.at \in CursorPositions /\ moved.range \in [lower : Int, upper : Int]
           /\ moved.at["B"] - moved.at["A"] = a["B"] - a["A"]
           /\ C!OnAxis(moved.at, moved.range)
<1> DEFINE p == moved.at
           r == moved.range
           spacing == a["B"] - a["A"]
           b == [a EXCEPT ![c] = to, ![C!Other(c)] = @ + to - a[c]]
           low == C!Least(b["A"], b["B"])
           high == low + C!Abs(spacing)
           center == (low + high) \div 2
           reach == (11 * C!Abs(spacing)) \div 20 + 1
           up == IF low < range.lower THEN range.lower - low ELSE 0
           down == IF high > range.upper THEN high - range.upper ELSE 0
<1>1. /\ range.lower \in Int /\ range.upper \in Int /\ a["A"] \in Int /\ a["B"] \in Int
      /\ c = "A" \/ c = "B"
  BY DEF CursorsInv, CursorPositions, C!Cursors
<1>2. /\ b \in CursorPositions /\ b["A"] \in Int /\ b["B"] \in Int
      /\ b["B"] - b["A"] = spacing /\ spacing \in Int
  BY <1>1 DEF C!Other, CursorPositions, C!Cursors
<1>3. /\ C!Abs(spacing) \in Int /\ C!Abs(spacing) >= 0
      /\ low \in Int /\ high \in Int /\ high = low + C!Abs(spacing)
      /\ low <= b["A"] /\ low <= b["B"] /\ b["A"] <= high /\ b["B"] <= high
  <2> HIDE DEF b
  <2> QED
    BY <1>2 DEF C!Least, C!Abs
<1>4. CASE C!Abs(spacing) >= range.upper - range.lower
  <2>1. p = b /\ r = [lower |-> center - reach, upper |-> center + reach]
    BY <1>4 DEF C!Moved
  <2> HIDE DEF b, low, high, p, r
  <2>2. /\ center \in Int /\ reach \in Int
        /\ center - reach <= low /\ high <= center + reach
    <3>1. \A n \in Int : n >= 0 => (11 * n) \div 20 + 1 \in Int /\ n <= 2 * ((11 * n) \div 20) + 1
      OBVIOUS
    <3>2. /\ (11 * C!Abs(spacing)) \div 20 + 1 \in Int
          /\ C!Abs(spacing) <= 2 * ((11 * C!Abs(spacing)) \div 20) + 1
      BY <1>3, <3>1
    <3> HIDE DEF spacing
    <3> QED
      BY <1>3, <3>2
  <2> HIDE DEF center, reach, spacing
  <2>3. r.lower = center - reach /\ r.upper = center + reach /\ r \in [lower : Int, upper : Int]
    BY <2>1, <2>2
  <2>4. C!OnAxis(p, r)
    BY <1>2, <1>3, <2>1, <2>2, <2>3 DEF C!OnAxis, C!Cursors
  <2> QED
    BY <1>2, <2>1, <2>3, <2>4 DEF spacing, p, r
<1>5. CASE ~(C!Abs(spacing) >= range.upper - range.lower)
  <2>1. p = [k \in C!Cursors |-> b[k] + up - down] /\ r = range
    BY <1>5 DEF C!Moved
  <2> HIDE DEF b, low, high, p, r
  <2>2. /\ up \in Int /\ down \in Int
        /\ range.lower <= low + up - down /\ high + up - down <= range.upper
    <3> HIDE DEF spacing
    <3> QED
      BY <1>1, <1>3, <1>5
  <2> HIDE DEF up, down, spacing
  <2>3. p["A"] = b["A"] + up - down /\ p["B"] = b["B"] + up - down
    BY <2>1 DEF C!Cursors
  <2>4. p \in CursorPositions
    BY <1>2, <2>1, <2>2 DEF CursorPositions
  <2>5. C!OnAxis(p, r)
    BY <1>1, <1>2, <1>3, <2>1, <2>2, <2>3 DEF C!OnAxis, C!Cursors
  <2>6. p["B"] - p["A"] = spacing
    BY <1>2, <2>2, <2>3
  <2> QED
    BY <2>1, <2>4, <2>5, <2>6 DEF CursorsInv, spacing, p, r
<1> QED
  BY <1>4, <1>5

\* Cursors of which one moves alone stay on the line of integers.
LEMMA MovedAlone ==
    ASSUME CursorsInv, NEW a \in CursorPositions, NEW c \in C!Cursors, NEW to \in Int,
           NEW moved, moved = C!Moved(a, c, to, FALSE)
    PROVE  moved.at \in CursorPositions /\ moved.range \in [lower : Int, upper : Int]
<1>1. moved.at = [a EXCEPT ![c] = to] /\ moved.range = range
  BY DEF C!Moved
<1>2. [a EXCEPT ![c] = to] \in CursorPositions
  BY DEF CursorPositions
<1> QED
  BY <1>1, <1>2 DEF CursorsInv

\* A move by the mouse, together with the other cursor or alone.
LEMMA CursorsMoveKeeps ==
    ASSUME CursorsInv, NEW c \in C!Cursors, NEW to \in Int, C!Move(at, c, to, synced),
           UNCHANGED <<active, visible, synced, mode>>
    PROVE  /\ at' \in CursorPositions /\ range' \in [lower : Int, upper : Int] /\ C!There'
           /\ synced => at'["B"] - at'["A"] = at["B"] - at["A"] /\ C!OnAxis(at', range')
<1>0. at \in CursorPositions
  BY DEF CursorsInv, CursorPositions
<1>1. C!There'
  BY DEF CursorsInv, C!There
<1>2. CASE synced
  <2>1. synced = TRUE /\ active = C!Cursors
    BY <1>2 DEF CursorsInv, C!There
  <2>2. at' = C!Moved(at, c, to, TRUE).at /\ range' = C!Moved(at, c, to, TRUE).range
    BY <2>1 DEF C!Move
  <2> QED
    BY <1>0, <1>1, <2>1, <2>2, MovedTogether
<1>3. CASE ~synced
  <2>1. synced = FALSE
    BY <1>3 DEF CursorsInv
  <2>2. at' = C!Moved(at, c, to, FALSE).at /\ range' = C!Moved(at, c, to, FALSE).range
    BY <2>1 DEF C!Move
  <2> QED
    BY <1>0, <1>1, <1>3, <2>2, MovedAlone
<1> QED
  BY <1>2, <1>3

-----------------------------------------------------------------------------
(* Cursors: the steps.                                                     *)

USE DEF C!CursorsAssumption

\* A press or a drag.
LEMMA CursorsMouseKeeps ==
    ASSUME C!CursorsAssumption, CursorsInv, NEW to \in Extent, C!Press(to) \/ C!Drag(to)
    PROVE  CursorsInv'
           /\ (synced => at'["B"] - at'["A"] = at["B"] - at["A"] /\ C!OnAxis(at', range'))
           /\ synced' = synced
<1>1. to \in Int
  OBVIOUS
<1>2. PICK c \in C!Cursors : C!Move(at, c, to, synced) /\ dragged' \in C!Cursors
  <2>1. CASE C!Press(to)
    <3> DEFINE c == IF C!Abs(to - at["A"]) <= C!Abs(to - at["B"]) THEN "A" ELSE "B"
    <3>1. C!Move(at, c, to, synced) /\ dragged' = c
      BY <2>1 DEF C!Press
    <3>2. c \in C!Cursors
      BY DEF C!Cursors
    <3> QED
      BY <3>1, <3>2
  <2>2. CASE C!Drag(to)
    BY <2>2 DEF C!Drag, CursorsInv
  <2> QED
    BY <2>1, <2>2
<1>3. UNCHANGED <<active, visible, synced, mode>>
  BY DEF C!Press, C!Drag
<1>4. /\ at' \in CursorPositions /\ range' \in [lower : Int, upper : Int] /\ C!There'
      /\ synced => at'["B"] - at'["A"] = at["B"] - at["A"] /\ C!OnAxis(at', range')
  BY <1>1, <1>2, <1>3, CursorsMoveKeeps
<1> QED
  BY <1>2, <1>3, <1>4 DEF CursorsInv, CursorPositions

\* The user enters a distance.
LEMMA CursorsSpaceKeeps ==
    ASSUME C!CursorsAssumption, CursorsInv, NEW s \in Spacings, C!Space(s)
    PROVE  CursorsInv' /\ C!OnAxis(at', range')
<1> DEFINE center == (at["A"] + at["B"]) \div 2
           half == IF at["B"] >= at["A"] THEN s \div 2 ELSE -(s \div 2)
           a == C!Both(center - half, center + half)
<1>1. /\ active = C!Cursors /\ synced' = TRUE
      /\ at' = C!Moved(a, "A", center - half, TRUE).at
      /\ range' = C!Moved(a, "A", center - half, TRUE).range
      /\ UNCHANGED <<active, visible, mode, dragged>>
  BY DEF C!Space, C!Move
<1>2. s \in Nat /\ at["A"] \in Int /\ at["B"] \in Int
  BY DEF CursorsInv, C!Cursors
<1>3. center \in Int /\ half \in Int
  BY <1>2
<1>4. a \in CursorPositions /\ center - half \in Int /\ "A" \in C!Cursors
  BY <1>3 DEF C!Both, CursorPositions, C!Cursors
<1> HIDE DEF center, half, a
<1>5. /\ at' \in CursorPositions /\ range' \in [lower : Int, upper : Int]
      /\ C!OnAxis(at', range')
  BY <1>1, <1>4, MovedTogether
<1> QED
  BY <1>1, <1>5 DEF CursorsInv, C!There, CursorPositions

\* Cursors are placed when they become visible or two are to be moved.
LEMMA CursorsPlaceKeeps ==
    ASSUME CursorsInv, NEW m, NEW cursors, cursors.at \in CursorPositions,
           cursors.active \in {{}, C!Cursors},
           NEW now \in BOOLEAN,
           C!Place(IF now THEN C!MadeActive(cursors, m, range) ELSE cursors)
    PROVE  /\ at' \in CursorPositions /\ active' \in {{}, C!Cursors}
           /\ now => active' = C!Cursors
           /\ cursors.active = C!Cursors => at' = cursors.at /\ active' = C!Cursors
           /\ ~now => active' = cursors.active /\ at' = cursors.at
  BY MadeActiveType DEF C!Place

\* The tool and the cursors' visibility are chosen.
LEMMA CursorsChoiceKeeps ==
    ASSUME C!CursorsAssumption, CursorsInv,
           \/ \E m \in C!Modes : C!SetToolMode(m)
           \/ \E v \in BOOLEAN : C!ToggleCursors(v)
    PROVE  CursorsInv' /\ synced' = synced /\ (synced => at' = at)
<1>0. /\ C!Here.at \in CursorPositions /\ C!Here.active \in {{}, C!Cursors}
      /\ C!Here.at = at /\ C!Here.active = active
  BY DEF CursorsInv, C!Here, CursorPositions
<1>1. ASSUME NEW m \in C!Modes, C!SetToolMode(m)
      PROVE  CursorsInv' /\ synced' = synced /\ (synced => at' = at)
  <2> DEFINE now == visible /\ m = "DoubleCursor" /\ "B" \notin active
  <2>1. /\ C!Place(IF now THEN C!MadeActive(C!Here, m, range) ELSE C!Here)
        /\ mode' = m /\ dragged' = None /\ UNCHANGED <<range, visible, synced>>
    BY <1>1 DEF C!SetToolMode
  <2>2. /\ at' \in CursorPositions /\ active' \in {{}, C!Cursors}
        /\ now => active' = C!Cursors
        /\ active = C!Cursors => at' = at /\ active' = C!Cursors
        /\ ~now => active' = active /\ at' = at
    BY <1>0, <2>1, CursorsPlaceKeeps, now \in BOOLEAN
  <2>3. C!There'
    BY <2>1, <2>2 DEF C!There, CursorsInv, C!Cursors
  <2> QED
    BY <2>1, <2>2, <2>3 DEF CursorsInv, C!There, CursorPositions
<1>2. ASSUME NEW v \in BOOLEAN, C!ToggleCursors(v)
      PROVE  CursorsInv' /\ synced' = synced /\ (synced => at' = at)
  <2>1. /\ C!Place(IF v THEN C!MadeActive(C!Here, mode, range) ELSE C!Here) /\ visible' = v
        /\ UNCHANGED <<range, synced, mode, dragged>>
    BY <1>2 DEF C!ToggleCursors
  <2>2. /\ at' \in CursorPositions /\ active' \in {{}, C!Cursors}
        /\ v => active' = C!Cursors
        /\ active = C!Cursors => at' = at /\ active' = C!Cursors
    BY <1>0, <2>1, CursorsPlaceKeeps
  <2>3. C!There'
    BY <2>1, <2>2 DEF C!There, CursorsInv, C!Cursors
  <2> QED
    BY <2>1, <2>2, <2>3 DEF CursorsInv, C!There, CursorPositions
<1> QED
  BY <1>1, <1>2

\* A plot that is saved and loaded has its cursors, and none are synchronised.
LEMMA CursorsReloadKeeps ==
    ASSUME CursorsInv, C!Reload
    PROVE  CursorsInv' /\ at' = at /\ active' = active /\ synced' = FALSE
<1>1. /\ C!Loaded.at = at /\ C!Loaded.active = active /\ at \in CursorPositions
  BY DEF CursorsInv, C!Loaded, C!Cursors, CursorPositions
<1>2. /\ C!Place(IF visible THEN C!MadeActive(C!Loaded, mode, range) ELSE C!Loaded)
      /\ synced' = FALSE /\ dragged' = None /\ UNCHANGED <<range, visible, mode>>
  BY DEF C!Reload
<1>3. at' = at /\ active' = active
  <2>1. CASE visible
    <3>1. active = C!Cursors
      BY <2>1 DEF CursorsInv, C!There
    <3>2. C!MadeActive(C!Loaded, mode, range) = C!Loaded
      BY <1>1, <3>1, MadeActiveType DEF CursorsInv
    <3> QED
      BY <1>1, <1>2, <2>1, <3>2 DEF C!Place
  <2>2. CASE ~visible
    BY <1>1, <1>2, <2>2 DEF C!Place
  <2> QED
    BY <2>1, <2>2
<1> QED
  BY <1>2, <1>3 DEF CursorsInv, C!There

\* The rest leaves the cursors where they are.
LEMMA CursorsRestKeeps ==
    ASSUME C!CursorsAssumption, CursorsInv,
           \/ C!ClearScopeCursors \/ C!Release \/ C!DisableSync \/ UNCHANGED C!cursorVars
           \/ \E r \in Ranges : C!Zoom(r) \/ C!ToggleTimeFreq(r)
    PROVE  CursorsInv' /\ at' = at /\ (synced' => synced)
<1>1. UNCHANGED <<at, active>> /\ range' \in Ranges \cup {range} /\ dragged' \in {None, dragged}
  BY DEF C!ClearScopeCursors, C!Release, C!DisableSync, C!cursorVars, C!Zoom, C!ToggleTimeFreq
<1>2. synced' \in {FALSE, synced} /\ mode' = mode
  BY DEF C!ClearScopeCursors, C!Release, C!DisableSync, C!cursorVars, C!Zoom, C!ToggleTimeFreq
<1>3. range' \in [lower : Int, upper : Int]
  BY <1>1 DEF CursorsInv
<1>4. synced' \in BOOLEAN /\ dragged' \in C!Cursors \cup {None}
  BY <1>1, <1>2 DEF CursorsInv
<1>5. /\ visible' => visible
      /\ synced' => synced
  <2>1. CASE C!ClearScopeCursors \/ C!DisableSync
    BY <2>1 DEF C!ClearScopeCursors, C!DisableSync
  <2>2. CASE \/ C!Release \/ UNCHANGED C!cursorVars
             \/ \E r \in Ranges : C!Zoom(r) \/ C!ToggleTimeFreq(r)
    BY <2>2 DEF C!Release, C!cursorVars, C!Zoom, C!ToggleTimeFreq
  <2> QED
    BY <2>1, <2>2
<1>6. C!There'
  BY <1>1, <1>2, <1>5 DEF CursorsInv, C!There
<1> QED
  BY <1>1, <1>3, <1>4, <1>5, <1>6 DEF CursorsInv

\* Every step keeps the invariant, and the distance.
LEMMA CursorsSteps ==
    ASSUME C!CursorsAssumption, CursorsInv, [C!Next]_(C!cursorVars)
    PROVE  CursorsInv' /\ CursorsStepKeeps
<1>1. ASSUME NEW to \in Extent, C!Press(to) \/ C!Drag(to)
      PROVE  CursorsInv' /\ (synced' => synced)
             /\ (synced => at'["B"] - at'["A"] = at["B"] - at["A"])
             /\ (synced => C!OnAxis(at', range'))
  BY <1>1, CursorsMouseKeeps
<1>2. ASSUME NEW s \in Spacings, C!EnableSync(s) \/ C!EnterFrequency(s)
      PROVE  CursorsInv' /\ C!OnAxis(at', range') /\ (synced => C!EnterFrequency(s))
  BY <1>2, CursorsSpaceKeeps DEF C!EnableSync, C!EnterFrequency
<1>3. C!Reload => CursorsInv' /\ at' = at /\ active' = active /\ synced' = FALSE
  BY CursorsReloadKeeps
<1>4. CASE \E to \in Extent : C!Press(to) \/ C!Drag(to)
  BY <1>1, <1>3, <1>4 DEF CursorsStepKeeps
<1>5. CASE \E s \in Spacings : C!EnableSync(s) \/ C!EnterFrequency(s)
  BY <1>2, <1>3, <1>5 DEF CursorsStepKeeps
<1>6. CASE \/ \E m \in C!Modes : C!SetToolMode(m)
           \/ \E v \in BOOLEAN : C!ToggleCursors(v)
  BY <1>3, <1>6, CursorsChoiceKeeps DEF CursorsStepKeeps
<1>7. CASE \/ C!ClearScopeCursors \/ C!Release \/ C!DisableSync \/ UNCHANGED C!cursorVars
           \/ \E r \in Ranges : C!Zoom(r) \/ C!ToggleTimeFreq(r)
  BY <1>3, <1>7, CursorsRestKeeps DEF CursorsStepKeeps
<1>8. CASE C!Reload
  BY <1>3, <1>8 DEF CursorsStepKeeps
<1> QED
  BY <1>4, <1>5, <1>6, <1>7, <1>8 DEF C!Next

\* Synchronised cursors keep their distance and end on the axis, cursors that
\* are seen are there to be moved, and a saved plot brings them back.
THEOREM CursorsAreKept ==
    ASSUME C!CursorsAssumption
    PROVE  C!Spec => C!CursorsKeep
<1>1. C!Init => CursorsInv
  <2> SUFFICES ASSUME C!Init PROVE CursorsInv
    OBVIOUS
  <2>1. at \in [C!Cursors -> Int] /\ range \in [lower : Int, upper : Int]
    BY DEF C!Init, C!Both
  <2>2. /\ active = {} /\ visible = FALSE /\ synced = FALSE /\ dragged = None
    BY DEF C!Init
  <2> QED
    BY <2>1, <2>2 DEF CursorsInv, C!There
<1>2. CursorsInv /\ [C!Next]_(C!cursorVars) => CursorsInv' /\ CursorsStepKeeps
  BY CursorsSteps
<1>3. CursorsInv => C!There
  BY DEF CursorsInv
<1> QED
  BY <1>1, <1>2, <1>3, PTL DEF C!Spec, C!CursorsKeep, CursorsStepKeeps

-----------------------------------------------------------------------------
(* All parts.                                                              *)

\* A behaviour of the instances is one of every component: of the part that
\* moves, and of those that stay.
LEMMA EveryPart ==
    MCSpec => Spec /\ N!Spec /\ S!Spec /\ L!Spec /\ T!Spec /\ C!Spec
<1>1. MCInit => Init /\ N!Init /\ S!Init /\ L!Init /\ T!Init /\ C!Init
  BY DEF MCInit
<1>2. ASSUME [MCNext]_mcVars PROVE [Next]_valueVars
  BY <1>2 DEF MCNext, mcVars
<1>3. ASSUME [MCNext]_mcVars PROVE [N!Next]_(N!numberVars)
  BY <1>3 DEF MCNext, mcVars, numberVars, N!numberVars
<1>4. ASSUME [MCNext]_mcVars PROVE [S!Next]_(S!comboVars)
  BY <1>4 DEF MCNext, mcVars, choiceVars, comboVars, S!comboVars
<1>5. ASSUME [MCNext]_mcVars PROVE [L!Next]_(L!listVars)
  BY <1>5 DEF MCNext, mcVars, choiceVars, listVars, L!listVars
<1>6. ASSUME [MCNext]_mcVars PROVE [T!Next]_(T!tableVars)
  BY <1>6 DEF MCNext, mcVars, tableVars, T!tableVars
<1>7. ASSUME [MCNext]_mcVars PROVE [C!Next]_(C!cursorVars)
  BY <1>7 DEF MCNext, mcVars, cursorVars, C!cursorVars
<1> QED
  BY <1>1, <1>2, <1>3, <1>4, <1>5, <1>6, <1>7, PTL
     DEF MCSpec, Spec, N!Spec, S!Spec, L!Spec, T!Spec, C!Spec

\* The inductive invariants of the components.
LEMMA EveryInvariant ==
    MCSpec => []NumberInv /\ []ComboInv /\ []ListInv /\ []TableInv
BY EveryPart, NumberInit, NumberNext, ComboInit, ComboNext, ListInit, ListNext,
   TableInit, TableNext, PTL DEF N!Spec, S!Spec, L!Spec, T!Spec

\* The types of numbers, combo boxes, list views and table cells.
THEOREM TypesAreRight == MCSpec => []TypeOK
<1>1. NumberInv /\ ComboInv /\ ListInv /\ TableInv => TypeOK
  BY ComboImplies, ListImplies, TableImplies DEF TypeOK, NumberInv
<1> QED
  BY <1>1, EveryInvariant, PTL

\* Every bound widget shows its container: boxes and fields, sliders, spin
\* boxes and displays, list views, and combo boxes.
THEOREM ContainersAreShown == MCSpec => []ShowsContainer
<1>1. NumberInv /\ ComboInv /\ ListInv /\ ShownIsContainer => ShowsContainer
  BY ComboImplies, ListImplies DEF ShowsContainer, NumberInv
<1> QED
  BY <1>1, EveryPart, EveryInvariant, ShownIsContainerInvariant, PTL

\* A number goes the way of the hand, and a list is only edited.
THEOREM HandsAreFollowed == MCSpec => EditsFollowHand
<1>1. NumberInv /\ [N!Next]_(N!numberVars) => [N!FollowsHand]_(N!numberVars)
  BY NumberFollows
<1>2. ListInv /\ [L!Next]_(L!listVars) => [L!OnlyEdits]_(L!listVars)
  BY ListEdits
<1> QED
  BY <1>1, <1>2, EveryPart, EveryInvariant, PTL
     DEF N!Spec, L!Spec, EditsFollowHand, N!EditsFollowHand, L!EditsOnlyEdit

\* What is selected is among the items of the combo box.
THEOREM SelectionsAreOffered == MCSpec => []SelectedIsOffered
<1>1. ComboInv => SelectedIsOffered
  BY ComboImplies DEF SelectedIsOffered
<1> QED
  BY <1>1, EveryInvariant, PTL

\* A cell that is called back exists, and every cell whose row kept its
\* number for itself is called back.
THEOREM CellsAreCalledBack == MCSpec => []CellsAreUpdated
<1>1. TableInv => CellsAreUpdated
  BY TableImplies DEF CellsAreUpdated
<1> QED
  BY <1>1, EveryInvariant, PTL

\* A table that is saved and loaded is the same, bottom up.
THEOREM TablesComeBack == MCSpec => []RowsComeBack
<1>1. TableInv => RowsComeBack
  BY TableImplies DEF RowsComeBack
<1> QED
  BY <1>1, EveryInvariant, PTL

\* Cursors that are synchronised keep their distance, in every plot.
THEOREM CursorsKeepDistance == MCSpec => CursorsKeep
<1>1. C!Spec => C!CursorsKeep
  BY Assumptions, CursorsAreKept
<1> QED
  BY <1>1, EveryPart DEF CursorsKeep
=============================================================================
