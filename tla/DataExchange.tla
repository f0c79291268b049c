---------------------------- MODULE DataExchange ----------------------------
(***************************************************************************)
(* The values of parameters on their way out of the program and back       *)
(* (InterfaceDataType.cpp): as text, in parameter files, in line edits and *)
(* in the explorer's dialog; as a double, from the remote control.         *)
(*                                                                         *)
(* The widths of the integers are scaled down; text is a number or a word. *)
(***************************************************************************)
EXTENDS Integers, Sequences, SequencesExt, FiniteSets

CONSTANTS
    Ids,        \* parameters, in the order in which they are selected
    Width,      \* integer type |-> its bits: int8_t < int32_t < int64_t, ...
    Signed,     \* the signed ones
    Int32,      \* the type of QString::toInt
    UInt32,     \* the type of QString::toUInt
    Int64,      \* those of toLongLong and toULongLong
    UInt64,
    Mantissa,   \* integers up to this are exact in a double; 2^53
    Items,      \* the texts in lists and selections
    MaxList,    \* bound: the items of a list
    Trim        \* text with blanks around it |-> without

IntTypes == DOMAIN Width
Types == IntTypes \cup {"bool", "double", "QString", "QStringList", "GuiSelection", "DataPair", "blank"}

\* A number and its fraction: none, one that six digits show, a finer one.
Num(n, f) == [num |-> TRUE, n |-> n, f |-> f]
Word(w) == [num |-> FALSE, w |-> w]
Integral(t) == t.num /\ t.f = 0

RangeOf(t) == IF t \in Signed THEN -(2 ^ (Width[t] - 1))..2 ^ (Width[t] - 1) - 1
              ELSE 0..2 ^ Width[t] - 1
Texts == {Num(n, 0) : n \in RangeOf(Int64) \cup RangeOf(UInt64)} \cup {Num(0, 1)}
         \cup {Word(w) : w \in Items}
Doubles == {Num(n, f) : n \in {-1, 0, Mantissa}, f \in 0..2}

ExchangeAssumption ==
    /\ {Int32, Int64} \subseteq Signed /\ Signed \subseteq IntTypes
    /\ {UInt32, UInt64} \subseteq IntTypes \ Signed
    /\ Width[Int32] < Width[Int64] /\ Width[UInt32] < Width[UInt64]

VARIABLES
    store,      \* parameter |-> [type, v]: what its device has, which answers a
                \* set with the value it was sent
    file,       \* the parameter file: entries [id, text], and whether it ends
                \* as it should
    thrown,     \* an exception nobody catches ended the program
    \* history
    saved,      \* the values when the parameter file was written
    asked       \* the parameters that were selected for it

exchangeVars == <<store, file, thrown, saved, asked>>

IdSet == ToSet(Ids)
Val(t, v) == [type |-> t, v |-> v]

\* What a device may send for a parameter of a type.
Domain(t) ==
    CASE t \in IntTypes -> RangeOf(t)
      [] t = "bool" -> BOOLEAN
      [] t = "double" -> Doubles
      [] t = "QString" -> {Word(w) : w \in Items} \cup {Num(1, 0)}
      [] t = "QStringList" -> {<<>>} \cup {<<Word(w)>> : w \in Items}
      [] t = "GuiSelection" -> {[first |-> Word(w), list |-> {Word(x) : x \in Items}] : w \in Items}
      [] OTHER -> {"none"}

\* The first parameter is of any type, the others are switches.
Init == /\ \E t \in Types : \E v \in Domain(t) :
              store = [id \in IdSet |-> IF id = Ids[1] THEN Val(t, v) ELSE Val("bool", FALSE)]
        /\ file = [entries |-> <<>>, ends |-> FALSE]
        /\ thrown = FALSE
        /\ saved = store /\ asked = {}

-----------------------------------------------------------------------------
(* Conversions.                                                            *)

\* static_cast between integers.
Wrap(t, n) == LET k == n % 2 ^ Width[t]
              IN  IF k \in RangeOf(t) THEN k ELSE k - 2 ^ Width[t]

\* QString::toInt, toUInt, toLongLong: 0 for what is not in the range.
Parsed(t, text) == IF Integral(text) /\ text.n \in RangeOf(t) THEN text.n ELSE 0


\* Unsigned integers are parsed with toInt, too.
MutFromText(x, text) ==
    CASE x.type \in IntTypes -> Wrap(x.type, Parsed(Int32, text))
      [] x.type = "bool" -> Parsed(Int32, text) # 0
      [] x.type = "double" -> IF text.num THEN text ELSE Num(0, 0)
      [] x.type = "QString" -> text
      [] x.type = "QStringList" -> Append(x.v, text)
      [] x.type = "GuiSelection" -> [x.v EXCEPT !.first = text]

\* SetDataKeepType(QString), for the types that it knows
FromText(x, text) ==
    CASE x.type \in Signed -> Wrap(x.type, Parsed(Int32, text))
      [] x.type \in IntTypes \ Signed -> Wrap(x.type, Parsed(UInt32, text))
      [] x.type = "bool" -> Parsed(Int32, text) # 0
      [] x.type = "double" -> IF text.num THEN text ELSE Num(0, 0)
      [] x.type = "QString" -> text
      [] x.type = "QStringList" -> Append(x.v, text)
      [] x.type = "GuiSelection" -> [x.v EXCEPT !.first = text]
Throws(x) == x.type \in {"DataPair", "blank"}
Set(x, text) == [x EXCEPT !.v = FromText(x, text)]

Empty == Word("")
GetString(x) ==
    CASE x.type \in IntTypes -> Num(x.v, 0)
      [] x.type = "bool" -> Num(IF x.v THEN 1 ELSE 0, 0)
      [] x.type = "double" -> Num(x.v.n, IF x.v.f = 1 THEN 1 ELSE 0)
      [] x.type = "QString" -> x.v
      [] x.type = "QStringList" -> IF x.v = <<>> THEN Empty ELSE x.v[1]
      [] x.type = "GuiSelection" -> x.v.first
      [] OTHER -> Empty

\* An integer as a double: every other one above the mantissa.
ToDouble(n) == IF n \in -Mantissa..Mantissa THEN n ELSE n - (n % 2)

\* SetDataKeepType(double): what a double out of the range of an integer type
\* becomes is undefined.
FromDouble(x, d) ==
    CASE x.type \in IntTypes -> IF d.n \in RangeOf(x.type) THEN {d.n} ELSE RangeOf(x.type)
      [] x.type = "bool" -> {d # Num(0, 0)}
      [] x.type = "double" -> {d}

-----------------------------------------------------------------------------
(* One parameter.                                                          *)

Bounded(x) == x.type = "QStringList" => Len(x.v) <= MaxList
Becomes(id, x) == /\ ~thrown
                  /\ store' = [store EXCEPT ![id] = x]
                  /\ UNCHANGED <<file, thrown, saved, asked>>

DeviceSets(id) == \E v \in Domain(store[id].type) : Becomes(id, [store[id] EXCEPT !.v = v])

\* GetVariantData of a line edit on a parameter that it accepts
Enter(id, text) == /\ store[id].type \in IntTypes \cup {"double", "QString"}
                   /\ Becomes(id, Set(store[id], text))

\* HeaderReceived: a number, or a text; a selection must be offered, else what
\* the parameter has is sent again.
RemoteSets(id) ==
    LET x == store[id]
    IN  \/ /\ x.type \in IntTypes \cup {"bool", "double"}
           /\ \E d \in Doubles : \E v \in FromDouble(x, d) : Becomes(id, [x EXCEPT !.v = v])
        \/ \E text \in {Word(w) : w \in Items} :
              \/ x.type = "QString" /\ Becomes(id, Set(x, text))
              \/ x.type = "QStringList" /\ Becomes(id, [x EXCEPT !.v = <<text>>])
              \/ x.type = "GuiSelection" /\ text \in x.v.list /\ Becomes(id, Set(x, text))

\* The dialog of the explorer is filled in with GetFloatingPointData.
Proposed(x) == IF x.type = "double" THEN x.v ELSE Num(0, 0)
\* The value that is set, if the text is valid; 8 and 16 bits are reached by
\* way of 32.
MutEdited(x, text) ==
    IF x.type \in IntTypes THEN [x EXCEPT !.v = Wrap(x.type, Wrap(UInt32, text.n))]
    ELSE [x EXCEPT !.v = text]
Edited(x, text) ==
    IF x.type \in {Int64, UInt64} THEN [x EXCEPT !.v = text.n]
    ELSE IF x.type \in Signed THEN [x EXCEPT !.v = Wrap(x.type, Wrap(Int32, text.n))]
    ELSE IF x.type \in IntTypes THEN [x EXCEPT !.v = Wrap(x.type, Wrap(UInt32, text.n))]
    ELSE [x EXCEPT !.v = text]
Valid(x, text) ==
    CASE x.type \in Signed -> Integral(text) /\ text.n \in RangeOf(Int64)
      [] x.type \in IntTypes \ Signed -> Integral(text) /\ text.n \in RangeOf(UInt64)
      [] x.type = "double" -> text.num
      [] OTHER -> FALSE

EditParameterValue(id, text) ==
    LET x == store[id]
    IN  \/ Valid(x, text) /\ Becomes(id, Edited(x, text))
        \/ x.type = "bool" /\ \E b \in BOOLEAN : Becomes(id, [x EXCEPT !.v = b])

-----------------------------------------------------------------------------
(* The parameter file.                                                     *)

Trimmed(text) == IF ~text.num /\ text.w \in DOMAIN Trim THEN Word(Trim[text.w]) ELSE text

\* What is left of a text at the end of a file: the first digits, or nothing.
Cut(text) == {Empty} \cup IF text.num /\ text.n > 1 THEN {Num(text.n \div 2, 0)} ELSE {}

\* Export2XML of the selected parameters.  The writes are not checked: if the
\* disk is full, the file ends somewhere, in the middle of an entry perhaps,
\* and the export has succeeded.
Export2XML(S) ==
    LET chosen == SelectSeq(Ids, LAMBDA id : id \in S)
        entry(i) == [id |-> chosen[i], text |-> GetString(store[chosen[i]])]
        entries == [i \in DOMAIN chosen |-> entry(i)]
    IN  /\ ~thrown
        /\ S # {}
        /\ \E k \in 0..Len(entries) :
              \/ file' = [entries |-> SubSeq(entries, 1, k), ends |-> k = Len(entries)]
              \/ /\ k < Len(entries)
                 /\ \E text \in Cut(entry(k + 1).text) :
                       file' = [entries |-> Append(SubSeq(entries, 1, k), [entry(k + 1) EXCEPT !.text = text]),
                                ends |-> FALSE]
        /\ saved' = store
        /\ asked' = S
        /\ UNCHANGED <<store, thrown>>

\* ParameterLoader::Load sets one entry after the other, up to where the file
\* ends or one throws.
Load ==
    /\ ~thrown /\ asked # {}
    /\ LET bad == {i \in DOMAIN file.entries : Throws(store[file.entries[i].id])}
           done == {i \in DOMAIN file.entries : \A j \in bad : i < j}
           text(id) == file.entries[CHOOSE i \in done : file.entries[i].id = id].text
       IN  /\ thrown' = (bad # {})
           /\ store' = [id \in IdSet |->
                IF \E i \in done : file.entries[i].id = id
                THEN Set(store[id], Trimmed(text(id))) ELSE store[id]]
    /\ \A id \in IdSet : Bounded(store'[id])
    /\ UNCHANGED <<file, saved, asked>>

Next == \/ \E id \in IdSet : DeviceSets(id) \/ RemoteSets(id)
        \/ \E id \in IdSet, text \in Texts : Enter(id, text) \/ EditParameterValue(id, text)
        \/ \E S \in SUBSET IdSet : Export2XML(S)
        \/ Load

Spec == Init /\ [][Next]_exchangeVars

-----------------------------------------------------------------------------
(* Properties.                                                             *)

\* What text says of a value: not a 64-bit integer that int or unsigned int
\* does not hold, not the finer part of a fraction, and not a list.
Told(x) == CASE x.type \in Signed -> x.v \in RangeOf(Int32)
             [] x.type \in IntTypes \ Signed -> x.v \in RangeOf(UInt32)
             [] x.type = "double" -> x.v.f < 2
             [] x.type = "QString" -> Trimmed(x.v) = x.v
             [] x.type = "GuiSelection" -> Trimmed(x.v.first) = x.v.first
             [] x.type = "bool" -> TRUE
             [] OTHER -> FALSE

\* A parameter keeps its type, whatever sets it, and its value is one of it.
TypeOK ==
    /\ \A id \in IdSet : LET x == store[id] IN
          /\ x.type = saved[id].type
          /\ x.type \in IntTypes => x.v \in RangeOf(x.type)
          /\ x.type = "bool" => x.v \in BOOLEAN
    /\ asked \subseteq IdSet

\* A file that is whole brings back every value that text tells; of a selection,
\* the item; unless a vector, which the file holds as an empty text, or a
\* parameter without a value comes before.
Restored ==
    \A i \in DOMAIN Ids : LET id == Ids[i] IN
        /\ id \in asked /\ Told(saved[id])
        /\ ~\E j \in 1..i : Ids[j] \in asked /\ Throws(saved[Ids[j]])
        => IF store[id].type = "GuiSelection" THEN store'[id].v.first = saved[id].v.first
           ELSE store'[id] = saved[id]

\* Any file sets the parameters before some place, the one at that place
\* perhaps to something else, and no others: a file that ends too early, or
\* throws, does not get further.
Prefix ==
    \E k \in 0..Len(Ids) : \A i \in DOMAIN Ids : LET id == Ids[i] IN
        IF i <= k /\ id \in asked
        THEN /\ ~Throws(saved[id])
             /\ Told(saved[id]) => GetString(store'[id]) = GetString(saved[id])
        ELSE store'[id] = store[id] \/ (i = k + 1 /\ ~file.ends /\ ~Throws(saved[id]))

\* Loading a parameter file brings back what was saved, as far as the file goes.
FileRestores == [][Load => Prefix /\ (file.ends => Restored)]_exchangeVars

\* To confirm what a line edit, or the explorer's dialog, shows is no change of
\* a value that text tells; but the dialog shows 0 for every integer.
Confirmed ==
    \A id \in IdSet : LET x == store[id] IN
        /\ x.type \in IntTypes \cup {"double", "QString"} /\ (Told(x) \/ x.type = "QString")
           => Set(x, GetString(x)) = x
        /\ x.type = "double" => Edited(x, Proposed(x)) = x

\* Nothing that the editors, the explorer and the remote control set or show
\* changes on its way, as far as text tells it: the number that the remote
\* control sets and gets is the same, if the type has it, and the explorer's
\* edit sets the number that was entered.
EditsArrive ==
    /\ Confirmed
    /\ \A id \in IdSet : LET x == store[id] IN x.type \in IntTypes =>
          /\ \A d \in Doubles : d.n \in RangeOf(x.type) =>
                \A n \in FromDouble(x, d) : ToDouble(n) = d.n
          /\ \A n \in RangeOf(x.type) : Edited(x, Num(n, 0)).v = n
=============================================================================
