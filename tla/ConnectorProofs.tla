--------------------------- MODULE ConnectorProofs ---------------------------
(***************************************************************************)
(* What Get.m returns is current, a wildcard Get without an error is       *)
(* whole, and answers come after the sets made before: proved for all ids, *)
(* values, patterns and numbers of connections and calls.                  *)
(*                                                                         *)
(* On the connection of the port a call that waits is in one of three      *)
(* states: its request is the last thing the server has not read, or its   *)
(* reply, or what an abort left of it, is all that is under way, or the    *)
(* header of the reply is read and the rest is under way.  A call that     *)
(* does not wait finds nothing under way to it.  The replies to earlier    *)
(* calls are on connections that are closed, which the port never has      *)
(* again.                                                                  *)
(***************************************************************************)
EXTENDS Connector, Induction, SequenceTheorems

IdSet == ToSet(Ids)
Found == Values \cup {None}
Requests == [command : {"get"}, text : Texts, value : {None}, number : Nat]
            \cup [command : {"set"}, text : IdSet, value : Values, number : Nat]
Replies == [value : Found, list : Seq(IdSet)]
ReplyParts == [part : {"header", "payload"}, reply : Replies]

StoreType == DOMAIN store \subseteq IdSet /\ \A id \in DOMAIN store : store[id] \in Values

ServerType ==
    /\ StoreType
    /\ opened \in 0..MaxConnections /\ accepted \in 0..opened
    /\ current \in {None} \cup ((1..accepted) \ ended)
    /\ hungUp \subseteq 1..opened /\ ended \subseteq 1..accepted
    /\ up \in [Connections -> Seq(Requests)]
    /\ down \in [Connections -> Seq(ReplyParts)]
    /\ seen \in [IdSet -> SUBSET Found]

ClientType ==
    /\ port \in {None, opened} /\ port \notin hungUp
    /\ port # None => port \in 1..opened
    /\ waiting \in {None, "header", "payload"}
    /\ waiting # None => Running /\ port # None
    /\ calls \in Nat
    /\ get.status \in {"running", "done", "error"}
    /\ get = [text |-> get.text, list |-> get.list, results |-> get.results,
              status |-> get.status]

\* Connections that are not open yet carry nothing.
Unused == \A k \in Connections : k > opened => up[k] = <<>> /\ down[k] = <<>>

\* seen has noted what is in the containers.
Noted == Running => \A id \in IdSet : Value(id) \in seen[id]

\* The reply d is one that text may have had while Get.m ran.
Fresh(d, text) ==
    /\ d \in Replies
    /\ IF text \in Patterns
       THEN /\ d.value = None
            /\ \A id \in Matching[text] : None \in seen[id] \/ id \in ToSet(d.list)
       ELSE /\ d.value = None \/ d.value \in seen[text]
            /\ d.value = None => None \in seen[text]

\* Result d belongs to id.
Belongs(d, id) == /\ d \in Replies
                  /\ d.value # None => id \notin Patterns /\ d.value \in seen[id]
                  /\ d.value = None => id \in Patterns \/ None \in seen[id]

\* What a wildcard Get has gathered so far.
Gathered(list, results) ==
    /\ list \in Seq(IdSet) /\ results \in Seq(Replies) /\ Len(results) < Len(list)
    /\ \A i \in DOMAIN results : Belongs(results[i], list[i])
    /\ \A id \in Matching[get.text] : None \in seen[id] \/ id \in ToSet(list)

Gathering ==
    Running => /\ get.text \in Texts
               /\ \/ get.list = None /\ get.results = <<>>
                  \/ get.text \in Patterns /\ Gathered(get.list, get.results)

NoGet(q) == \A i \in DOMAIN q : q[i].command = "set"

\* The request is the last that is under way, and nothing comes back yet.
Asking == /\ down[port] = <<>> /\ up[port] # <<>>
          /\ LET r == up[port][Len(up[port])]
             IN  r.command = "get" /\ r.text = Asked
          /\ \A i \in DOMAIN up[port] : i < Len(up[port]) => up[port][i].command = "set"

\* The request is handled: the connection was aborted, or the reply d is under
\* way, of which the client has read nothing or the header.
Begun(q, d) == Fresh(d, Asked) /\ q = Parts(d)

Going(q, d) == Fresh(d, Asked) /\ q = <<[part |-> "payload", reply |-> d]>>

Handled == up[port] = <<>> /\ due = {}

Call == port # None =>
           /\ waiting = None => down[port] = <<>> /\ NoGet(up[port])
           /\ waiting = "header" =>
                \/ Asking
                \/ Handled /\ (down[port] = <<>> \/ Begun(down[port], Head(down[port]).reply))
           /\ waiting = "payload" =>
                Handled /\ (down[port] = <<>> \/ Going(down[port], Head(down[port]).reply))

\* The requests q hold each of sets.
Hold(q, sets) == \A n \in sets : \E i \in DOMAIN q : q[i].command = "set" /\ q[i].number = n

\* The sets that the server has not are on their way to it.
Due == /\ port = None => due = {}
       /\ port # None => Hold(up[port], due)

\* What the last Get returned.
Returned == ~ Running => AnswersAreCurrent /\ WildcardIsWhole

IInv == ServerType /\ ClientType /\ Unused /\ Noted /\ Gathering /\ Call /\ Due /\ Returned

-----------------------------------------------------------------------------
(* Replies.                                                                *)

\* A list holds ids only, and every published one that matches.
LEMMA ListedFinds ==
    ASSUME ConnectorAssumption, NEW text \in Texts
    PROVE  /\ Listed(text) \in Seq(IdSet)
           /\ \A id \in Matching[text] : id \in DOMAIN store => id \in ToSet(Listed(text))
<1> DEFINE S == Seq(IdSet)
           N == Len(Ids)
           Taken(id) == id \in DOMAIN store /\ id \in Matching[text]
           Turn(list, id) == IF Taken(id) THEN Append(list, id) ELSE list
           step == [x \in (1..N) \X S |-> Turn(x[2], Ids[x[1]])]
           Recursion(f) == f = [s \in SUBSET (1..N) |->
                                  IF s = {} THEN <<>>
                                  ELSE Turn(f[s \ {Max(s)}], Ids[Max(s)])]
           F == CHOOSE f : Recursion(f)
<1>1. /\ N \in Nat /\ DOMAIN Ids = 1..N /\ <<>> \in S
      /\ \A i \in 1..N : Ids[i] \in IdSet
  BY DEF ConnectorAssumption, IdSet
<1>2. \A x \in S, i \in 1..N : Turn(x, Ids[i]) \in S
  BY <1>1
<1>3. step \in Turns(N, S)
  <2> HIDE DEF Turn, S
  <2> QED BY <1>2 DEF Turns
<1>4. \A s \in SUBSET (1..N) : s # {} => Max(s) \in 1..N
  BY <1>1, MaxIn
<1>5. Listed(text) = F[1..N]
  BY <1>1 DEF Listed, FoldLeft, MapThenFoldSet
<1>6. \A x \in S, i \in 1..N : step[<<i, x>>] = Turn(x, Ids[i])
  <2> HIDE DEF Turn, S
  <2> QED OBVIOUS
<1>7. \A x \in S, i \in 1..N :
         LET y == Turn(x, Ids[i])
         IN  ToSet(x) \subseteq ToSet(y) /\ (Taken(Ids[i]) => Ids[i] \in ToSet(y))
  <2> SUFFICES ASSUME NEW x \in S, NEW i \in 1..N
               PROVE  LET y == Turn(x, Ids[i])
                      IN  ToSet(x) \subseteq ToSet(y) /\ (Taken(Ids[i]) => Ids[i] \in ToSet(y))
    OBVIOUS
  <2>1. /\ \A j \in 1..Len(x) : Append(x, Ids[i])[j] = x[j]
        /\ Append(x, Ids[i])[Len(x) + 1] = Ids[i]
        /\ DOMAIN x = 1..Len(x) /\ Len(x) \in Nat
        /\ DOMAIN Append(x, Ids[i]) = 1..(Len(x) + 1)
    BY <1>1
  <2>2. ToSet(x) \subseteq ToSet(Append(x, Ids[i])) /\ Ids[i] \in ToSet(Append(x, Ids[i]))
    BY <2>1 DEF ToSet
  <2> QED BY <2>2
<1> HIDE DEF Turn, S, step, N, Recursion, F, Taken
<1>8. Recursion(F)
  <2>1. PICK g : IsFold(g, S, N, <<>>, step)
    BY <1>1, <1>3, FoldExists
  <2>2. Recursion(g)
    BY <1>4, <1>6, <2>1 DEF Recursion, IsFold
  <2> QED BY <2>2 DEF F
<1>9. Follows(F, S, N, <<>>, step)
  BY <1>4, <1>6, <1>8 DEF Recursion, Follows
<1>10. PICK h : ArePrefixes(h, S, N, <<>>, step) /\ F[1..N] = h[N]
  BY <1>1, <1>3, <1>9, FoldPrefixes
<1> DEFINE T == {n \in 0..N : \A j \in 1..n : Taken(Ids[j]) => Ids[j] \in ToSet(h[n])}
<1>11. 0..N \subseteq T
  <2>1. 0 \in T
    BY <1>1
  <2>2. ASSUME NEW n \in 0..N, n < N, n \in T PROVE n + 1 \in T
    <3>1. n + 1 \in 1..N /\ n + 1 \in 0..N /\ (n + 1) - 1 = n
      BY <1>1, <2>2
    <3>2. h[n] \in S /\ h[n + 1] = Turn(h[n], Ids[n + 1])
      BY <1>6, <1>10, <3>1 DEF ArePrefixes
    <3>3. /\ ToSet(h[n]) \subseteq ToSet(h[n + 1])
          /\ Taken(Ids[n + 1]) => Ids[n + 1] \in ToSet(h[n + 1])
      BY <1>7, <3>1, <3>2
    <3>4. \A j \in 1..(n + 1) : j \in 1..n \/ j = n + 1
      OBVIOUS
    <3> QED BY <2>2, <3>1, <3>3, <3>4
  <2> HIDE DEF T
  <2> QED BY <1>1, <2>1, <2>2, BoundedInduction
<1>12. N \in 0..N
  BY <1>1
<1>13. Listed(text) \in S
  BY <1>5, <1>10, <1>12 DEF ArePrefixes
<1>14. ASSUME NEW id \in Matching[text], id \in DOMAIN store
       PROVE  id \in ToSet(Listed(text))
  <2>1. PICK j \in 1..N : Ids[j] = id
    BY <1>1 DEF ConnectorAssumption, ToSet
  <2>2. Taken(id)
    BY <1>14 DEF Taken
  <2> QED BY <1>5, <1>10, <1>11, <1>12, <2>1, <2>2
<1> QED BY <1>13, <1>14 DEF S

LEMMA ReplyType ==
    ASSUME ConnectorAssumption, StoreType, NEW text \in Texts
    PROVE  Reply(text) \in Replies
<1>1. Listed(text) \in Seq(IdSet) /\ <<>> \in Seq(IdSet)
  BY ListedFinds
<1>2. text \in DOMAIN store => store[text] \in Found
  BY DEF StoreType, Found
<1> QED BY <1>1, <1>2 DEF Reply, Replies, Found

\* The reply of the server is one that its text has at that moment.
LEMMA ReplyIsFresh ==
    ASSUME ConnectorAssumption, StoreType, Noted, Running, NEW text \in Texts
    PROVE  Fresh(Reply(text), text)
<1>1. Listed(text) \in Seq(IdSet) /\ <<>> \in Seq(IdSet)
  BY ListedFinds
<1>2. \A id \in IdSet : Value(id) \in seen[id]
  BY DEF Noted
<1>3. CASE text \in DOMAIN store \ Patterns
  <2>1. text \in IdSet /\ store[text] \in Values /\ store[text] \in seen[text]
    BY <1>2, <1>3 DEF StoreType, Value
  <2> QED BY <1>1, <1>3, <2>1 DEF Fresh, Reply, Replies, Found, ConnectorAssumption
<1>4. CASE text \in Patterns
  <2>1. Reply(text) = [value |-> None, list |-> Listed(text)]
    BY <1>4 DEF Reply
  <2>2. Reply(text) \in Replies /\ Reply(text).value = None /\ Reply(text).list = Listed(text)
    BY <1>1, <2>1 DEF Replies, Found
  <2>3. \A id \in Matching[text] : None \in seen[id] \/ id \in ToSet(Listed(text))
    <3> SUFFICES ASSUME NEW id \in Matching[text], id \notin DOMAIN store
                 PROVE  None \in seen[id]
      BY ListedFinds
    <3>1. id \in IdSet
      BY DEF ConnectorAssumption, IdSet
    <3> QED BY <1>2, <3>1 DEF Value
  <2> QED BY <1>4, <2>2, <2>3 DEF Fresh
<1>5. CASE text \notin DOMAIN store /\ text \notin Patterns
  <2>1. text \in IdSet /\ None \in seen[text]
    BY <1>2, <1>5 DEF Texts, IdSet, Value
  <2>2. Reply(text) = [value |-> None, list |-> Listed(text)]
    BY <1>5 DEF Reply
  <2>3. Reply(text) \in Replies /\ Reply(text).value = None
    BY <1>1, <2>2 DEF Replies, Found
  <2> QED BY <1>5, <2>1, <2>3 DEF Fresh
<1> QED BY <1>3, <1>4, <1>5

\* The parts in which a reply is read.
LEMMA PartsOf ==
    ASSUME NEW d \in Replies
    PROVE  /\ Parts(d) \in Seq(ReplyParts) /\ Parts(d) # <<>> /\ Head(Parts(d)).reply = d
           /\ d = Empty => Tail(Parts(d)) = <<>>
           /\ d # Empty => Tail(Parts(d)) = <<[part |-> "payload", reply |-> d]>>
<1> DEFINE H == [part |-> "header", reply |-> d]
           P == [part |-> "payload", reply |-> d]
<1>1. H \in ReplyParts /\ P \in ReplyParts
  BY DEF ReplyParts
<1>2. Parts(d) = IF d = Empty THEN <<H>> ELSE <<H, P>>
  BY DEF Parts
<1>3. H.reply = d
  OBVIOUS
<1> HIDE DEF H
<1>4. <<H>> \in Seq(ReplyParts) /\ <<H, P>> \in Seq(ReplyParts)
  <2> HIDE DEF P
  <2> QED BY <1>1
<1>5. Tail(<<H>>) = <<>> /\ Tail(<<H, P>>) = <<P>> /\ Head(<<H>>) = H /\ Head(<<H, P>>) = H
  <2> HIDE DEF P
  <2> QED OBVIOUS
<1> QED BY <1>2, <1>3, <1>4, <1>5

-----------------------------------------------------------------------------
(* Steps of the server.                                                    *)

\* What is seen while Get.m runs only grows.
Grows == /\ \A id \in IdSet : seen[id] \subseteq seen'[id]
         /\ ~ Running => seen' = seen

ClientIsIdle == UNCHANGED <<opened, hungUp, port, waiting, get, calls>>

\* Nothing changes on the connection of the port.
PortIsIdle == port # None => up'[port] = up[port] /\ down'[port] = down[port]

LEMMA FreshStays ==
    ASSUME ConnectorAssumption, Grows, NEW text \in Texts, NEW d, Fresh(d, text)
    PROVE  Fresh(d, text)'
<1>1. CASE text \in Patterns
  <2>1. \A id \in Matching[text] : seen[id] \subseteq seen'[id]
    BY DEF ConnectorAssumption, Grows, IdSet
  <2> QED BY <1>1, <2>1 DEF Fresh
<1>2. CASE text \notin Patterns
  <2>1. seen[text] \subseteq seen'[text]
    BY <1>2 DEF Texts, Grows, IdSet
  <2> QED BY <1>2, <2>1 DEF Fresh
<1> QED BY <1>1, <1>2

\* A running Get asks for a text.
LEMMA AskedIsText ==
    ASSUME ConnectorAssumption, Running, Gathering
    PROVE  Asked \in Texts
<1>1. CASE get.list = None
  BY <1>1 DEF Asked, Gathering
<1>2. CASE get.list # None
  <2>1. /\ get.list \in Seq(IdSet) /\ get.results \in Seq(Replies)
        /\ Len(get.results) < Len(get.list)
    BY <1>2 DEF Gathering, Gathered
  <2>2. Len(get.results) + 1 \in 1..Len(get.list)
    <3>1. Len(get.results) \in Nat /\ Len(get.list) \in Nat
      BY <2>1
    <3> QED BY <2>1, <3>1
  <2>3. get.list[Len(get.results) + 1] \in IdSet
    BY <2>1, <2>2
  <2> QED BY <1>2, <2>3 DEF Asked, Texts, IdSet
<1> QED BY <1>1, <1>2

\* Get.m loses nothing while the containers change.
LEMMA ResultsStay ==
    ASSUME ConnectorAssumption, IInv, Grows, get' = get
    PROVE  Gathering' /\ Returned'
<1>1. CASE Running
  <2>1. Gathering'
    <3>1. CASE get.list = None /\ get.results = <<>>
      BY <1>1, <3>1 DEF IInv, Gathering
    <3>2. CASE get.text \in Patterns /\ Gathered(get.list, get.results)
      <4>1. /\ get.list \in Seq(IdSet) /\ get.results \in Seq(Replies)
            /\ Len(get.results) < Len(get.list)
        BY <3>2 DEF Gathered
      <4>2. \A i \in DOMAIN get.results : get.list[i] \in IdSet
        <5>1. DOMAIN get.results = 1..Len(get.results) /\ DOMAIN get.list = 1..Len(get.list)
              /\ Len(get.results) \in Nat /\ Len(get.list) \in Nat
          BY <4>1
        <5> QED BY <4>1, <5>1
      <4>3. \A i \in DOMAIN get.results : Belongs(get.results[i], get.list[i])'
        BY <3>2, <4>2 DEF Gathered, Belongs, Grows
      <4>4. \A id \in Matching[get.text] :
               (None \in seen'[id]) \/ id \in ToSet(get.list)
        <5>1. \A id \in Matching[get.text] : id \in IdSet
          BY <3>2 DEF ConnectorAssumption, Texts, IdSet
        <5> QED BY <3>2, <5>1 DEF Gathered, Grows
      <4>5. Gathered(get.list, get.results)'
        BY <4>1, <4>3, <4>4 DEF Gathered
      <4> QED BY <1>1, <3>2, <4>5 DEF IInv, Gathering
    <3> QED BY <1>1, <3>1, <3>2 DEF IInv, Gathering
  <2> QED BY <1>1, <2>1 DEF Returned, Running
<1>2. CASE ~ Running
  <2>1. seen' = seen
    BY <1>2 DEF Grows
  <2> QED BY <1>2, <2>1 DEF IInv, Gathering, Returned, Running, AnswersAreCurrent, WildcardIsWhole
<1> QED BY <1>1, <1>2

\* What is under way to and from the client is the same.
LEMMA CallStays ==
    ASSUME ConnectorAssumption, IInv, Grows, PortIsIdle, UNCHANGED <<port, waiting, get>>,
           due' \subseteq due
    PROVE  Call' /\ Due'
<1>1. Due'
  BY DEF IInv, Due, PortIsIdle, Hold
<1>2. waiting # None => Asked \in Texts
  BY AskedIsText DEF IInv, ClientType
<1>3. Asked' = Asked
  BY DEF Asked
<1> SUFFICES ASSUME port # None PROVE Call'
  BY <1>1 DEF Call
<1>4. up'[port] = up[port] /\ down'[port] = down[port]
  BY DEF PortIsIdle
<1>5. Handled => Handled'
  BY <1>4 DEF Handled
<1>6. \A text \in Texts : \A x : Fresh(x, text) =>
        /\ x \in Replies
        /\ IF text \in Patterns
           THEN /\ x.value = None
                /\ \A id \in Matching[text] : None \in seen'[id] \/ id \in ToSet(x.list)
           ELSE /\ x.value = None \/ x.value \in seen'[text]
                /\ x.value = None => None \in seen'[text]
  <2> SUFFICES ASSUME NEW text \in Texts, NEW x, Fresh(x, text)
               PROVE  Fresh(x, text)'
    BY DEF Fresh
  <2> QED BY FreshStays
<1>7. ASSUME waiting = "header"
      PROVE  (\/ Asking
              \/ Handled /\ (down[port] = <<>> \/ Begun(down[port], Head(down[port]).reply)))'
  <2>1. CASE Asking
    BY <1>3, <1>4, <2>1 DEF Asking
  <2>2. CASE Handled /\ down[port] = <<>>
    BY <1>4, <1>5, <2>2
  <2>3. CASE Handled /\ Begun(down[port], Head(down[port]).reply)
    <3> DEFINE q == down[port]
               d == Head(down[port]).reply
    <3>1. Fresh(d, Asked) /\ q = Parts(d)
      BY <2>3 DEF Begun
    <3>2. d' = d /\ q' = q
      BY <1>4
    <3>3. waiting # None
      BY <1>7 DEF ConnectorAssumption
    <3> HIDE DEF d, q
    <3>4. Fresh(d, Asked)'
      BY <1>2, <1>3, <1>6, <3>1, <3>2, <3>3 DEF Fresh
    <3> QED BY <1>5, <2>3, <3>1, <3>2, <3>4 DEF Begun, d, q
  <2> QED BY <1>7, <2>1, <2>2, <2>3 DEF IInv, Call
<1>8. ASSUME waiting = "payload"
      PROVE  (Handled /\ (down[port] = <<>> \/ Going(down[port], Head(down[port]).reply)))'
  <2>1. CASE Handled /\ down[port] = <<>>
    BY <1>4, <1>5, <2>1
  <2>2. CASE Handled /\ Going(down[port], Head(down[port]).reply)
    <3> DEFINE q == down[port]
               d == Head(down[port]).reply
    <3>1. Fresh(d, Asked) /\ q = <<[part |-> "payload", reply |-> d]>>
      BY <2>2 DEF Going
    <3>2. d' = d /\ q' = q
      BY <1>4
    <3>3. waiting # None
      BY <1>8 DEF ConnectorAssumption
    <3> HIDE DEF d, q
    <3>4. Fresh(d, Asked)'
      BY <1>2, <1>3, <1>6, <3>1, <3>2, <3>3 DEF Fresh
    <3> QED BY <1>5, <2>2, <3>1, <3>2, <3>4 DEF Going, d, q
  <2> QED BY <1>8, <2>1, <2>2 DEF IInv, Call
<1>9. waiting = None => down'[port] = <<>> /\ NoGet(up'[port])
  BY <1>4 DEF IInv, Call
<1> HIDE DEF Handled, Asking, Begun, Going
<1> QED BY <1>7, <1>8, <1>9 DEF Call

\* A step of the server leaves what the client has alone.
LEMMA ClientStays ==
    ASSUME ConnectorAssumption, IInv, ClientIsIdle, Grows
    PROVE  ClientType' /\ Gathering' /\ Returned'
<1>1. ClientType'
  BY DEF IInv, ClientType, ClientIsIdle, Running
<1>2. Gathering' /\ Returned'
  BY ResultsStay DEF ClientIsIdle
<1> QED BY <1>1, <1>2

\* A step of the server that leaves the connection of the port alone.
LEMMA ServerKeeps ==
    ASSUME ConnectorAssumption, IInv, ClientIsIdle, Grows, PortIsIdle, due' \subseteq due
    PROVE  ClientType' /\ Gathering' /\ Returned' /\ Call' /\ Due'
<1>1. Call' /\ Due'
  BY CallStays DEF ClientIsIdle
<1> QED BY <1>1, ClientStays

\* The containers become new.
LEMMA ChangesNote ==
    ASSUME ConnectorAssumption, IInv, NEW new, get' = get,
           DOMAIN new \subseteq IdSet, \A id \in DOMAIN new : new[id] \in Values,
           Changes(new)
    PROVE  StoreType' /\ seen' \in [IdSet -> SUBSET Found] /\ Noted' /\ Grows
<1> DEFINE now(id) == IF id \in DOMAIN new THEN new[id] ELSE None
<1>1. store' = new /\ StoreType'
  BY DEF Changes, StoreType
<1>2. seen \in [IdSet -> SUBSET Found]
  BY DEF IInv, ServerType
<1>3. \A id \in IdSet : now(id) \in Found /\ Value(id)' = now(id)
  BY <1>1 DEF Found, Value
<1>4. CASE Running
  <2>1. seen' = [id \in IdSet |-> seen[id] \cup {now(id)}]
    BY <1>2, <1>4 DEF Changes
  <2>2. seen' \in [IdSet -> SUBSET Found]
    <3> HIDE DEF now
    <3> QED BY <1>2, <1>3, <2>1
  <2> HIDE DEF now
  <2>3. \A id \in IdSet : seen[id] \subseteq seen'[id] /\ now(id) \in seen'[id]
    BY <2>1
  <2> QED BY <1>1, <1>3, <1>4, <2>2, <2>3 DEF Noted, Grows
<1>5. CASE ~ Running
  BY <1>1, <1>2, <1>5 DEF Changes, Noted, Running, Grows
<1> QED BY <1>4, <1>5

LEMMA PublishKeeps ==
    ASSUME ConnectorAssumption, IInv, NEW id \in ToSet(Ids), NEW v \in Values, Publish(id, v)
    PROVE  IInv'
<1> DEFINE new == With(id, v)
<1>1. DOMAIN new \subseteq IdSet /\ \A i \in DOMAIN new : new[i] \in Values
  BY DEF IInv, ServerType, StoreType, IdSet, With
<1>2. /\ Changes(new) /\ ClientIsIdle
      /\ UNCHANGED <<accepted, current, ended, up, down, due>>
  BY DEF Publish, matlab, ClientIsIdle
<1> HIDE DEF new
<1>3. StoreType' /\ seen' \in [IdSet -> SUBSET Found] /\ Noted' /\ Grows
  BY <1>1, <1>2, ChangesNote DEF ClientIsIdle
<1>4. ClientType' /\ Gathering' /\ Returned' /\ Call' /\ Due'
  BY <1>2, <1>3, ServerKeeps DEF PortIsIdle
<1>5. ServerType' /\ Unused'
  BY <1>2, <1>3 DEF IInv, ServerType, Unused, ClientIsIdle
<1> QED BY <1>3, <1>4, <1>5 DEF IInv

LEMMA CloseProjectKeeps ==
    ASSUME ConnectorAssumption, IInv, CloseProject
    PROVE  IInv'
<1>1. DOMAIN <<>> \subseteq IdSet /\ \A i \in DOMAIN <<>> : <<>>[i] \in Values
  OBVIOUS
<1>2. /\ Changes(<<>>) /\ ClientIsIdle
      /\ UNCHANGED <<accepted, current, ended, up, down, due>>
  BY DEF CloseProject, matlab, ClientIsIdle
<1>3. StoreType' /\ seen' \in [IdSet -> SUBSET Found] /\ Noted' /\ Grows
  BY <1>1, <1>2, ChangesNote DEF ClientIsIdle
<1>4. ClientType' /\ Gathering' /\ Returned' /\ Call' /\ Due'
  BY <1>2, <1>3, ServerKeeps DEF PortIsIdle
<1>5. ServerType' /\ Unused'
  BY <1>2, <1>3 DEF IInv, ServerType, Unused, ClientIsIdle
<1> QED BY <1>3, <1>4, <1>5 DEF IInv

\* What concerns the connection only.
LEMMA ConnectionKeeps ==
    ASSUME ConnectorAssumption, IInv, ClientIsIdle, UNCHANGED <<store, seen, up, down, due>>,
           accepted' \in 0..opened, ended' \subseteq 1..accepted',
           current' \in {None} \cup ((1..accepted') \ ended')
    PROVE  IInv'
<1>1. Grows /\ PortIsIdle
  BY DEF Grows, PortIsIdle
<1>2. ClientType' /\ Gathering' /\ Returned' /\ Call' /\ Due'
  BY <1>1, ServerKeeps
<1>3. ServerType' /\ Unused' /\ Noted'
  BY DEF IInv, ServerType, StoreType, Unused, Noted, ClientIsIdle, Running, Value
<1> QED BY <1>2, <1>3 DEF IInv

LEMMA AcceptKeeps == ASSUME ConnectorAssumption, IInv, Accept PROVE IInv'
<1>1. /\ accepted \in Nat /\ opened \in Nat /\ accepted < opened
      /\ ended \subseteq 1..accepted
      /\ accepted' = accepted + 1 /\ current' = accepted + 1 /\ ended' = ended
  BY DEF IInv, ServerType, Accept, ConnectorAssumption
<1>2. accepted' \in 0..opened /\ ended' \subseteq 1..accepted'
      /\ current' \in (1..accepted') \ ended'
  BY <1>1
<1>3. ClientIsIdle /\ UNCHANGED <<store, seen, up, down, due>>
  BY DEF Accept, matlab, ClientIsIdle
<1> QED BY <1>2, <1>3, ConnectionKeeps

LEMMA OtherClientKeeps == ASSUME ConnectorAssumption, IInv, OtherClient PROVE IInv'
<1>1. ClientIsIdle /\ UNCHANGED <<store, seen, up, down, due, accepted, ended>> /\ current' = None
  BY DEF OtherClient, matlab, ClientIsIdle
<1>2. accepted' \in 0..opened /\ ended' \subseteq 1..accepted'
  BY <1>1 DEF IInv, ServerType
<1> QED BY <1>1, <1>2, ConnectionKeeps

LEMMA DisconnectedKeeps ==
    ASSUME ConnectorAssumption, IInv, NEW k \in Connections, Disconnected(k)
    PROVE  IInv'
<1>1. /\ ClientIsIdle /\ UNCHANGED <<store, seen, up, down, due, accepted>>
      /\ ended' = ended \cup {k} /\ current' = IF current = k THEN None ELSE current
      /\ k <= accepted
  BY DEF Disconnected, matlab, ClientIsIdle
<1>2. accepted \in 0..opened /\ ended \subseteq 1..accepted /\ k \in 1..accepted
      /\ current \in {None} \cup ((1..accepted) \ ended)
  BY <1>1 DEF IInv, ServerType, Connections, ConnectorAssumption
<1>3. current' \in {None} \cup ((1..accepted') \ ended')
  BY <1>1, <1>2
<1>4. accepted' \in 0..opened /\ ended' \subseteq 1..accepted'
  BY <1>1, <1>2
<1> QED BY <1>1, <1>3, <1>4, ConnectionKeeps

-----------------------------------------------------------------------------
(* Requests handled by the server.                                         *)

\* The current connection is an open one of the client.
LEMMA CurrentIsConnection ==
    ASSUME ConnectorAssumption, IInv, current # None
    PROVE  /\ current \in Connections /\ current \in 1..accepted /\ current \notin ended
           /\ current <= opened
<1>1. /\ opened \in 0..MaxConnections /\ accepted \in 0..opened /\ MaxConnections \in Nat
      /\ current \in (1..accepted) \ ended
  BY DEF IInv, ServerType, ConnectorAssumption
<1> QED BY <1>1 DEF Connections

\* The sets that are left are those that were not handled.
LEMMA SetIsHandled ==
    ASSUME NEW q \in Seq(Requests), q # <<>>, NEW sets, Hold(q, sets)
    PROVE  Hold(Tail(q), sets \ {Head(q).number})
<1> SUFFICES ASSUME NEW n \in sets \ {Head(q).number}
             PROVE  \E i \in DOMAIN Tail(q) :
                       Tail(q)[i].command = "set" /\ Tail(q)[i].number = n
  BY DEF Hold
<1>1. PICK i \in DOMAIN q : q[i].command = "set" /\ q[i].number = n
  BY DEF Hold
<1>2. /\ Len(q) \in Nat /\ DOMAIN q = 1..Len(q) /\ Head(q) = q[1] /\ Len(Tail(q)) = Len(q) - 1
      /\ \A j \in 1..Len(Tail(q)) : Tail(q)[j] = q[j + 1]
      /\ DOMAIN Tail(q) = 1..Len(Tail(q))
  <2>1. Tail(q) \in Seq(Requests)
    OBVIOUS
  <2> QED BY <2>1, HeadTailProperties
<1>3. i # 1
  BY <1>1, <1>2
<1>4. i - 1 \in 1..Len(Tail(q)) /\ (i - 1) + 1 = i
  BY <1>2, <1>3
<1> QED BY <1>1, <1>2, <1>4

\* What is the same in each request that is handled.
LEMMA HandleFrame ==
    ASSUME ConnectorAssumption, IInv, Handle
    PROVE  /\ current \in Connections /\ current <= opened /\ current \notin ended
           /\ current \in 1..accepted
           /\ up[current] \in Seq(Requests) /\ up[current] # <<>>
           /\ Head(up[current]) \in Requests
           /\ up' = [up EXCEPT ![current] = Tail(@)]
           /\ up' \in [Connections -> Seq(Requests)]
           /\ ClientIsIdle /\ accepted' = accepted
           /\ port # None => port \in Connections
<1>1. /\ current \in Connections /\ current <= opened
      /\ current \notin ended /\ current \in 1..accepted
  BY CurrentIsConnection DEF Handle
<1>2. up[current] \in Seq(Requests) /\ up[current] # <<>> /\ up \in [Connections -> Seq(Requests)]
  BY <1>1 DEF IInv, ServerType, Handle
<1>3. Head(up[current]) \in Requests /\ Tail(up[current]) \in Seq(Requests)
  BY <1>2
<1>4. up' = [up EXCEPT ![current] = Tail(@)] /\ ClientIsIdle /\ accepted' = accepted
  BY DEF Handle, ClientIsIdle
<1>5. port # None => port \in Connections
  <2>1. opened \in 0..MaxConnections /\ MaxConnections \in Nat /\ port \in {None, opened}
        /\ (port # None => port \in 1..opened)
    BY DEF IInv, ClientType, ServerType, ConnectorAssumption
  <2> QED BY <2>1 DEF Connections
<1> QED BY <1>1, <1>2, <1>3, <1>4, <1>5

\* A set that is handled.
LEMMA HandleSetKeeps ==
    ASSUME ConnectorAssumption, IInv, Handle, Head(up[current]).command = "set"
    PROVE  IInv'
<1> DEFINE r == Head(up[current])
           q == up[current]
<1>1. /\ current \in Connections /\ current <= opened /\ current \in 1..accepted
      /\ q \in Seq(Requests) /\ q # <<>> /\ r \in Requests
      /\ up' = [up EXCEPT ![current] = Tail(@)] /\ up' \in [Connections -> Seq(Requests)]
      /\ ClientIsIdle /\ accepted' = accepted
      /\ port # None => port \in Connections
  BY HandleFrame
<1>2. HandleSet(r)
  BY DEF Handle
<1>3. r.text \in IdSet /\ r.value \in Values
  BY <1>1 DEF Requests
<1>4. due' = due \ {r.number} /\ UNCHANGED <<current, ended, down>>
  BY <1>2 DEF HandleSet
<1>5. StoreType' /\ seen' \in [IdSet -> SUBSET Found] /\ Noted' /\ Grows
  <2>1. CASE r.text \in DOMAIN store
    <3> DEFINE new == With(r.text, r.value)
    <3>1. DOMAIN new \subseteq IdSet /\ \A i \in DOMAIN new : new[i] \in Values
      <4> HIDE DEF r
      <4> QED BY <1>3 DEF IInv, ServerType, StoreType, With
    <3>2. Changes(new)
      BY <1>2, <2>1 DEF HandleSet
    <3> HIDE DEF new, r
    <3> QED BY <1>1, <3>1, <3>2, ChangesNote DEF ClientIsIdle
  <2>2. CASE r.text \notin DOMAIN store
    <3>1. UNCHANGED <<store, seen>>
      BY <1>2, <2>2 DEF HandleSet
    <3> QED BY <1>1, <3>1
            DEF IInv, ServerType, StoreType, Noted, Grows, ClientIsIdle, Running, Value
  <2> QED BY <2>1, <2>2
<1>6. ServerType'
  BY <1>1, <1>4, <1>5 DEF IInv, ServerType, ClientIsIdle
<1>7. Unused'
  <2>1. \A k \in Connections : k > opened => k # current
    <3>1. opened \in Nat /\ MaxConnections \in Nat
      BY DEF IInv, ServerType, ConnectorAssumption
    <3> QED BY <1>1, <3>1 DEF Connections
  <2>2. up \in [Connections -> Seq(Requests)]
    BY DEF IInv, ServerType
  <2> HIDE DEF r, q
  <2> QED BY <1>1, <1>4, <2>1, <2>2 DEF IInv, Unused, ClientIsIdle
<1>8. ClientType' /\ Gathering' /\ Returned'
  BY <1>1, <1>5, ClientStays
<1>9. CASE current # port
  <2>1. up \in [Connections -> Seq(Requests)]
    BY DEF IInv, ServerType
  <2>2. PortIsIdle
    BY <1>1, <1>4, <1>9, <2>1 DEF PortIsIdle
  <2>3. due' \subseteq due
    BY <1>4
  <2>4. Call' /\ Due'
    BY <1>1, <1>5, <2>2, <2>3, ServerKeeps
  <2> QED BY <1>5, <1>6, <1>7, <1>8, <2>4 DEF IInv
<1>10. CASE current = port
  <2>1. up'[port] = Tail(q) /\ up[port] = q /\ down'[port] = down[port] /\ port # None
    <3>1. up \in [Connections -> Seq(Requests)]
      BY DEF IInv, ServerType
    <3> QED BY <1>1, <1>4, <1>10, <3>1 DEF Handle
  <2>2. UNCHANGED <<port, waiting, get>>
    BY <1>1 DEF ClientIsIdle
  <2>3. /\ Len(q) \in Nat /\ DOMAIN q = 1..Len(q) /\ Head(q) = q[1] /\ Len(Tail(q)) = Len(q) - 1
        /\ \A j \in 1..Len(Tail(q)) : Tail(q)[j] = q[j + 1]
        /\ DOMAIN Tail(q) = 1..Len(Tail(q)) /\ Len(q) > 0
    <3>1. Tail(q) \in Seq(Requests) /\ Len(q) \in Nat /\ Len(q) > 0
      BY <1>1
    <3> QED BY <1>1, <3>1, HeadTailProperties
  <2>4. Due'
    <3>1. Hold(q, due)
      BY <2>1 DEF IInv, Due
    <3>2. Hold(Tail(q), due')
      BY <1>1, <1>4, <3>1, SetIsHandled
    <3> QED BY <2>1, <2>2, <3>2 DEF Due
  <2>5. waiting = None => down'[port] = <<>> /\ NoGet(up'[port])
    <3> SUFFICES ASSUME waiting = None PROVE down'[port] = <<>> /\ NoGet(Tail(q))
      BY <2>1
    <3>1. down[port] = <<>> /\ NoGet(q)
      BY <2>1 DEF IInv, Call
    <3>2. \A j \in 1..Len(Tail(q)) : j + 1 \in 1..Len(q)
      BY <2>3
    <3> HIDE DEF q
    <3> QED BY <2>1, <2>3, <3>1, <3>2 DEF NoGet
  <2>6. waiting = "header" => Asking'
    <3> SUFFICES ASSUME waiting = "header" PROVE Asking'
      OBVIOUS
    <3>1. Asking
      BY <1>1, <2>1 DEF IInv, Call, Handled
    <3>2. /\ down[port] = <<>> /\ q[Len(q)].command = "get" /\ q[Len(q)].text = Asked
          /\ \A i \in DOMAIN q : i < Len(q) => q[i].command = "set"
      BY <2>1, <3>1 DEF Asking
    <3>3. Asked' = Asked
      BY <2>2 DEF Asked
    <3>4. Len(q) # 1
      BY <2>3, <3>2
    <3> HIDE DEF q
    <3>5. /\ Len(Tail(q)) \in 1..Len(Tail(q)) /\ Len(Tail(q)) + 1 = Len(q)
          /\ \A i \in 1..Len(Tail(q)) : i < Len(Tail(q)) => i + 1 \in 1..Len(q) /\ i + 1 < Len(q)
      BY <2>3, <3>4
    <3>6. Tail(q) # <<>>
      <4>1. Len(<<>>) = 0
        OBVIOUS
      <4>2. Len(Tail(q)) # 0
        BY <2>3, <3>4
      <4> QED BY <4>1, <4>2
    <3>7. \A i \in DOMAIN Tail(q) : i < Len(Tail(q)) => Tail(q)[i].command = "set"
      BY <2>3, <3>2, <3>5
    <3>8. Tail(q)[Len(Tail(q))] = q[Len(q)]
      BY <2>3, <3>5
    <3> QED BY <2>1, <2>2, <3>2, <3>3, <3>6, <3>7, <3>8 DEF Asking
  <2>7. waiting # "payload"
    BY <1>1, <2>1 DEF IInv, Call, Handled
  <2>8. Call'
    <3> HIDE DEF Asking
    <3> QED BY <2>2, <2>5, <2>6, <2>7 DEF Call
  <2> QED BY <1>5, <1>6, <1>7, <1>8, <2>4, <2>8 DEF IInv
<1> QED BY <1>9, <1>10

\* A get that is handled.
LEMMA HandleGetKeeps ==
    ASSUME ConnectorAssumption, IInv, Handle, Head(up[current]).command # "set"
    PROVE  IInv'
<1> DEFINE r == Head(up[current])
           q == up[current]
<1>1. /\ current \in Connections /\ current <= opened /\ current \in 1..accepted
      /\ current \notin ended
      /\ q \in Seq(Requests) /\ q # <<>> /\ r \in Requests
      /\ up' = [up EXCEPT ![current] = Tail(@)] /\ up' \in [Connections -> Seq(Requests)]
      /\ ClientIsIdle /\ accepted' = accepted
      /\ port # None => port \in Connections
  BY HandleFrame
<1>2. HandleGet(r)
  BY DEF Handle
<1>3. UNCHANGED <<store, seen, due>>
  BY <1>2 DEF HandleGet
<1>4. Grows
  BY <1>3 DEF Grows
<1>5. r.text \in Texts /\ Reply(r.text) \in Replies
  <2>1. r.text \in Texts
    BY <1>1 DEF Requests, Texts, IdSet
  <2> HIDE DEF r
  <2> QED BY <2>1, ReplyType DEF IInv, ServerType
<1>6. /\ up \in [Connections -> Seq(Requests)] /\ down \in [Connections -> Seq(ReplyParts)]
      /\ down[current] \in Seq(ReplyParts)
  BY <1>1 DEF IInv, ServerType
<1>7. Parts(Reply(r.text)) \in Seq(ReplyParts)
  BY <1>5, PartsOf
<1>8. /\ down' \in [Connections -> Seq(ReplyParts)]
      /\ \A k \in Connections : k # current => down'[k] = down[k]
      /\ down[current] = <<>> /\ current \notin hungUp =>
            down'[current] = <<>> \/ down'[current] = Parts(Reply(r.text))
      /\ \/ UNCHANGED <<ended, current>>
         \/ ended' = ended \cup {current} /\ current' = None
  <2>1. CASE UNCHANGED <<down, ended, current>> /\ current \in hungUp
    BY <1>6, <2>1
  <2>2. CASE /\ down' = [down EXCEPT ![current] = @ \o Parts(Reply(r.text))]
             /\ UNCHANGED <<ended, current>>
    <3> DEFINE p == Parts(Reply(r.text))
    <3>1. p \in Seq(ReplyParts)
      BY <1>7
    <3> HIDE DEF p
    <3>2. down[current] \o p \in Seq(ReplyParts)
      BY <1>6, <3>1
    <3>3. down[current] = <<>> => down[current] \o p = p
      BY <3>1, ConcatEmptySeq
    <3>4. down' = [down EXCEPT ![current] = down[current] \o p]
      BY <2>2 DEF p
    <3>5. down' \in [Connections -> Seq(ReplyParts)] /\ down'[current] = down[current] \o p
      BY <1>1, <1>6, <3>2, <3>4
    <3>6. \A k \in Connections : k # current => down'[k] = down[k]
      BY <1>6, <3>4
    <3> QED BY <2>2, <3>3, <3>5, <3>6 DEF p
  <2>3. CASE /\ ended' = ended \cup {current} /\ current' = None
             /\ \E n \in 0..Len(down[current]) :
                   down' = [down EXCEPT ![current] = SubSeq(@, 1, n)]
    <3>1. PICK n \in 0..Len(down[current]) :
             down' = [down EXCEPT ![current] = SubSeq(down[current], 1, n)]
      BY <2>3
    <3>2. Len(down[current]) \in Nat /\ DOMAIN down[current] = 1..Len(down[current])
      BY <1>6
    <3>3. \A i \in 1..n : down[current][i] \in ReplyParts
      BY <1>6, <3>2
    <3>4. SubSeq(down[current], 1, n) \in Seq(ReplyParts)
      BY <3>3, SubSeqProperties
    <3>5. down[current] = <<>> => SubSeq(down[current], 1, n) = <<>>
      <4> SUFFICES ASSUME down[current] = <<>> PROVE SubSeq(down[current], 1, n) = <<>>
        OBVIOUS
      <4>1. Len(<<>>) = 0
        OBVIOUS
      <4>2. n \in Int /\ n < 1
        BY <3>2, <4>1
      <4> QED BY <4>2, SubSeqEmpty
    <3>6. down' \in [Connections -> Seq(ReplyParts)] /\ down'[current] = SubSeq(down[current], 1, n)
      BY <1>1, <1>6, <3>1, <3>4
    <3>7. \A k \in Connections : k # current => down'[k] = down[k]
      BY <1>6, <3>1
    <3> QED BY <2>3, <3>5, <3>6, <3>7
  <2> QED BY <1>2, <2>1, <2>2, <2>3 DEF HandleGet
<1>9. StoreType' /\ seen' \in [IdSet -> SUBSET Found] /\ Noted'
  BY <1>1, <1>3 DEF IInv, ServerType, StoreType, Noted, ClientIsIdle, Running, Value
<1>10. ServerType'
  <2>1. current' \in {None} \cup ((1..accepted') \ ended') /\ ended' \subseteq 1..accepted'
    BY <1>1, <1>8 DEF IInv, ServerType
  <2> HIDE DEF r, q
  <2> QED BY <1>1, <1>8, <1>9, <2>1 DEF IInv, ServerType, ClientIsIdle
<1>11. Unused'
  <2>1. \A k \in Connections : k > opened => k # current
    <3>1. opened \in Nat /\ MaxConnections \in Nat
      BY DEF IInv, ServerType, ConnectorAssumption
    <3> QED BY <1>1, <3>1 DEF Connections
  <2> HIDE DEF r, q
  <2> QED BY <1>1, <1>6, <1>8, <2>1 DEF IInv, Unused, ClientIsIdle
<1>12. ClientType' /\ Gathering' /\ Returned'
  BY <1>1, <1>4, ClientStays
<1>13. CASE current # port
  <2>1. PortIsIdle
    BY <1>1, <1>6, <1>8, <1>13 DEF PortIsIdle
  <2>2. due' \subseteq due
    BY <1>3
  <2>3. Call' /\ Due'
    BY <1>1, <1>4, <2>1, <2>2, ServerKeeps
  <2> QED BY <1>9, <1>10, <1>11, <1>12, <2>3 DEF IInv
<1>14. CASE current = port
  <2>1. up'[port] = Tail(q) /\ up[port] = q /\ port # None /\ port \notin hungUp
    <3>1. port \notin hungUp
      BY DEF IInv, ClientType
    <3> QED BY <1>1, <1>6, <1>14, <3>1 DEF Handle
  <2>2. UNCHANGED <<port, waiting, get>>
    BY <1>1 DEF ClientIsIdle
  <2>3. /\ Len(q) \in Nat /\ DOMAIN q = 1..Len(q) /\ Head(q) = q[1] /\ Len(q) > 0
        /\ 1 \in DOMAIN q
    BY <1>1
  <2>4. waiting # None /\ ~ Handled
    BY <2>1, <2>3 DEF IInv, Call, NoGet, Handled
  <2>5. waiting = "header" /\ Asking
    BY <2>1, <2>4 DEF IInv, ClientType, Call
  <2>6. /\ down[port] = <<>> /\ q[Len(q)].text = Asked
        /\ \A i \in DOMAIN q : i < Len(q) => q[i].command = "set"
    BY <2>1, <2>5 DEF Asking
  <2>7. Len(q) = 1 /\ r = q[Len(q)]
    <3>1. q[1].command # "set" /\ r = q[1]
      BY <2>3
    <3> HIDE DEF q
    <3>2. ~ (1 < Len(q))
      BY <2>3, <2>6, <3>1
    <3>3. Len(q) = 1
      BY <2>3, <3>2
    <3> QED BY <3>1, <3>3
  <2>8. Tail(q) = <<>>
    <3>1. Tail(q) \in Seq(Requests) /\ Len(Tail(q)) = 0
      BY <1>1, <2>7, HeadTailProperties
    <3> QED BY <3>1, EmptySeq
  <2>9. due = {}
    <3>1. \A i \in DOMAIN q : i = 1
      BY <2>3, <2>7
    <3>2. Hold(q, due)
      BY <2>1 DEF IInv, Due
    <3> QED BY <2>3, <3>1, <3>2 DEF Hold
  <2>10. Handled' /\ Due'
    <3>1. Hold(up'[port], {})
      BY DEF Hold
    <3> QED BY <1>3, <2>1, <2>2, <2>8, <2>9, <3>1 DEF Handled, Due
  <2>11. r.text = Asked /\ Asked' = Asked
    BY <2>2, <2>6, <2>7 DEF Asked
  <2> DEFINE d == Reply(r.text)
             back == down[port]
             x == Head(back).reply
  <2>12. Fresh(d, Asked)
    <3>1. Running
      BY <2>4 DEF IInv, ClientType
    <3> QED BY <1>5, <2>11, <3>1, ReplyIsFresh DEF IInv, ServerType
  <2>13. back' = <<>> \/ back' = Parts(d)
    BY <1>8, <2>1, <2>2, <2>6, <1>14
  <2>14. back' = Parts(d) => x' = d
    BY <1>5, PartsOf
  <2> HIDE DEF d, back, x, Asked
  <2>15. ASSUME back' = Parts(d) PROVE Begun(back, x)'
    <3>1. x' = d
      BY <2>14, <2>15
    <3>2. Fresh(x, Asked)'
      BY <1>3, <2>11, <2>12, <3>1 DEF Fresh
    <3> QED BY <2>15, <3>1, <3>2 DEF Begun
  <2>16. Call'
    <3>1. Handled' /\ (back' = <<>> \/ Begun(back, x)')
      BY <2>10, <2>13, <2>15
    <3>2. waiting' = "header" /\ waiting' # None
      BY <2>2, <2>5, <2>4
    <3> HIDE DEF Handled, Begun
    <3> QED BY <3>1, <3>2 DEF Call, back, x
  <2> QED BY <1>9, <1>10, <1>11, <1>12, <2>10, <2>16 DEF IInv
<1> QED BY <1>13, <1>14

-----------------------------------------------------------------------------
(* Steps of TCPClient.                                                     *)

\* The connection of the port is one of those that were opened.
LEMMA PortIsConnection ==
    ASSUME ConnectorAssumption, IInv, port # None
    PROVE  port \in Connections /\ port \in 1..opened /\ port = opened
<1>1. /\ opened \in 0..MaxConnections /\ MaxConnections \in Nat
      /\ port \in 1..opened /\ port = opened
  BY DEF IInv, ServerType, ClientType, ConnectorAssumption
<1> QED BY <1>1 DEF Connections

\* Closing the connection of the port touches no other.
LEMMA CloseFrame ==
    ASSUME ConnectorAssumption, IInv, Close(port)
    PROVE  /\ hungUp' \subseteq 1..opened
           /\ up' \in [Connections -> Seq(Requests)]
           /\ down' \in [Connections -> Seq(ReplyParts)]
           /\ \A k \in Connections : k # port => up'[k] = up[k] /\ down'[k] = down[k]
<1>1. /\ up \in [Connections -> Seq(Requests)] /\ down \in [Connections -> Seq(ReplyParts)]
      /\ hungUp \subseteq 1..opened
  BY DEF IInv, ServerType
<1>2. CASE port = None
  BY <1>1, <1>2 DEF Close
<1>3. CASE port # None
  <2>1. port \in Connections /\ port \in 1..opened
    BY <1>3, PortIsConnection
  <2>2. PICK n \in 0..Len(up[port]) : up' = [up EXCEPT ![port] = SubSeq(up[port], 1, n)]
    BY <1>3 DEF Close
  <2>3. hungUp' = hungUp \cup {port} /\ down' = [down EXCEPT ![port] = <<>>]
    BY <1>3 DEF Close
  <2>4. SubSeq(up[port], 1, n) \in Seq(Requests)
    <3>1. up[port] \in Seq(Requests)
      BY <1>1, <2>1
    <3>2. Len(up[port]) \in Nat /\ n \in Int /\ \A i \in 1..n : up[port][i] \in Requests
      BY <3>1
    <3> QED BY <3>2, SubSeqProperties
  <2>5. <<>> \in Seq(ReplyParts)
    OBVIOUS
  <2> QED BY <1>1, <2>1, <2>2, <2>3, <2>4, <2>5
<1> QED BY <1>2, <1>3

\* A step of the client leaves what the server has alone.
LEMMA ServerStays ==
    ASSUME ConnectorAssumption, IInv, UNCHANGED server, opened' \in {opened, opened + 1},
           opened' <= MaxConnections,
           hungUp' \subseteq 1..opened,
           up' \in [Connections -> Seq(Requests)], down' \in [Connections -> Seq(ReplyParts)],
           \A k \in Connections : k # port => up'[k] = up[k] /\ down'[k] = down[k]
    PROVE  ServerType' /\ Unused'
<1>1. opened \in 0..MaxConnections /\ accepted \in 0..opened /\ MaxConnections \in Nat
  BY DEF IInv, ServerType, ConnectorAssumption
<1>2. opened' \in 0..MaxConnections /\ accepted \in 0..opened'
  BY <1>1
<1>3. hungUp' \subseteq 1..opened'
  BY <1>1
<1>4. ServerType'
  BY <1>2, <1>3 DEF IInv, ServerType, StoreType, server
<1>5. \A k \in Connections : k > opened' => k > opened /\ k # port
  <2>1. port # None => port \in Connections /\ port = opened
    BY PortIsConnection
  <2>2. None \notin Connections
    BY DEF ConnectorAssumption, Connections
  <2> QED BY <1>1, <2>1, <2>2 DEF Connections
<1>6. Unused'
  BY <1>5 DEF IInv, Unused
<1> QED BY <1>4, <1>6

LEMMA ConnectKeeps == ASSUME ConnectorAssumption, IInv, Connect PROVE IInv'
<1>1. /\ ~ Running /\ opened < MaxConnections /\ opened' = opened + 1
      /\ port' = opened + 1 /\ due' = {} /\ Close(port)
      /\ UNCHANGED server /\ UNCHANGED <<waiting, get, calls>>
  BY DEF Connect
<1>2. /\ hungUp' \subseteq 1..opened
      /\ up' \in [Connections -> Seq(Requests)] /\ down' \in [Connections -> Seq(ReplyParts)]
      /\ \A k \in Connections : k # port => up'[k] = up[k] /\ down'[k] = down[k]
  BY <1>1, CloseFrame
<1>3. opened \in Nat /\ MaxConnections \in Nat
  BY DEF IInv, ServerType, ConnectorAssumption
<1>4. ServerType' /\ Unused'
  <2>1. opened' <= MaxConnections
    BY <1>1, <1>3
  <2> QED BY <1>1, <1>2, <2>1, ServerStays
<1>5. waiting = None /\ waiting' = None
  BY <1>1 DEF IInv, ClientType
<1>6. opened + 1 \in Connections /\ opened + 1 > opened /\ opened + 1 # port
  <2>1. port # None => port = opened
    BY PortIsConnection
  <2>2. opened + 1 \in Connections
    BY <1>1, <1>3 DEF Connections
  <2> QED BY <1>3, <2>1, <2>2 DEF ConnectorAssumption, Connections
<1>7. up'[opened + 1] = <<>> /\ down'[opened + 1] = <<>>
  BY <1>2, <1>6 DEF IInv, Unused
<1>8. ClientType'
  <2>1. opened + 1 \notin hungUp' /\ opened + 1 \in 1..(opened + 1)
    BY <1>2, <1>3
  <2> QED BY <1>1, <1>5, <2>1 DEF IInv, ClientType, Running
<1>9. Call'
  <2>1. NoGet(up'[port'])
    BY <1>1, <1>7 DEF NoGet
  <2>2. waiting' # "header" /\ waiting' # "payload"
    BY <1>5 DEF ConnectorAssumption
  <2> HIDE DEF NoGet
  <2> QED BY <1>1, <1>5, <1>7, <2>1, <2>2 DEF Call
<1>10. Due'
  BY <1>1 DEF Due, Hold
<1>11. Grows /\ get' = get
  BY <1>1 DEF Grows, server
<1>12. Gathering' /\ Returned' /\ Noted'
  BY <1>1, <1>11, ResultsStay DEF Noted, Running
<1> QED BY <1>4, <1>8, <1>9, <1>10, <1>12 DEF IInv

\* Without a connection, nothing is under way.
LEMMA DiscardFrame ==
    ASSUME ConnectorAssumption, IInv, Discard, UNCHANGED server, opened' = opened
    PROVE  ServerType' /\ Unused' /\ Call' /\ Due' /\ port' = None /\ None \notin hungUp'
<1>1. port' = None /\ due' = {} /\ Close(port)
  BY DEF Discard
<1>2. /\ hungUp' \subseteq 1..opened
      /\ up' \in [Connections -> Seq(Requests)] /\ down' \in [Connections -> Seq(ReplyParts)]
      /\ \A k \in Connections : k # port => up'[k] = up[k] /\ down'[k] = down[k]
  BY <1>1, CloseFrame
<1>3. opened \in 0..MaxConnections /\ MaxConnections \in Nat
  BY DEF IInv, ServerType, ConnectorAssumption
<1>4. ServerType' /\ Unused'
  <2>1. opened' <= MaxConnections
    BY <1>3
  <2> QED BY <1>2, <2>1, ServerStays
<1>5. None \notin hungUp'
  <2>1. 1..opened \subseteq 1..MaxConnections
    BY <1>3
  <2> QED BY <1>2, <2>1 DEF ConnectorAssumption
<1> QED BY <1>1, <1>4, <1>5 DEF Call, Due

LEMMA DisconnectKeeps == ASSUME ConnectorAssumption, IInv, Disconnect PROVE IInv'
<1>1. /\ ~ Running /\ Discard /\ UNCHANGED server /\ UNCHANGED <<opened, waiting, get, calls>>
  BY DEF Disconnect
<1>2. ServerType' /\ Unused' /\ Call' /\ Due' /\ port' = None /\ None \notin hungUp'
  BY <1>1, DiscardFrame
<1>3. ClientType'
  BY <1>1, <1>2 DEF IInv, ClientType, Running
<1>4. Grows /\ get' = get
  BY <1>1 DEF Grows, server
<1>5. Gathering' /\ Returned' /\ Noted'
  BY <1>1, <1>4, ResultsStay DEF Noted, Running
<1> QED BY <1>2, <1>3, <1>5 DEF IInv

\* What sendFrame hands to the socket.
LEMMA SendFrameKeeps ==
    ASSUME ConnectorAssumption, IInv, port # None, NEW r \in Requests, SendFrame(r)
    PROVE  /\ hungUp' \subseteq 1..opened /\ down' = down /\ port' = port
           /\ up' \in [Connections -> Seq(Requests)]
           /\ \A k \in Connections : k # port => up'[k] = up[k] /\ down'[k] = down[k]
           /\ up[port] \in Seq(Requests) /\ up'[port] = Append(up[port], r)
<1>1. /\ up \in [Connections -> Seq(Requests)] /\ down \in [Connections -> Seq(ReplyParts)]
      /\ hungUp \subseteq 1..opened
  BY DEF IInv, ServerType
<1>2. port \in Connections
  BY PortIsConnection
<1>3. /\ up' = [up EXCEPT ![port] = Append(up[port], r)] /\ hungUp' = hungUp /\ down' = down
      /\ port' = port
  BY DEF SendFrame
<1>4. Append(up[port], r) \in Seq(Requests) /\ up[port] \in Seq(Requests)
  BY <1>1, <1>2
<1> QED BY <1>1, <1>2, <1>3, <1>4

\* The elements of a sequence with one more.
LEMMA AppendIs ==
    ASSUME NEW S, NEW q \in Seq(S), NEW e \in S
    PROVE  /\ Append(q, e) \in Seq(S) /\ Append(q, e) # <<>>
           /\ Len(Append(q, e)) = Len(q) + 1 /\ Len(q) \in Nat
           /\ DOMAIN q = 1..Len(q) /\ DOMAIN Append(q, e) = 1..(Len(q) + 1)
           /\ \A i \in 1..Len(q) : Append(q, e)[i] = q[i]
           /\ Append(q, e)[Len(q) + 1] = e
<1>1. /\ Append(q, e) \in Seq(S) /\ Len(Append(q, e)) = Len(q) + 1 /\ Len(q) \in Nat
      /\ DOMAIN q = 1..Len(q) /\ DOMAIN Append(q, e) = 1..(Len(q) + 1)
      /\ \A i \in 1..Len(q) : Append(q, e)[i] = q[i]
      /\ Append(q, e)[Len(q) + 1] = e
  OBVIOUS
<1>2. Append(q, e) # <<>>
  <2>1. Len(<<>>) = 0
    OBVIOUS
  <2>2. Len(Append(q, e)) # 0
    BY <1>1
  <2> QED BY <2>1, <2>2
<1> QED BY <1>1, <1>2

\* A request that is appended leaves the sets before it where they are.
LEMMA HoldMore ==
    ASSUME NEW q \in Seq(Requests), NEW r \in Requests, NEW sets, Hold(q, sets)
    PROVE  /\ Hold(Append(q, r), sets)
           /\ r.command = "set" => Hold(Append(q, r), sets \cup {r.number})
<1>1. /\ DOMAIN q = 1..Len(q) /\ DOMAIN Append(q, r) = 1..(Len(q) + 1) /\ Len(q) \in Nat
      /\ \A i \in 1..Len(q) : Append(q, r)[i] = q[i]
      /\ Append(q, r)[Len(q) + 1] = r
  BY AppendIs
<1>2. Hold(Append(q, r), sets)
  BY <1>1 DEF Hold
<1>3. ASSUME r.command = "set" PROVE Hold(Append(q, r), sets \cup {r.number})
  <2>1. \E i \in DOMAIN Append(q, r) :
           Append(q, r)[i].command = "set" /\ Append(q, r)[i].number = r.number
    BY <1>1, <1>3
  <2> QED BY <1>2, <2>1 DEF Hold
<1> QED BY <1>2, <1>3

LEMMA SetKeeps ==
    ASSUME ConnectorAssumption, IInv, NEW id \in ToSet(Ids), NEW v \in Values, Set(id, v)
    PROVE  IInv'
<1> DEFINE r == [command |-> "set", text |-> id, value |-> v, number |-> calls + 1]
<1>1. /\ ~ Running /\ port # None /\ calls' = calls + 1
      /\ (SendFrame(r) /\ due' = due \cup {calls + 1}) \/ Discard
      /\ UNCHANGED server /\ UNCHANGED <<opened, waiting, get>>
  BY DEF Set
<1>2. calls' \in Nat /\ calls \in Nat
  BY <1>1 DEF IInv, ClientType
<1>3. Grows /\ get' = get
  BY <1>1 DEF Grows, server
<1>4. Gathering' /\ Returned' /\ Noted'
  BY <1>1, <1>3, ResultsStay DEF Noted, Running
<1>5. CASE Discard
  <2>1. ServerType' /\ Unused' /\ Call' /\ Due' /\ port' = None /\ None \notin hungUp'
    BY <1>1, <1>5, DiscardFrame
  <2>2. ClientType'
    BY <1>1, <1>2, <2>1 DEF IInv, ClientType, Running
  <2> QED BY <1>4, <2>1, <2>2 DEF IInv
<1>6. CASE SendFrame(r) /\ due' = due \cup {calls + 1}
  <2>1. r \in Requests /\ r.command = "set" /\ r.number = calls + 1
    BY <1>2 DEF Requests, IdSet
  <2> HIDE DEF r
  <2>2. /\ hungUp' \subseteq 1..opened /\ down' = down /\ port' = port
        /\ up' \in [Connections -> Seq(Requests)]
        /\ \A k \in Connections : k # port => up'[k] = up[k] /\ down'[k] = down[k]
        /\ up[port] \in Seq(Requests) /\ up'[port] = Append(up[port], r)
    BY <1>1, <1>6, <2>1, SendFrameKeeps
  <2>3. ServerType' /\ Unused'
    <3>1. down' \in [Connections -> Seq(ReplyParts)] /\ opened' <= MaxConnections
      BY <1>1, <2>2 DEF IInv, ServerType, ConnectorAssumption
    <3> QED BY <1>1, <2>2, <3>1, ServerStays
  <2>4. ClientType'
    <3>1. hungUp' = hungUp
      BY <1>6 DEF SendFrame
    <3> QED BY <1>1, <1>2, <2>2, <3>1 DEF IInv, ClientType, Running
  <2>5. waiting = None /\ waiting' = None
    BY <1>1 DEF IInv, ClientType
  <2>6. NoGet(up'[port])
    <3>1. NoGet(up[port])
      BY <1>1, <2>5 DEF IInv, Call
    <3>2. /\ DOMAIN up[port] = 1..Len(up[port])
          /\ DOMAIN Append(up[port], r) = 1..(Len(up[port]) + 1)
          /\ Len(up[port]) \in Nat
          /\ \A i \in 1..Len(up[port]) : Append(up[port], r)[i] = up[port][i]
          /\ Append(up[port], r)[Len(up[port]) + 1] = r
      BY <2>1, <2>2, AppendIs
    <3> QED BY <2>1, <2>2, <3>1, <3>2 DEF NoGet
  <2>7. Call'
    <3>1. waiting' # "header" /\ waiting' # "payload"
      BY <2>5 DEF ConnectorAssumption
    <3>2. down'[port'] = <<>> /\ NoGet(up'[port'])
      BY <1>1, <2>2, <2>5, <2>6 DEF IInv, Call
    <3> HIDE DEF NoGet
    <3> QED BY <2>5, <3>1, <3>2 DEF Call
  <2>8. Due'
    <3>1. Hold(up[port], due)
      BY <1>1 DEF IInv, Due
    <3>2. Hold(Append(up[port], r), due \cup {r.number})
      BY <2>1, <2>2, <3>1, HoldMore
    <3>3. Hold(up'[port'], due')
      BY <1>6, <2>1, <2>2, <3>2
    <3> QED BY <1>1, <2>2, <3>3 DEF Due
  <2> QED BY <1>4, <2>3, <2>4, <2>7, <2>8 DEF IInv
<1> QED BY <1>1, <1>5, <1>6

-----------------------------------------------------------------------------
(* Steps of Get.m.                                                         *)

LEMMA GetKeeps ==
    ASSUME ConnectorAssumption, IInv, NEW text \in Texts, Get(text)
    PROVE  IInv'
<1>1. /\ ~ Running /\ calls' = calls + 1
      /\ get' = [text |-> text, list |-> None, results |-> <<>>, status |-> "running"]
      /\ seen' = [id \in DOMAIN seen |-> {Value(id)}]
      /\ UNCHANGED <<store, accepted, current, ended, opened, hungUp, port, waiting, due, up, down>>
  BY DEF Get
<1>2. seen \in [IdSet -> SUBSET Found] /\ StoreType
  BY DEF IInv, ServerType
<1>3. seen' \in [IdSet -> SUBSET Found] /\ Noted'
  <2>1. \A id \in IdSet : Value(id) \in Found /\ Value(id)' = Value(id)
    BY <1>1, <1>2 DEF StoreType, Value, Found
  <2>2. seen' = [id \in IdSet |-> {Value(id)}]
    BY <1>1, <1>2
  <2> HIDE DEF Value
  <2>3. seen' \in [IdSet -> SUBSET Found] /\ \A id \in IdSet : Value(id) \in seen'[id]
    BY <2>1, <2>2
  <2> QED BY <2>1, <2>3 DEF Noted
<1>4. ServerType' /\ Unused'
  BY <1>1, <1>3 DEF IInv, ServerType, StoreType, Unused
<1>5. waiting = None
  BY <1>1 DEF IInv, ClientType
<1>6. ClientType'
  BY <1>1, <1>5 DEF IInv, ClientType, Running
<1>7. Gathering' /\ Returned'
  BY <1>1 DEF Gathering, Returned, Running
<1>8. Call'
  <2>1. waiting' # "header" /\ waiting' # "payload"
    BY <1>1, <1>5 DEF ConnectorAssumption
  <2>2. port # None => down'[port'] = <<>> /\ NoGet(up'[port'])
    BY <1>1, <1>5 DEF IInv, Call
  <2> HIDE DEF NoGet
  <2> QED BY <1>1, <2>1, <2>2 DEF Call
<1>9. Due'
  BY <1>1 DEF IInv, Due
<1> QED BY <1>3, <1>4, <1>6, <1>7, <1>8, <1>9 DEF IInv

\* A reply that an id had belongs to it.
LEMMA FreshBelongs ==
    ASSUME ConnectorAssumption, NEW id \in IdSet, NEW d, Fresh(d, id)
    PROVE  Belongs(d, id)
BY DEF Fresh, Belongs

\* No list is None.
LEMMA NoneIsNoList == ASSUME ConnectorAssumption, NEW list \in Seq(IdSet) PROVE list # None
BY DEF ConnectorAssumption, IdSet

\* An answer, or its failure, is what Get.m may have.
LEMMA ReturnKeeps ==
    ASSUME ConnectorAssumption, IInv, Running, seen' = seen, NEW d, Return(d),
           \/ port' = None /\ d = Empty
           \/ port' # None /\ Fresh(d, Asked)
    PROVE  /\ waiting' = None /\ Gathering' /\ Returned'
           /\ Running' => port' # None
           /\ get'.status \in {"running", "done", "error"}
           /\ get' = [text |-> get'.text, list |-> get'.list, results |-> get'.results,
                      status |-> get'.status]
<1> DEFINE first == get.list = None
           list == IF first THEN d.list ELSE get.list
           results == IF first THEN <<>> ELSE Append(get.results, d)
           status == Status(list, results)
<1>1. /\ waiting' = None
      /\ get' = IF get.text \in Patterns
                THEN [get EXCEPT !.list = list, !.results = results, !.status = status]
                ELSE [get EXCEPT !.results = <<d>>, !.status = "done"]
  BY DEF Return
<1>2. get = [text |-> get.text, list |-> get.list, results |-> get.results,
             status |-> get.status]
  BY DEF IInv, ClientType
<1>3. /\ get.text \in Texts
      /\ \/ first /\ get.results = <<>>
         \/ get.text \in Patterns /\ Gathered(get.list, get.results)
  BY DEF IInv, Gathering
<1>4. d \in Replies
  <2>1. <<>> \in Seq(IdSet)
    OBVIOUS
  <2>2. Empty \in Replies
    BY <2>1 DEF Empty, Replies, Found
  <2>3. Fresh(d, Asked) => d \in Replies
    BY DEF Fresh
  <2> QED BY <2>2, <2>3
<1>5. status \in {"running", "done", "error"}
  BY DEF Status
<1>6. CASE get.text \notin Patterns
  <2>1. get' = [text |-> get.text, list |-> get.list, results |-> <<d>>, status |-> "done"]
    BY <1>1, <1>2, <1>6
  <2>2. first /\ Asked = get.text
    BY <1>3, <1>6 DEF Asked
  <2>3. ~ Running'
    BY <2>1 DEF Running
  <2>4. AnswersAreCurrent'
    <3>1. d.value = None \/ d.value \in seen[get.text]
      BY <1>6, <2>2 DEF Empty, Fresh
    <3>2. \A i \in DOMAIN <<d>> : <<d>>[i] = d
      OBVIOUS
    <3> HIDE DEF list, results, status
    <3> QED BY <1>6, <2>1, <2>2, <3>1, <3>2 DEF AnswersAreCurrent
  <2>5. WildcardIsWhole'
    BY <1>6, <2>1 DEF WildcardIsWhole
  <2> HIDE DEF list, results, status
  <2>6. Gathering' /\ Returned'
    BY <2>3, <2>4, <2>5 DEF Gathering, Returned
  <2>7. get'.status = "done" /\ get' = [text |-> get'.text, list |-> get'.list,
                                       results |-> get'.results, status |-> get'.status]
    BY <2>1
  <2> QED BY <1>1, <2>3, <2>6, <2>7
<1>7. CASE get.text \in Patterns
  <2>1. get' = [text |-> get.text, list |-> list, results |-> results, status |-> status]
    <3> HIDE DEF list, results, status
    <3> QED BY <1>1, <1>2, <1>7
  <2>2. /\ list \in Seq(IdSet) /\ results \in Seq(Replies) /\ Len(results) <= Len(list)
        /\ port' = None \/ \A id \in Matching[get.text] : None \in seen[id] \/ id \in ToSet(list)
        /\ \A i \in DOMAIN results :
              i \in DOMAIN list /\ (results[i].value = None \/ Belongs(results[i], list[i]))
        /\ port' = None \/ \A i \in DOMAIN results : Belongs(results[i], list[i])
    <3>1. CASE first
      <4>1. list = d.list /\ results = <<>> /\ Asked = get.text
        BY <3>1 DEF Asked
      <4>2. list \in Seq(IdSet) /\ results \in Seq(Replies) /\ Len(results) = 0 /\ Len(list) \in Nat
        <5>1. <<>> \in Seq(Replies) /\ Len(<<>>) = 0
          OBVIOUS
        <5>2. list \in Seq(IdSet)
          BY <1>4, <4>1 DEF Replies
        <5>3. Len(list) \in Nat
          <6> HIDE DEF list
          <6> QED BY <5>2
        <5> QED BY <4>1, <5>1, <5>2, <5>3
      <4>3. port' = None \/ \A id \in Matching[get.text] : None \in seen[id] \/ id \in ToSet(list)
        BY <1>7, <4>1 DEF Fresh
      <4>4. DOMAIN results = {}
        BY <4>1
      <4> HIDE DEF first, list, results
      <4> QED BY <4>2, <4>3, <4>4
    <3>2. CASE ~ first
      <4>1. Gathered(get.list, get.results) /\ list = get.list /\ results = Append(get.results, d)
        BY <1>3, <3>2
      <4>2. /\ list \in Seq(IdSet) /\ get.results \in Seq(Replies) /\ Len(get.results) < Len(list)
            /\ \A i \in DOMAIN get.results : Belongs(get.results[i], list[i])
            /\ \A id \in Matching[get.text] : None \in seen[id] \/ id \in ToSet(list)
        BY <4>1 DEF Gathered
      <4>3. Asked = list[Len(get.results) + 1]
        BY <3>2, <4>1 DEF Asked
      <4>4. /\ results \in Seq(Replies) /\ Len(results) = Len(get.results) + 1
            /\ Len(get.results) \in Nat
            /\ DOMAIN get.results = 1..Len(get.results)
            /\ DOMAIN results = 1..(Len(get.results) + 1)
            /\ \A i \in 1..Len(get.results) : results[i] = get.results[i]
            /\ results[Len(get.results) + 1] = d
        BY <1>4, <4>1, <4>2, AppendIs
      <4> HIDE DEF first, list, results
      <4>5. Len(list) \in Nat /\ DOMAIN list = 1..Len(list)
        BY <4>2
      <4>6. Len(get.results) + 1 \in 1..Len(list)
        BY <4>2, <4>4, <4>5
      <4>7. port' = None \/ Belongs(d, list[Len(get.results) + 1])
        <5>1. list[Len(get.results) + 1] \in IdSet
          BY <4>2, <4>6
        <5> QED BY <4>3, <5>1, FreshBelongs
      <4>8. port' = None => d.value = None
        BY DEF Empty
      <4>9. \A i \in DOMAIN results : i \in 1..Len(get.results) \/ i = Len(get.results) + 1
        BY <4>4
      <4>10. \A i \in DOMAIN results : i \in DOMAIN list
        BY <4>2, <4>4, <4>5
      <4>11. Len(results) <= Len(list)
        BY <4>2, <4>4, <4>5
      <4> QED BY <4>2, <4>4, <4>7, <4>8, <4>9, <4>10, <4>11
    <3> QED BY <3>1, <3>2
  <2>3. status = IF port' = None THEN "error"
                 ELSE IF Len(results) < Len(list) THEN "running" ELSE "done"
    BY DEF Status
  <2> HIDE DEF first, list, results, status
  <2>4. list # None
    BY <2>2, NoneIsNoList
  <2>5. /\ get'.text = get.text /\ get'.list = list /\ get'.results = results
        /\ get'.status = status
        /\ get' = [text |-> get'.text, list |-> get'.list, results |-> get'.results,
                   status |-> get'.status]
    BY <2>1
  <2>6. Running' => Gathered(get.list, get.results)' /\ port' # None
    <3> SUFFICES ASSUME Running' PROVE Gathered(get.list, get.results)' /\ port' # None
      OBVIOUS
    <3>1. port' # None /\ Len(results) < Len(list)
      BY <2>3, <2>5 DEF Running
    <3>2. \A i \in DOMAIN results : Belongs(results[i], list[i])
      BY <2>2, <3>1
    <3>3. \A i \in DOMAIN get'.results : Belongs(get.results[i], get.list[i])'
      BY <2>5, <3>2 DEF Belongs
    <3> QED BY <2>2, <2>5, <3>1, <3>3 DEF Gathered
  <2>7. Gathering'
    BY <1>3, <1>7, <2>5, <2>6 DEF Gathering
  <2>8. AnswersAreCurrent'
    <3>1. \A i \in DOMAIN results :
             \/ results[i].value = None
             \/ list[i] \notin Patterns /\ results[i].value \in seen[list[i]]
      BY <2>2 DEF Belongs
    <3> QED BY <2>4, <2>5, <3>1 DEF AnswersAreCurrent
  <2>9. ~ Running' => WildcardIsWhole'
    <3> SUFFICES ASSUME get'.status = "done", NEW id \in Matching[get.text] \ Patterns
                 PROVE  \/ None \in seen[id]
                        \/ \E i \in DOMAIN results : list[i] = id /\ results[i].value # None
      BY <2>5 DEF WildcardIsWhole
    <3>1. port' # None /\ ~ (Len(results) < Len(list))
      BY <2>3, <2>5
    <3>2. Len(results) \in Nat /\ Len(list) \in Nat /\ DOMAIN results = 1..Len(results)
          /\ DOMAIN list = 1..Len(list) /\ Len(results) <= Len(list)
      BY <2>2
    <3>3. Len(results) = Len(list)
      <4> DEFINE m == Len(results)
                 n == Len(list)
      <4>1. m \in Nat /\ n \in Nat /\ m <= n /\ ~ (m < n)
        BY <3>1, <3>2
      <4> HIDE DEF m, n
      <4>2. m = n
        BY <4>1
      <4> QED BY <4>2 DEF m, n
    <3>4. CASE id \in ToSet(list)
      <4>1. PICK i \in DOMAIN list : list[i] = id
        BY <3>4 DEF ToSet
      <4>2. i \in DOMAIN results
        BY <3>2, <3>3
      <4>3. Belongs(results[i], id)
        BY <2>2, <3>1, <4>1, <4>2
      <4> QED BY <4>1, <4>2, <4>3 DEF Belongs
    <3> QED BY <2>2, <3>1, <3>4
  <2>10. Running' => port' # None
    BY <2>6
  <2> QED BY <1>1, <1>5, <2>5, <2>7, <2>8, <2>9, <2>10 DEF Returned
<1> QED BY <1>6, <1>7

\* A call that gives up has no connection left.
LEMMA GivesUp ==
    ASSUME ConnectorAssumption, IInv, Running,
           Discard \/ (port = None /\ UNCHANGED <<port, due, hungUp, up, down>>),
           Return(Empty), UNCHANGED server, UNCHANGED <<opened, calls>>
    PROVE  IInv'
<1>1. ServerType' /\ Unused' /\ Call' /\ Due' /\ port' = None /\ None \notin hungUp'
  <2>1. CASE Discard
    BY <2>1, DiscardFrame
  <2>2. CASE port = None /\ UNCHANGED <<port, due, hungUp, up, down>>
    BY <2>2 DEF IInv, ServerType, StoreType, ClientType, Unused, Call, Due, server
  <2> QED BY <2>1, <2>2
<1>2. seen' = seen /\ store' = store
  BY DEF server
<1>3. /\ waiting' = None /\ Gathering' /\ Returned'
      /\ Running' => port' # None
      /\ get'.status \in {"running", "done", "error"}
      /\ get' = [text |-> get'.text, list |-> get'.list, results |-> get'.results,
                 status |-> get'.status]
  BY <1>1, <1>2, ReturnKeeps
<1>4. ClientType'
  BY <1>1, <1>3 DEF IInv, ClientType
<1>5. Noted'
  BY <1>2 DEF IInv, Noted, Value
<1> QED BY <1>1, <1>3, <1>4, <1>5 DEF IInv

LEMMA ReceiveFailsKeeps == ASSUME ConnectorAssumption, IInv, ReceiveFails PROVE IInv'
<1>1. Running
  BY DEF IInv, ClientType, ReceiveFails
<1> QED BY <1>1, GivesUp DEF ReceiveFails

LEMMA RequestKeeps == ASSUME ConnectorAssumption, IInv, Request PROVE IInv'
<1> DEFINE r == [command |-> "get", text |-> Asked, value |-> None, number |-> 0]
<1>1. /\ Running /\ waiting = None /\ UNCHANGED server /\ UNCHANGED <<opened, calls>>
      /\ \/ port = None /\ UNCHANGED <<port, due, hungUp, up, down>> /\ Return(Empty)
         \/ port # None /\ SendFrame(r) /\ waiting' = "header" /\ UNCHANGED <<due, get>>
         \/ port # None /\ Discard /\ Return(Empty)
  BY DEF Request
<1>2. CASE port = None /\ UNCHANGED <<port, due, hungUp, up, down>> /\ Return(Empty)
  BY <1>1, <1>2, GivesUp
<1>3. CASE port # None /\ Discard /\ Return(Empty)
  BY <1>1, <1>3, GivesUp
<1>4. CASE port # None /\ SendFrame(r) /\ waiting' = "header" /\ UNCHANGED <<due, get>>
  <2>1. r \in Requests /\ r.command = "get" /\ r.text = Asked
    <3>1. Asked \in Texts
      BY <1>1, AskedIsText DEF IInv
    <3> QED BY <3>1 DEF Requests
  <2> HIDE DEF r
  <2>2. /\ hungUp' \subseteq 1..opened /\ down' = down /\ port' = port
        /\ up' \in [Connections -> Seq(Requests)]
        /\ \A k \in Connections : k # port => up'[k] = up[k] /\ down'[k] = down[k]
        /\ up[port] \in Seq(Requests) /\ up'[port] = Append(up[port], r)
    BY <1>4, <2>1, SendFrameKeeps
  <2>3. ServerType' /\ Unused'
    <3>1. down' \in [Connections -> Seq(ReplyParts)] /\ opened' <= MaxConnections
      BY <1>1, <2>2 DEF IInv, ServerType, ConnectorAssumption
    <3> QED BY <1>1, <2>2, <3>1, ServerStays
  <2>4. ClientType'
    <3>1. hungUp' = hungUp
      BY <1>4 DEF SendFrame
    <3> QED BY <1>1, <1>4, <2>2, <3>1 DEF IInv, ClientType, Running
  <2>5. /\ Append(up[port], r) # <<>> /\ Len(up[port]) \in Nat
        /\ Len(Append(up[port], r)) = Len(up[port]) + 1
        /\ DOMAIN up[port] = 1..Len(up[port]) /\ DOMAIN Append(up[port], r) = 1..(Len(up[port]) + 1)
        /\ \A i \in 1..Len(up[port]) : Append(up[port], r)[i] = up[port][i]
        /\ Append(up[port], r)[Len(up[port]) + 1] = r
    BY <2>1, <2>2, AppendIs
  <2>6. Asking'
    <3>1. down[port] = <<>> /\ NoGet(up[port])
      BY <1>1, <1>4 DEF IInv, Call
    <3>2. Asked' = Asked
      BY <1>4 DEF Asked
    <3> DEFINE n == Len(up[port])
               q == Append(up[port], r)
    <3>3. /\ q # <<>> /\ n \in Nat /\ Len(q) = n + 1 /\ q[n + 1] = r /\ DOMAIN q = 1..(n + 1)
          /\ \A i \in 1..n : q[i].command = "set"
      BY <2>5, <3>1 DEF NoGet
    <3>4. up'[port'] = q /\ down'[port'] = <<>>
      BY <2>2, <3>1
    <3> HIDE DEF n, q
    <3>5. q[Len(q)].command = "get" /\ q[Len(q)].text = Asked'
      BY <2>1, <3>2, <3>3
    <3>6. \A i \in DOMAIN q : i < Len(q) => q[i].command = "set"
      BY <3>3
    <3> QED BY <3>3, <3>4, <3>5, <3>6 DEF Asking
  <2>7. Call'
    <3>1. waiting' # None /\ waiting' # "payload"
      BY <1>4 DEF ConnectorAssumption
    <3> HIDE DEF Asking
    <3> QED BY <2>6, <3>1 DEF Call
  <2>8. Due'
    <3>1. Hold(up[port], due)
      BY <1>4 DEF IInv, Due
    <3>2. Hold(Append(up[port], r), due)
      BY <2>1, <2>2, <3>1, HoldMore
    <3> QED BY <1>4, <2>2, <3>2 DEF Due
  <2>9. Grows
    BY <1>1 DEF Grows, server
  <2>10. Gathering' /\ Returned'
    BY <1>4, <2>9, ResultsStay
  <2>11. Noted'
    BY <1>1, <1>4 DEF IInv, Noted, Value, Running, server
  <2> QED BY <2>3, <2>4, <2>7, <2>8, <2>10, <2>11 DEF IInv
<1> QED BY <1>1, <1>2, <1>3, <1>4

LEMMA ReceiveKeeps ==
    ASSUME ConnectorAssumption, IInv, Receive
    PROVE  IInv' /\ due = {} /\ due' = {}
<1> DEFINE back == down[port]
           d == Head(back).reply
<1>1. /\ waiting # None /\ back # <<>> /\ down' = [down EXCEPT ![port] = Tail(@)]
      /\ IF waiting = "header" /\ d # Empty
         THEN waiting' = "payload" /\ UNCHANGED <<port, get>>
         ELSE UNCHANGED port /\ Return(d)
      /\ UNCHANGED server /\ UNCHANGED <<opened, hungUp, calls, due, up>>
  BY DEF Receive
<1>2. Running /\ port # None /\ port' = port /\ waiting \in {"header", "payload"}
  BY <1>1 DEF IInv, ClientType
<1>3. port \in Connections
  BY <1>2, PortIsConnection
<1>4. /\ up \in [Connections -> Seq(Requests)] /\ down \in [Connections -> Seq(ReplyParts)]
      /\ back \in Seq(ReplyParts)
  BY <1>3 DEF IInv, ServerType
<1>5. /\ down'[port] = Tail(back) /\ Tail(back) \in Seq(ReplyParts)
      /\ \A k \in Connections : k # port => down'[k] = down[k]
      /\ down' \in [Connections -> Seq(ReplyParts)]
  <2>1. Tail(back) \in Seq(ReplyParts)
    BY <1>1, <1>4
  <2>2. down' = [down EXCEPT ![port] = Tail(back)]
    BY <1>1
  <2> HIDE DEF back
  <2> QED BY <1>3, <1>4, <2>1, <2>2
<1>6. /\ Handled /\ Fresh(d, Asked)
      /\ waiting = "header" => back = Parts(d)
      /\ waiting = "payload" => back = <<[part |-> "payload", reply |-> d]>>
  BY <1>1, <1>2 DEF IInv, Call, Asking, Begun, Going
<1>7. due = {} /\ due' = {} /\ up'[port] = <<>>
  BY <1>1, <1>6 DEF Handled
<1>8. d \in Replies
  BY <1>6 DEF Fresh
<1>9. ServerType' /\ Unused'
  <2>1. /\ up' \in [Connections -> Seq(Requests)] /\ opened' <= MaxConnections
        /\ hungUp' \subseteq 1..opened /\ opened' = opened /\ UNCHANGED server
        /\ \A k \in Connections : k # port => up'[k] = up[k]
    BY <1>1, <1>4 DEF IInv, ServerType, ConnectorAssumption
  <2>2. \A k \in Connections : k # port => up'[k] = up[k] /\ down'[k] = down[k]
    BY <1>5, <2>1
  <2>3. opened' \in {opened, opened + 1}
    BY <2>1
  <2>4. down' \in [Connections -> Seq(ReplyParts)]
    BY <1>5
  <2> HIDE DEF back, d
  <2> QED BY <2>1, <2>2, <2>3, <2>4, ServerStays
<1>10. seen' = seen /\ store' = store
  BY <1>1 DEF server
<1>11. Due' /\ Handled'
  BY <1>2, <1>7 DEF Due, Hold, Handled
<1> HIDE DEF back, d
<1>12. Noted'
  BY <1>2, <1>10 DEF IInv, Noted, Value
<1>13. CASE waiting = "header" /\ d # Empty
  <2>1. waiting' = "payload" /\ UNCHANGED <<port, get>>
    BY <1>1, <1>13
  <2>2. Tail(back) = <<[part |-> "payload", reply |-> d]>>
    BY <1>6, <1>8, <1>13, PartsOf
  <2>3. ClientType'
    BY <1>1, <1>2, <2>1 DEF IInv, ClientType, Running
  <2>4. Grows
    BY <1>10 DEF Grows
  <2>5. Gathering' /\ Returned'
    BY <2>1, <2>4, ResultsStay
  <2> DEFINE p == [part |-> "payload", reply |-> d]
  <2>6. back' = <<p>> /\ p.reply = d
    BY <1>2, <1>5, <2>2 DEF back
  <2>7. d' = d
    <3>1. Head(<<p>>) = p
      OBVIOUS
    <3>2. d' = Head(back').reply
      BY DEF d
    <3> HIDE DEF p
    <3> QED BY <2>6, <3>1, <3>2
  <2>8. Going(back, d)'
    <3>1. Asked' = Asked
      BY <2>1 DEF Asked
    <3>2. Fresh(d, Asked)'
      <4> HIDE DEF Asked
      <4> QED BY <1>6, <1>10, <2>7, <3>1 DEF Fresh
    <3>3. back' = <<[part |-> "payload", reply |-> d']>>
      BY <2>6, <2>7
    <3> QED BY <3>2, <3>3 DEF Going
  <2>9. Call'
    <3>1. waiting' # None /\ waiting' # "header"
      BY <2>1 DEF ConnectorAssumption
    <3>2. Handled' /\ Going(back, d)'
      BY <1>11, <2>8
    <3> HIDE DEF Handled, Going
    <3> QED BY <3>1, <3>2 DEF Call, back, d
  <2> QED BY <1>7, <1>9, <1>11, <1>12, <2>3, <2>5, <2>9 DEF IInv
<1>14. CASE waiting = "payload" \/ d = Empty
  <2>1. UNCHANGED port /\ Return(d)
    BY <1>1, <1>14
  <2>2. Tail(back) = <<>>
    <3>1. CASE waiting = "payload"
      <4>1. back = <<[part |-> "payload", reply |-> d]>>
        BY <1>6, <3>1
      <4> QED BY <4>1
    <3>2. CASE waiting = "header"
      BY <1>6, <1>8, <1>14, <3>2, PartsOf
    <3> QED BY <1>2, <3>1, <3>2
  <2>3. /\ waiting' = None /\ Gathering' /\ Returned'
        /\ get'.status \in {"running", "done", "error"}
        /\ get' = [text |-> get'.text, list |-> get'.list, results |-> get'.results,
                   status |-> get'.status]
    BY <1>2, <1>6, <1>10, <2>1, ReturnKeeps
  <2>4. ClientType'
    BY <1>1, <1>2, <2>3 DEF IInv, ClientType
  <2>5. Call'
    <3>1. waiting' # "header" /\ waiting' # "payload"
      BY <2>3 DEF ConnectorAssumption
    <3>2. down'[port'] = <<>> /\ NoGet(up'[port'])
      BY <1>2, <1>5, <1>7, <2>2 DEF NoGet
    <3> HIDE DEF NoGet
    <3> QED BY <2>3, <3>1, <3>2 DEF Call
  <2> QED BY <1>7, <1>9, <1>11, <1>12, <2>3, <2>4, <2>5 DEF IInv
<1> QED BY <1>2, <1>13, <1>14

-----------------------------------------------------------------------------
(* The theorems.                                                           *)

LEMMA InitKeeps == ConnectorAssumption /\ Init => IInv
<1> SUFFICES ASSUME ConnectorAssumption, Init PROVE IInv
  OBVIOUS
<1>1. <<>> \in Seq(Requests) /\ <<>> \in Seq(ReplyParts)
  OBVIOUS
<1>2. StoreType
  <2>1. PICK published \in SUBSET ToSet(Ids) : store \in [published -> Values]
    BY DEF Init
  <2> QED BY <2>1 DEF StoreType, IdSet
<1>3. /\ opened = 0 /\ accepted = 0 /\ current = None /\ hungUp = {} /\ ended = {}
      /\ up = [k \in Connections |-> <<>>] /\ down = [k \in Connections |-> <<>>]
      /\ port = None /\ waiting = None /\ calls = 0
      /\ get = [text |-> None, list |-> None, results |-> <<>>, status |-> "done"]
      /\ due = {} /\ seen = [id \in IdSet |-> {}]
  BY DEF Init, IdSet
<1>4. ServerType
  <2>1. MaxConnections \in Nat
    BY DEF ConnectorAssumption
  <2> QED BY <1>1, <1>2, <1>3, <2>1 DEF ServerType
<1>5. ClientType
  BY <1>3 DEF ClientType, Running
<1>6. Unused /\ Noted /\ Gathering /\ Call /\ Due
  BY <1>3 DEF Unused, Noted, Gathering, Call, Due, Running
<1>7. Returned
  BY <1>3 DEF Returned, AnswersAreCurrent, WildcardIsWhole, Texts, ConnectorAssumption
<1> QED BY <1>4, <1>5, <1>6, <1>7 DEF IInv

\* The invariant says what is checked.
LEMMA Implies == ConnectorAssumption /\ IInv => TypeOK /\ AnswersAreCurrent /\ WildcardIsWhole
<1> SUFFICES ASSUME ConnectorAssumption, IInv PROVE TypeOK /\ AnswersAreCurrent /\ WildcardIsWhole
  OBVIOUS
<1>1. TypeOK
  <2>1. /\ opened \in 0..MaxConnections /\ MaxConnections \in Nat /\ accepted \in 0..opened
        /\ hungUp \subseteq 1..opened /\ ended \subseteq 1..accepted
        /\ current \in {None} \cup ((1..accepted) \ ended)
    BY DEF IInv, ServerType, ConnectorAssumption
  <2>2. hungUp \cup ended \subseteq 1..opened /\ accepted <= opened
        /\ (current # None => current \in (1..accepted) \ ended)
    BY <2>1
  <2> QED BY <2>2 DEF IInv, ClientType, TypeOK
<1>2. CASE Running
  <2>1. WildcardIsWhole
    BY <1>2 DEF WildcardIsWhole, Running
  <2>2. AnswersAreCurrent
    <3>1. CASE get.results = <<>>
      BY <3>1 DEF AnswersAreCurrent
    <3>2. CASE Gathered(get.list, get.results)
      <4>1. get.list # None
        BY <3>2, NoneIsNoList DEF Gathered
      <4> QED BY <3>2, <4>1 DEF Gathered, Belongs, AnswersAreCurrent
    <3> QED BY <1>2, <3>1, <3>2 DEF IInv, Gathering
  <2> QED BY <1>1, <2>1, <2>2
<1>3. CASE ~ Running
  BY <1>1, <1>3 DEF IInv, Returned
<1> QED BY <1>2, <1>3
LEMMA Kept ==
    ASSUME ConnectorAssumption, IInv, UNCHANGED <<server, matlab, up, down>>
    PROVE  IInv'
<1>1. ClientIsIdle /\ UNCHANGED <<store, seen, up, down, due, accepted, ended, current>>
  BY DEF server, matlab, ClientIsIdle
<1>2. /\ accepted' \in 0..opened /\ ended' \subseteq 1..accepted'
      /\ current' \in {None} \cup ((1..accepted') \ ended')
  BY <1>1 DEF IInv, ServerType
<1> QED BY <1>1, <1>2, ConnectionKeeps

LEMMA StepKeeps == ConnectorAssumption /\ IInv /\ [Next]_connectorVars => IInv'
<1> SUFFICES ASSUME ConnectorAssumption, IInv, [Next]_connectorVars PROVE IInv'
  OBVIOUS
<1> HIDE DEF ConnectorAssumption
<1>1. ASSUME NEW id \in ToSet(Ids), NEW v \in Values, Publish(id, v) \/ Set(id, v) PROVE IInv'
  BY <1>1, PublishKeeps, SetKeeps
<1>2. ASSUME CloseProject \/ Accept \/ OtherClient PROVE IInv'
  BY <1>2, CloseProjectKeeps, AcceptKeeps, OtherClientKeeps
<1>3. ASSUME Handle PROVE IInv'
  BY <1>3, HandleSetKeeps, HandleGetKeeps
<1>4. ASSUME NEW k \in Connections, Disconnected(k) PROVE IInv'
  BY <1>4, DisconnectedKeeps
<1>5. ASSUME Connect \/ Disconnect PROVE IInv'
  BY <1>5, ConnectKeeps, DisconnectKeeps
<1>6. ASSUME NEW text \in Texts, Get(text) PROVE IInv'
  BY <1>6, GetKeeps
<1>7. ASSUME Request \/ Receive \/ ReceiveFails PROVE IInv'
  BY <1>7, RequestKeeps, ReceiveKeeps, ReceiveFailsKeeps
<1>8. ASSUME UNCHANGED connectorVars PROVE IInv'
  <2>1. UNCHANGED <<server, matlab, up, down>>
    BY <1>8 DEF connectorVars
  <2> QED BY <2>1, Kept
<1> QED BY <1>1, <1>2, <1>3, <1>4, <1>5, <1>6, <1>7, <1>8 DEF Next

\* The connection of the port is the one opened last, and open; and a call that
\* waits has one (TCPClient).
THEOREM TypeInvariant == ASSUME ConnectorAssumption PROVE Spec => []TypeOK
<1>1. Init => IInv
  BY InitKeeps
<1>2. IInv /\ [Next]_connectorVars => IInv'
  BY StepKeeps
<1>3. IInv => TypeOK
  BY Implies
<1> QED BY <1>1, <1>2, <1>3, PTL DEF Spec

\* A value that Get.m returns is one its id had while Get.m ran (getSingle,
\* getWildcard).
THEOREM AnswersAreCurrentInvariant ==
    ASSUME ConnectorAssumption PROVE Spec => []AnswersAreCurrent
<1>1. Init => IInv
  BY InitKeeps
<1>2. IInv /\ [Next]_connectorVars => IInv'
  BY StepKeeps
<1>3. IInv => AnswersAreCurrent
  BY Implies
<1> QED BY <1>1, <1>2, <1>3, PTL DEF Spec

\* A wildcard Get without an error lacks no value that was there all the time
\* (getWildcard, assertConnected).
THEOREM WildcardIsWholeInvariant ==
    ASSUME ConnectorAssumption PROVE Spec => []WildcardIsWhole
<1>1. Init => IInv
  BY InitKeeps
<1>2. IInv /\ [Next]_connectorVars => IInv'
  BY StepKeeps
<1>3. IInv => WildcardIsWhole
  BY Implies
<1> QED BY <1>1, <1>2, <1>3, PTL DEF Spec

\* Only a reply that is received ends a call whose connection stays.
LEMMA OnlyReceiveAnswers ==
    ASSUME ConnectorAssumption, IInv, Next, waiting # None, waiting' = None, port' # None
    PROVE  due = {}
<1>1. CASE Receive
  BY <1>1, ReceiveKeeps
<1>2. CASE ReceiveFails
  BY <1>2 DEF ReceiveFails, Discard
<1>3. ~ Request
  BY DEF Request
<1>4. Running
  BY DEF IInv, ClientType
<1>5. ~ Connect /\ ~ Disconnect /\ \A text \in Texts : ~ Get(text)
  BY <1>4 DEF Connect, Disconnect, Get
<1>6. \A id \in ToSet(Ids), v \in Values : ~ Publish(id, v) /\ ~ Set(id, v)
  BY <1>4 DEF Publish, matlab, Set
<1>7. ~ CloseProject /\ ~ Accept /\ ~ OtherClient /\ ~ Handle
      /\ \A k \in Connections : ~ Disconnected(k)
  BY DEF CloseProject, Accept, OtherClient, Handle, Disconnected, matlab
<1> QED BY <1>1, <1>2, <1>3, <1>5, <1>6, <1>7 DEF Next

\* An answer comes after the sets that were made over the connection before it
\* (SendDoubleData, SendStringData, ReceiveDoubleData).
THEOREM SetsArriveFirstAlways == ASSUME ConnectorAssumption PROVE Spec => SetsArriveFirst
<1>1. Init => IInv
  BY InitKeeps
<1>2. IInv /\ [Next]_connectorVars => IInv'
  BY StepKeeps
<1>3. IInv /\ [Next]_connectorVars
      => [waiting # None /\ waiting' = None /\ port' # None => due = {}]_connectorVars
  BY OnlyReceiveAnswers
<1> QED BY <1>1, <1>2, <1>3, PTL DEF Spec, SetsArriveFirst
=============================================================================
