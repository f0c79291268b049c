------------------------------ MODULE Connector ------------------------------
(***************************************************************************)
(* The MATLAB side of remote control (MatlabRemoteConnector/).  TCPClient  *)
(* keeps the connection of a port; every call that waits for the network   *)
(* gives up after two seconds and then forgets the connection.  Get.m asks *)
(* for an id or, given a pattern, for the ids that match and for each of   *)
(* them.                                                                   *)
(*                                                                         *)
(* The server is the one of RemoteControl, whose properties are taken for  *)
(* granted: it serves the connection accepted last, whole requests, each   *)
(* once and in order.  It may be slow, so that a reply comes after the     *)
(* call that asked for it has given up.                                    *)
(***************************************************************************)
EXTENDS Integers, Sequences, SequencesExt

CONSTANTS
    None,
    Ids,            \* the ids, in the order of the server's map
    Values,         \* values, as far as a reply with elements shows them
    Patterns,       \* texts with a star
    Matching,       \* text |-> the ids that a list for it holds, if published
    MaxConnections, \* bound: connections of this client
    MaxCalls,       \* bound: calls of Get.m and Set.m
    MaxChanges      \* bound: changes of the containers by others

Texts == ToSet(Ids) \cup Patterns

ConnectorAssumption == /\ None \notin Values /\ None \notin 1..MaxConnections
                       /\ None \notin Texts \cup {"header", "payload"}
                       /\ None \notin Seq(ToSet(Ids))
                       /\ Ids \in Seq(ToSet(Ids))
                       /\ Matching \in [Texts -> SUBSET ToSet(Ids)]
                       /\ MaxConnections \in Nat /\ MaxCalls \in Nat /\ MaxChanges \in Nat

VARIABLES
    store,      \* the server's containers: id |-> value
    opened,     \* the connections that were opened are 1..opened
    accepted,   \* ... of which the server has accepted 1..accepted
    current,    \* the server's current connection; None: there is none, or it
                \* is another client's
    hungUp,     \* connections whose client end is closed
    ended,      \* connections whose server end is closed
    up,         \* connection |-> requests that the server has not read
    down,       \* connection |-> parts of replies that the client has not read
    port,       \* states[port]: its connection, or None
    waiting,    \* the running ReceiveDoubleData: None, "header" or "payload"
    get,        \* the last Get.m: [text, list, results, status]
    calls,      \* how many calls of Get.m and Set.m were made
    changes,    \* how many changes of the containers by others
    \* history
    due,        \* the sets called on the connection of port that the server
                \* has not by number
    seen        \* id |-> its values while Get.m ran, None if unpublished

server == <<store, changes, accepted, current, ended, seen>>
matlab == <<opened, hungUp, port, waiting, get, calls, due>>
connectorVars == <<server, matlab, up, down>>

Connections == 1..MaxConnections
Running == get.status = "running"
Value(id) == IF id \in DOMAIN store THEN store[id] ELSE None

\* MATLAB may start long after the server.
Init == /\ store \in UNION {[published -> Values] : published \in SUBSET ToSet(Ids)}
        /\ changes = 0
        /\ opened = 0 /\ accepted = 0 /\ current = None
        /\ hungUp = {} /\ ended = {}
        /\ up = [k \in Connections |-> <<>>] /\ down = [k \in Connections |-> <<>>]
        /\ port = None /\ waiting = None /\ calls = 0
        /\ get = [text |-> None, list |-> None, results |-> <<>>, status |-> "done"]
        /\ due = {}
        /\ seen = [id \in ToSet(Ids) |-> {}]

-----------------------------------------------------------------------------
(* The server.                                                             *)

\* The containers become new; what Get.m might see in them is noted.
Changes(new) ==
    /\ store' = new
    /\ seen' = IF ~ Running THEN seen
               ELSE [id \in DOMAIN seen |->
                        seen[id] \cup {IF id \in DOMAIN new THEN new[id] ELSE None}]

Others == changes < MaxChanges /\ changes' = changes + 1

\* The containers with v under id
With(id, v) == [i \in DOMAIN store \cup {id} |-> IF i = id THEN v ELSE store[i]]

Publish(id, v) == /\ Others /\ Changes(With(id, v))
                  /\ UNCHANGED <<accepted, current, ended, matlab, up, down>>

CloseProject == /\ Others /\ Changes(<<>>)
                /\ UNCHANGED <<accepted, current, ended, matlab, up, down>>

\* RemoteControl!AcceptConnection
Accept == /\ accepted < opened
          /\ accepted' = accepted + 1
          /\ current' = accepted + 1
          /\ UNCHANGED <<store, changes, ended, seen, matlab, up, down>>

\* Another client is accepted.
OtherClient == /\ current' = None
               /\ UNCHANGED <<store, changes, accepted, ended, seen, matlab, up, down>>

\* RemoteControl!Disconnected
Disconnected(k) ==
    /\ k \in hungUp /\ k <= accepted /\ k \notin ended
    /\ current = k => up[k] = <<>>
    /\ ended' = ended \cup {k}
    /\ current' = IF current = k THEN None ELSE current
    /\ UNCHANGED <<store, changes, accepted, seen, matlab, up, down>>

\* The published ids that match, in the order of the map.
Listed(text) ==
    LET Add(list, id) == IF id \in DOMAIN store /\ id \in Matching[text]
                         THEN Append(list, id) ELSE list
    IN  FoldLeft(Add, <<>>, Ids)

\* The reply to a "get": the value of an id; for a pattern, or an id that is
\* not there, a list of ids.
Reply(text) == IF text \in DOMAIN store \ Patterns
               THEN [value |-> store[text], list |-> <<>>]
               ELSE [value |-> None, list |-> Listed(text)]

Empty == [value |-> None, list |-> <<>>]

\* A reply that has elements is read in two parts.
Parts(reply) ==
    IF reply = Empty THEN <<[part |-> "header", reply |-> reply]>>
    ELSE <<[part |-> "header", reply |-> reply], [part |-> "payload", reply |-> reply]>>

HandleSet(r) ==
    /\ IF r.text \in DOMAIN store THEN Changes(With(r.text, r.value))
                                  ELSE UNCHANGED <<store, seen>>
    /\ due' = due \ {r.number}
    /\ UNCHANGED <<current, ended, down>>

\* A reply goes to the client if it is still there.  One that would be larger
\* than MaxEncodedReplySize, be it a text or a list, aborts the connection, and
\* with it what was sent before may be lost.
HandleGet(r) ==
    /\ \/ /\ down' = IF current \in hungUp THEN down
                     ELSE [down EXCEPT ![current] = @ \o Parts(Reply(r.text))]
          /\ UNCHANGED <<ended, current>>
       \/ /\ Reply(r.text) # Empty
          /\ ended' = ended \cup {current} /\ current' = None
          /\ \E n \in 0..Len(down[current]) :
                down' = [down EXCEPT ![current] = SubSeq(@, 1, n)]
    /\ UNCHANGED <<store, seen, due>>

\* RemoteControl!ReadyRead, for a request
Handle ==
    /\ current # None /\ up[current] # <<>>
    /\ LET r == Head(up[current])
       IN  IF r.command = "set" THEN HandleSet(r) ELSE HandleGet(r)
    /\ up' = [up EXCEPT ![current] = Tail(@)]
    /\ UNCHANGED <<changes, accepted, opened, hungUp, port, waiting, get, calls>>

-----------------------------------------------------------------------------
(* TCPClient.                                                              *)

\* ~PortState closes the socket: nothing more is read, and if something was
\* unread, what is under way to the server may be lost.
Close(k) ==
    IF k = None THEN UNCHANGED <<hungUp, up, down>>
    ELSE /\ hungUp' = hungUp \cup {k}
         /\ down' = [down EXCEPT ![k] = <<>>]
         /\ \E n \in 0..Len(up[k]) : up' = [up EXCEPT ![k] = SubSeq(@, 1, n)]

\* The connection stays, with what it may still bring.
MutDiscard == UNCHANGED <<port, due, hungUp, up, down>>

\* states.erase(port)
Discard == port' = None /\ due' = {} /\ Close(port)

\* The new connection is made before the one it replaces is closed.
Connect ==
    /\ ~ Running /\ opened < MaxConnections
    /\ opened' = opened + 1
    /\ port' = opened + 1 /\ due' = {}
    /\ Close(port)
    /\ UNCHANGED <<server, waiting, get, calls>>

Disconnect ==
    /\ ~ Running /\ port # None
    /\ Discard
    /\ UNCHANGED <<server, opened, waiting, get, calls>>

\* sendFrame: the whole frame goes into the socket, which says nothing about
\* the server.
SendFrame(r) == /\ up' = [up EXCEPT ![port] = Append(@, r)]
                /\ UNCHANGED <<hungUp, down, port>>

\* What sendFrame returns is not looked at.
MutSet(id, v) ==
    LET r == [command |-> "set", text |-> id, value |-> v, number |-> calls + 1]
    IN  /\ ~ Running /\ port # None /\ calls < MaxCalls
        /\ calls' = calls + 1 /\ due' = due \cup {calls + 1}
        /\ SendFrame(r) \/ UNCHANGED <<hungUp, up, down, port>>
        /\ UNCHANGED <<server, opened, waiting, get>>

\* SendDoubleData, SendStringData: it returns 0 in any case.
Set(id, v) ==
    LET r == [command |-> "set", text |-> id, value |-> v, number |-> calls + 1]
    IN  /\ ~ Running /\ port # None /\ calls < MaxCalls
        /\ calls' = calls + 1
        /\ \/ SendFrame(r) /\ due' = due \cup {calls + 1}
           \/ Discard
        /\ UNCHANGED <<server, opened, waiting, get>>

-----------------------------------------------------------------------------
(* Get.m and ExReceive.m.                                                  *)

\* Get.m begins.
Get(text) ==
    /\ ~ Running /\ calls < MaxCalls
    /\ calls' = calls + 1
    /\ get' = [text |-> text, list |-> None, results |-> <<>>, status |-> "running"]
    /\ seen' = [id \in DOMAIN seen |-> {Value(id)}]
    /\ UNCHANGED <<store, changes, accepted, current, ended, opened, hungUp, port,
                   waiting, due, up, down>>

\* The id that is asked for, or first the pattern
Asked == IF get.list = None THEN get.text ELSE get.list[Len(get.results) + 1]

\* getWildcard goes on without a connection.
MutStatus(list, results) == IF Len(results) < Len(list) THEN "running" ELSE "done"

\* getWildcard after each answer: assertConnected raises the error; the next id
\* of the list is asked for.
Status(list, results) == IF port' = None THEN "error"
                         ELSE IF Len(results) < Len(list) THEN "running" ELSE "done"

\* ReceiveDoubleData returns, and ExReceive returns d.  getSingle returns it,
\* whatever became of the connection.
Return(d) ==
    LET first == get.list = None
        list == IF first THEN d.list ELSE get.list
        results == IF first THEN <<>> ELSE Append(get.results, d)
    IN  /\ waiting' = None
        /\ get' = IF get.text \in Patterns
                  THEN [get EXCEPT !.list = list, !.results = results,
                                   !.status = Status(list, results)]
                  ELSE [get EXCEPT !.results = <<d>>, !.status = "done"]

\* ReceiveDoubleData up to the reply; what it has from an earlier one is gone.
Request ==
    LET r == [command |-> "get", text |-> Asked, value |-> None, number |-> 0]
    IN  /\ Running /\ waiting = None
        /\ \/ port = None /\ UNCHANGED <<port, due, hungUp, up, down>> /\ Return(Empty)
           \/ port # None /\ SendFrame(r) /\ waiting' = "header" /\ UNCHANGED <<due, get>>
           \/ port # None /\ Discard /\ Return(Empty)
        /\ UNCHANGED <<server, opened, calls>>

\* receiveReply
Receive ==
    /\ waiting # None /\ down[port] # <<>>
    /\ down' = [down EXCEPT ![port] = Tail(@)]
    /\ LET d == Head(down[port]).reply
       IN  IF waiting = "header" /\ d # Empty
           THEN waiting' = "payload" /\ UNCHANGED <<port, get>>
           ELSE UNCHANGED port /\ Return(d)
    /\ UNCHANGED <<server, opened, hungUp, calls, due, up>>

\* receiveReply fails: two seconds have passed, or the peer closed.
ReceiveFails ==
    /\ waiting # None
    /\ Discard /\ Return(Empty)
    /\ UNCHANGED <<server, opened, calls>>

Next == \/ \E id \in ToSet(Ids), v \in Values : Publish(id, v) \/ Set(id, v)
        \/ CloseProject
        \/ Accept \/ OtherClient \/ Handle
        \/ \E k \in Connections : Disconnected(k)
        \/ Connect \/ Disconnect
        \/ \E text \in Texts : Get(text)
        \/ Request \/ Receive \/ ReceiveFails

Spec == Init /\ [][Next]_connectorVars

-----------------------------------------------------------------------------
(* Properties.                                                             *)

\* The connection of the port is the one opened last, and open; and a call that
\* waits has one.
TypeOK ==
    /\ port \in {None, opened} /\ port \notin hungUp
    /\ hungUp \cup ended \subseteq 1..opened /\ accepted <= opened
    /\ current # None => current \in (1..accepted) \ ended
    /\ waiting \in {None, "header", "payload"}
    /\ waiting # None => Running /\ port # None
    /\ get.status \in {"running", "done", "error"}

\* A value that Get returns is one that the id it belongs to had while Get was
\* running: never that of another id, and never a late reply to a call that had
\* given up.
AnswersAreCurrent ==
    \A i \in DOMAIN get.results :
        LET id == IF get.list = None THEN get.text ELSE get.list[i]
        IN  get.results[i].value \in {None} \cup (IF id \in Patterns THEN {} ELSE seen[id])

\* A Get of a pattern that returns without an error has a result for every id
\* that matches, a value, unless the id was not published for a while: nothing
\* that failed on the way is taken for an empty answer (assertConnected).  An
\* id that has a star itself is a pattern, for which the server has no value.
WildcardIsWhole ==
    get.text \in Patterns /\ get.status = "done" =>
        \A id \in Matching[get.text] \ Patterns :
            None \in seen[id] \/ \E i \in DOMAIN get.results :
                                    get.list[i] = id /\ get.results[i].value # None

\* When a call brings an answer, the server has handled every set that was made
\* over the connection before: Set returns at once, and says nothing itself.
SetsArriveFirst ==
    [][waiting # None /\ waiting' = None /\ port' # None => due = {}]_connectorVars
=============================================================================
