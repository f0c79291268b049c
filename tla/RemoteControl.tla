---------------------------- MODULE RemoteControl ----------------------------
(***************************************************************************)
(* The TCP server for remote control (RemoteControl/): any number of       *)
(* clients may be connected, one of them is the current one, the last that *)
(* was accepted.  Its bytes are cut into frames, frames are decoded into   *)
(* requests, and a "get" is answered.                                      *)
(*                                                                         *)
(* A request travels as two pieces, part 1 with the size prefix and part 2 *)
(* with the rest, which TCP may deliver apart, together, or with pieces of *)
(* other requests; what a client sent last may be lost when its connection *)
(* breaks.  The server runs in the GUI thread: accepting, reading and the  *)
(* end of a connection are one event handler each.                         *)
(***************************************************************************)
EXTENDS Naturals, Sequences, SequencesExt

CONSTANTS
    Clients,        \* one connection each
    Kinds,          \* the kinds of requests they send, of AllKinds
    NoClient,       \* no current socket
    MaxRequests     \* bound: requests of all clients

\* "get" and "set" of an id; "oversized": a "get" whose reply would exceed
\* MaxFrameSize; "malformed": sized correctly, but DecodeValidatedFrame rejects
\* it, or a "set" of a number without 8 bytes; "badprefix": a size below 16 or
\* above MaxFrameSize.
AllKinds == {"get", "set", "oversized", "malformed", "badprefix"}

ASSUME ClientsAssumption == /\ NoClient \notin Clients
                            /\ Kinds \subseteq AllKinds
                            /\ MaxRequests \in Nat

VARIABLES
    sent,       \* client |-> the kinds of its requests, in order
    wire,       \* client |-> pieces that the server has not received
    hungUp,     \* clients whose end is closed, or whose connection broke
    state,      \* client |-> "new", "pending", "accepted" or "closed"
    backlog,    \* pending connections of tcpServer, oldest first
    inbox,      \* client |-> pieces in the read buffer of its socket
    current,    \* ConnectionState: CurrentSocket
    buffer,     \* ConnectionState: Buffer of FrameSplitter
    accepted,   \* history: the clients in the order of their acceptance
    handled,    \* history: client |-> frames acted upon while it was current
    replies     \* history: client |-> numbers of the requests answered to it

client == <<sent, hungUp>>
vars == <<sent, wire, hungUp, state, backlog, inbox, current, buffer,
          accepted, handled, replies>>

\* The pieces of a request, the n-th of its client.
Piece(c, n, part, kind) == [client |-> c, number |-> n, part |-> part, kind |-> kind]
Request(c, n, kind) == <<Piece(c, n, 1, kind), Piece(c, n, 2, kind)>>

-----------------------------------------------------------------------------
(* Framing and decoding.                                                   *)

\* RemoteControlFrameSplitter::TakeFrame: what it returns, the frame, and what
\* stays in the buffer.  Any part 1 at the front is read as a size; the frame
\* then is as long as that says, whosever pieces follow.
TakeFrame(b) ==
    IF b # <<>> /\ Head(b).kind = "badprefix"
    THEN [result |-> "InvalidPrefix", frame |-> <<>>, rest |-> <<>>]
    ELSE IF Len(b) < 2
    THEN [result |-> "Incomplete", frame |-> <<>>, rest |-> b]
    ELSE [result |-> "Complete", frame |-> SubSeq(b, 1, 2), rest |-> SubSeq(b, 3, Len(b))]

\* One round of the inner loop of HeaderReceived.  A frame that does not decode
\* is passed over; the reply goes to the current socket.
Round(s) ==
    LET t == TakeFrame(s.buffer)
        kind == t.frame[1].kind
        next == [s EXCEPT !.buffer = t.rest]
        acted == [next EXCEPT !.handled = Append(@, t.frame)]
    IN  CASE t.result = "Incomplete" -> [s EXCEPT !.run = "stop"]
          [] t.result = "InvalidPrefix" -> [next EXCEPT !.run = "abort"]
          [] t.result = "Complete" /\ kind = "malformed" -> next
          [] t.result = "Complete" /\ kind = "set" -> acted
          [] t.result = "Complete" /\ kind = "oversized" -> [acted EXCEPT !.run = "abort"]
          [] t.result = "Complete" /\ kind = "get" ->
                [acted EXCEPT !.replies = Append(@, t.frame[1].number)]

\* One frame for each readyRead.
MutRounds(s) == Round(s)

\* The loop, until a frame is incomplete or the connection is aborted.
Rounds(s) ==
    LET Turn(r, piece) == IF r.run = "go" THEN Round(r) ELSE r
    IN  FoldLeft(Turn, s, s.buffer)

-----------------------------------------------------------------------------
Init == /\ sent = [c \in Clients |-> <<>>]
        /\ wire = [c \in Clients |-> <<>>]
        /\ hungUp = {}
        /\ state = [c \in Clients |-> "new"]
        /\ backlog = <<>>
        /\ inbox = [c \in Clients |-> <<>>]
        /\ current = NoClient
        /\ buffer = <<>>
        /\ accepted = <<>>
        /\ handled = [c \in Clients |-> <<>>]
        /\ replies = [c \in Clients |-> <<>>]

(* Clients.                                                                *)

Connect(c) == /\ state[c] = "new"
              /\ state' = [state EXCEPT ![c] = "pending"]
              /\ backlog' = Append(backlog, c)
              /\ UNCHANGED <<client, wire, inbox, current, buffer, accepted,
                             handled, replies>>

Send(c, kind) ==
    /\ state[c] \in {"pending", "accepted"} /\ c \notin hungUp
    /\ FoldFunction(LAMBDA q, n : Len(q) + n, 0, sent) < MaxRequests
    /\ sent' = [sent EXCEPT ![c] = Append(@, kind)]
    /\ wire' = [wire EXCEPT ![c] = @ \o Request(c, Len(sent[c]) + 1, kind)]
    /\ UNCHANGED <<hungUp, state, backlog, inbox, current, buffer, accepted,
                   handled, replies>>

HangUp(c) == /\ state[c] \in {"pending", "accepted"} /\ c \notin hungUp
             /\ hungUp' = hungUp \cup {c}
             /\ UNCHANGED <<sent, wire, state, backlog, inbox, current, buffer,
                            accepted, handled, replies>>

\* The connection breaks; what was under way is lost.
Break(c) == /\ state[c] = "accepted" /\ c \notin hungUp
            /\ hungUp' = hungUp \cup {c}
            /\ wire' = [wire EXCEPT ![c] = <<>>]
            /\ UNCHANGED <<sent, state, backlog, inbox, current, buffer, accepted,
                           handled, replies>>

(* The server.                                                             *)

\* What the previous client left in the splitter stays there.
MutSetCurrentSocket(c) == current' = c /\ buffer' = buffer

\* ConnectionState.SetCurrentSocket
SetCurrentSocket(c) == current' = c /\ buffer' = <<>>

AcceptConnection ==
    /\ backlog # <<>>
    /\ state' = [state EXCEPT ![Head(backlog)] = "accepted"]
    /\ backlog' = Tail(backlog)
    /\ SetCurrentSocket(Head(backlog))
    /\ accepted' = Append(accepted, Head(backlog))
    /\ UNCHANGED <<client, wire, inbox, handled, replies>>

\* A slot that ends any connection resets the current one.
MutResetAlways(c, b) == current' = NoClient /\ buffer' = <<>>

\* The slot connected to disconnected(): ConnectionState.ResetIfCurrent.  b is
\* what the splitter holds at this point.
ResetIfCurrent(c, b) == IF c = current
                        THEN current' = NoClient /\ buffer' = <<>>
                        ELSE current' = current /\ buffer' = b

\* HeaderReceived reads the current socket, whichever socket was ready.
HeaderReceived(ready) ==
    LET s == Rounds([buffer |-> buffer \o ready[current], run |-> "go",
                     handled |-> handled[current], replies |-> replies[current]])
    IN  IF current = NoClient \/ ready[current] = <<>>
        THEN /\ inbox' = ready
             /\ UNCHANGED <<state, current, buffer, handled, replies>>
        ELSE /\ inbox' = [ready EXCEPT ![current] = <<>>]
             /\ handled' = [handled EXCEPT ![current] = s.handled]
             /\ replies' = [replies EXCEPT ![current] = s.replies]
             /\ IF s.run = "abort"
                THEN /\ state' = [state EXCEPT ![current] = "closed"]
                     /\ ResetIfCurrent(current, s.buffer)
                ELSE /\ buffer' = s.buffer
                     /\ UNCHANGED <<state, current>>

\* Pieces arrive at the socket of c, which emits readyRead.
ReadyRead(c) ==
    /\ state[c] = "accepted"
    /\ \E n \in 1..Len(wire[c]) :
          /\ HeaderReceived([inbox EXCEPT ![c] = @ \o SubSeq(wire[c], 1, n)])
          /\ wire' = [wire EXCEPT ![c] = SubSeq(@, n + 1, Len(@))]
    /\ UNCHANGED <<client, backlog, accepted>>

\* The end of a connection is noticed when everything that arrived is read.
Disconnected(c) ==
    /\ state[c] = "accepted" /\ c \in hungUp /\ wire[c] = <<>>
    /\ state' = [state EXCEPT ![c] = "closed"]
    /\ ResetIfCurrent(c, buffer)
    /\ UNCHANGED <<client, wire, backlog, inbox, accepted, handled, replies>>

ClientStep == \/ \E c \in Clients : Connect(c) \/ HangUp(c) \/ Break(c)
              \/ \E c \in Clients, kind \in Kinds : Send(c, kind)

ServerStep == \/ AcceptConnection
              \/ \E c \in Clients : ReadyRead(c) \/ Disconnected(c)

Next == ClientStep \/ ServerStep

Spec == Init /\ [][Next]_vars

\* The event loop of the server does not stop while there is something for it
\* to do; which of the sockets it turns to next is left open.
Fairness == WF_vars(ServerStep)

FairSpec == Spec /\ Fairness

-----------------------------------------------------------------------------
(* Properties.                                                             *)

WellFormed == {"get", "set", "oversized"}

\* Of the first k requests of c, the frames are those that are well-formed, each
\* once and in order.
AreFirst(c, requests, frames, k) ==
    /\ \A i \in DOMAIN frames : \E n \in 1..k :
          requests[n] \in WellFormed /\ frames[i] = Request(c, n, requests[n])
    /\ \A i, j \in DOMAIN frames : i < j => frames[i][1].number < frames[j][1].number
    /\ \A n \in 1..k : requests[n] \in WellFormed =>
          \E i \in DOMAIN frames : frames[i][1].number = n

\* Every frame the server acts upon is a request of the client it has current,
\* whole; and of a client's well-formed requests it acts upon the first ones,
\* in order, each once.  So no request is made of pieces of two clients, none
\* is skipped and none repeated, however the stream is cut and whoever connects
\* in between.
WholeRequestsInOrder ==
    \A c \in Clients : \E k \in 0..Len(sent[c]) :
        AreFirst(c, sent[c], handled[c], k)

\* The client that was accepted last is served as long as it is connected, and no
\* client longer than that: the end of an older connection does not take its
\* place away.
LatestIsServed ==
    /\ accepted # <<>> /\ state[Last(accepted)] = "accepted" => current = Last(accepted)
    /\ current # NoClient => state[current] = "accepted"

Unanswered(c) == {n \in DOMAIN sent[c] : sent[c][n] = "get"} \ ToSet(replies[c])

\* Every "get" of the current client is answered, unless the client loses its
\* place or its connection first.
GetIsAnswered ==
    \A c \in Clients :
        (current = c /\ Unanswered(c) # {}) ~> (current # c \/ Unanswered(c) = {})
=============================================================================
