------------------------ MODULE RemoteControlProofs ------------------------
(***************************************************************************)
(* The client accepted last keeps its place, and of what a client sends    *)
(* whole requests are acted upon, in order and each once: proved for any   *)
(* set of clients, kinds and number of requests.                           *)
(*                                                                         *)
(* For LatestIsServed it does not matter what the loop of HeaderReceived   *)
(* makes of the frames, only whether it ends with abort(): Rounds is not   *)
(* expanded.  For WholeRequestsInOrder it does: the pieces in the splitter *)
(* and those under way, one after the other, are the stream of the current *)
(* client behind the requests that are done, and each round of the loop    *)
(* moves that border by one request.                                       *)
(***************************************************************************)
EXTENDS RemoteControl, Induction, SequenceTheorems, TLAPS

\* The values of the variables that decide who is served.
ServingType == /\ state \in [Clients -> {"new", "pending", "accepted", "closed"}]
               /\ backlog \in Seq(Clients)
               /\ accepted \in Seq(Clients)
               /\ current \in Clients \cup {NoClient}

IInv == ServingType /\ LatestIsServed

\* What a list holds last, after one more is added (accepted, AcceptConnection).
LEMMA LastOfAppend ==
    ASSUME NEW S, NEW s \in Seq(S), NEW e \in S
    PROVE  Append(s, e) # <<>> /\ Last(Append(s, e)) = e
<1>1. Len(Append(s, e)) = Len(s) + 1 /\ Append(s, e)[Len(s) + 1] = e
  OBVIOUS
<1>2. Append(s, e) # <<>>
  BY <1>1
<1> QED
  BY <1>1, <1>2 DEF Last

\* The last of a list is one of its elements.
LEMMA LastIsIn ==
    ASSUME NEW S, NEW s \in Seq(S), s # <<>>
    PROVE  Last(s) \in S
<1>1. Len(s) \in Nat \ {0}
  OBVIOUS
<1> QED
  BY <1>1 DEF Last

\* A step in which nobody is accepted, and state, current and accepted follow
\* one pattern: at most the connection of c ends, and c loses its place.
LEMMA EndKeepsPlace ==
    ASSUME ClientsAssumption, IInv, NEW c \in Clients,
           state' = [state EXCEPT ![c] = "closed"],
           current' = IF c = current THEN NoClient ELSE current,
           UNCHANGED <<backlog, accepted>>
    PROVE  IInv'
<1>1. ServingType'
  BY DEF IInv, ServingType
<1>2. ASSUME accepted # <<>>, state'[Last(accepted)] = "accepted"
      PROVE  current' = Last(accepted)
  <2>1. Last(accepted) \in Clients
    BY <1>2, LastIsIn DEF IInv, ServingType
  <2>2. Last(accepted) # c /\ state[Last(accepted)] = "accepted"
    BY <1>2, <2>1 DEF IInv, ServingType
  <2> QED
    BY <1>2, <2>2 DEF IInv, LatestIsServed
<1>3. ASSUME current' # NoClient
      PROVE  state'[current'] = "accepted"
  BY <1>3 DEF IInv, ServingType, LatestIsServed
<1> QED
  BY <1>1, <1>2, <1>3 DEF IInv, LatestIsServed

\* HeaderReceived, whatever the loop makes of the frames: it leaves things as
\* they are, or it aborts the current connection.
LEMMA HeaderReceivedKeeps ==
    ASSUME ClientsAssumption, IInv, NEW ready, HeaderReceived(ready),
           UNCHANGED <<backlog, accepted>>
    PROVE  IInv'
<1>1. CASE UNCHANGED <<state, current>>
  BY <1>1 DEF IInv, ServingType, LatestIsServed
<1>2. CASE ~ UNCHANGED <<state, current>>
  <2>1. /\ current # NoClient
        /\ state' = [state EXCEPT ![current] = "closed"]
        /\ current' = NoClient
    BY <1>2 DEF HeaderReceived, ResetIfCurrent
  <2>2. current \in Clients
    BY <2>1 DEF IInv, ServingType
  <2> QED
    BY <2>1, <2>2, EndKeepsPlace
<1> QED
  BY <1>1, <1>2

\* Every step of a client or of the server keeps the invariant.
LEMMA Step == ClientsAssumption /\ IInv /\ [Next]_vars => IInv'
<1> SUFFICES ASSUME ClientsAssumption, IInv, [Next]_vars
             PROVE  IInv'
  OBVIOUS
<1>1. ASSUME NEW c \in Clients, Connect(c)
      PROVE  IInv'
  <2>1. state[c] = "new" /\ state' = [state EXCEPT ![c] = "pending"]
    BY <1>1 DEF Connect
  <2>2. ServingType' /\ UNCHANGED <<accepted, current>>
    BY <1>1 DEF Connect, IInv, ServingType
  <2>3. \A d \in Clients : state'[d] = "accepted" <=> state[d] = "accepted"
    BY <2>1 DEF IInv, ServingType
  <2>4. accepted # <<>> => Last(accepted) \in Clients
    BY LastIsIn DEF IInv, ServingType
  <2>5. current # NoClient => current \in Clients
    BY DEF IInv, ServingType
  <2> QED
    BY <2>2, <2>3, <2>4, <2>5 DEF IInv, LatestIsServed
<1>2. ASSUME NEW c \in Clients,
             HangUp(c) \/ Break(c) \/ \E kind \in Kinds : Send(c, kind)
      PROVE  IInv'
  <2>1. UNCHANGED <<state, backlog, accepted, current>>
    BY <1>2 DEF HangUp, Break, Send
  <2> QED
    BY <2>1 DEF IInv, ServingType, LatestIsServed
<1>3. CASE AcceptConnection
  <2> DEFINE c == Head(backlog)
  <2>1. c \in Clients /\ Tail(backlog) \in Seq(Clients)
    BY <1>3 DEF AcceptConnection, IInv, ServingType
  <2>2. /\ state' = [state EXCEPT ![c] = "accepted"]
        /\ backlog' = Tail(backlog)
        /\ current' = c
        /\ accepted' = Append(accepted, c)
    BY <1>3 DEF AcceptConnection, SetCurrentSocket
  <2>3. accepted \in Seq(Clients) /\ Last(accepted') = c
    BY <2>1, <2>2, LastOfAppend DEF IInv, ServingType
  <2>4. ServingType' /\ state'[c] = "accepted"
    BY <2>1, <2>2, <2>3 DEF IInv, ServingType
  <2> QED
    BY <2>2, <2>3, <2>4 DEF IInv, LatestIsServed
<1>4. ASSUME NEW c \in Clients, ReadyRead(c)
      PROVE  IInv'
  <2>1. PICK ready : HeaderReceived(ready)
    BY <1>4 DEF ReadyRead
  <2> QED
    BY <1>4, <2>1, HeaderReceivedKeeps DEF ReadyRead
<1>5. ASSUME NEW c \in Clients, Disconnected(c)
      PROVE  IInv'
  BY <1>5, EndKeepsPlace DEF Disconnected, ResetIfCurrent
<1>6. CASE UNCHANGED vars
  BY <1>6 DEF vars, IInv, ServingType, LatestIsServed
<1> QED
  BY <1>1, <1>2, <1>3, <1>4, <1>5, <1>6 DEF Next, ClientStep, ServerStep

\* The client that was accepted last is served for as long as its connection
\* lasts, and nobody is served whose connection is gone: SetCurrentSocket and
\* ResetIfCurrent of ConnectionState, in whatever order connections come, end
\* and are aborted.
THEOREM LatestIsServedInvariant == ASSUME ClientsAssumption
                                   PROVE  Spec => []LatestIsServed
<1>1. Init => IInv
  BY ClientsAssumption DEF Init, IInv, ServingType, LatestIsServed
<1>2. IInv /\ [Next]_vars => IInv'
  BY Step, ClientsAssumption
<1>3. IInv => LatestIsServed
  BY DEF IInv
<1> QED
  BY <1>1, <1>2, <1>3, PTL DEF Spec

-----------------------------------------------------------------------------
(* The stream of a client.                                                 *)

Pieces == [client : Clients, number : Nat \ {0}, part : {1, 2}, kind : AllKinds]
Runs == {"go", "stop", "abort"}

StreamType == /\ sent \in [Clients -> Seq(Kinds)]
              /\ wire \in [Clients -> Seq(Pieces)]
              /\ inbox \in [Clients -> Seq(Pieces)]
              /\ buffer \in Seq(Pieces)
              /\ handled \in [Clients -> Seq(Seq(Pieces))]
              /\ replies \in [Clients -> Seq(Nat)]

\* The p-th piece of a stream is this part of the request after the first n.
At(p, n, part) == p = 2 * n + part

\* The pieces q are those of the requests of c that follow the first `from`.
Continues(c, requests, q, from) ==
    \A i \in DOMAIN q, n \in Nat, part \in {1, 2} :
        At(from + i, n, part) =>
            /\ n + 1 \in DOMAIN requests
            /\ q[i] = Piece(c, n + 1, part, requests[n + 1])

\* The state of the loop: of the requests, k are done, and the buffer goes on
\* where they end, with a total of pieces that does not change.
LoopState(c, requests, total, r) ==
    \E k \in 0..Len(requests) :
        /\ AreFirst(c, requests, r.handled, k)
        /\ r.run # "abort" => /\ Continues(c, requests, r.buffer, 2 * k)
                              /\ 2 * k + Len(r.buffer) = total

LoopStates == [buffer : Seq(Pieces), run : Runs, handled : Seq(Seq(Pieces)), replies : Seq(Nat)]

\* The elements of two lists, one after the other.
LEMMA Joined ==
    ASSUME NEW S, NEW a \in Seq(S), NEW b \in Seq(S)
    PROVE  /\ a \o b \in Seq(S) /\ Len(a \o b) = Len(a) + Len(b)
           /\ Len(a) \in Nat /\ Len(b) \in Nat
           /\ \A i \in DOMAIN (a \o b) : i \in DOMAIN a \/ i - Len(a) \in DOMAIN b
           /\ \A i \in DOMAIN a : (a \o b)[i] = a[i]
           /\ \A i \in DOMAIN b : (a \o b)[Len(a) + i] = b[i]
<1> DEFINE w == a \o b
<1>1. w \in Seq(S) /\ Len(w) = Len(a) + Len(b)
  BY ConcatProperties
<1>2. \A i \in 1..(Len(a) + Len(b)) : w[i] = IF i <= Len(a) THEN a[i] ELSE b[i - Len(a)]
  BY ConcatProperties
<1> HIDE DEF w
<1> DEFINE l == Len(a)
           m == Len(b)
<1>3. l \in Nat /\ m \in Nat /\ DOMAIN a = 1..l /\ DOMAIN b = 1..m /\ DOMAIN w = 1..(l + m)
  BY <1>1
<1>4. \A i \in 1..(l + m) : w[i] = IF i <= l THEN a[i] ELSE b[i - l]
  BY <1>2
<1> HIDE DEF l, m
<1>5. \A i \in DOMAIN w : i \in DOMAIN a \/ i - l \in DOMAIN b
  BY <1>3
<1>6. \A i \in DOMAIN a : w[i] = a[i]
  BY <1>3, <1>4
<1>7. ASSUME NEW i \in DOMAIN b
      PROVE  w[l + i] = b[i]
  <2> DEFINE j == l + i
  <2>1. j \in 1..(l + m) /\ ~(j <= l) /\ j - l = i
    BY <1>3
  <2> HIDE DEF j
  <2>2. w[j] = b[j - l]
    BY <1>4, <2>1
  <2> QED BY <2>1, <2>2 DEF j
<1> QED BY <1>1, <1>3, <1>5, <1>6, <1>7 DEF l, m, w

\* The pieces of a request.
LEMMA RequestType ==
    ASSUME NEW c \in Clients, NEW n \in Nat \ {0}, NEW kind \in AllKinds
    PROVE  /\ Request(c, n, kind) \in Seq(Pieces) /\ Len(Request(c, n, kind)) = 2
           /\ Request(c, n, kind)[1] = Piece(c, n, 1, kind)
           /\ Request(c, n, kind)[2] = Piece(c, n, 2, kind)
<1> DEFINE p == Piece(c, n, 1, kind)
           q == Piece(c, n, 2, kind)
<1>1. p \in Pieces /\ q \in Pieces
  BY DEF Piece, Pieces
<1> HIDE DEF p, q
<1>2. <<p, q>> \in Seq(Pieces) /\ Len(<<p, q>>) = 2 /\ <<p, q>>[1] = p /\ <<p, q>>[2] = q
  BY <1>1
<1> QED BY <1>2 DEF Request, p, q

\* What is acted upon next comes after what was.
LEMMA OneMore ==
    ASSUME ClientsAssumption, NEW c \in Clients, NEW requests \in Seq(Kinds),
           NEW h \in Seq(Seq(Pieces)), NEW k \in Nat, k + 1 \in 1..Len(requests),
           AreFirst(c, requests, h, k)
    PROVE  /\ requests[k + 1] \notin WellFormed => AreFirst(c, requests, h, k + 1)
           /\ requests[k + 1] \in WellFormed =>
                 AreFirst(c, requests, Append(h, Request(c, k + 1, requests[k + 1])), k + 1)
<1>1. \A n \in 1..(k + 1) : n \in 1..k \/ n = k + 1
  OBVIOUS
<1>2. \A n \in 1..k : n \in 1..(k + 1)
  OBVIOUS
<1>3. ASSUME requests[k + 1] \notin WellFormed
      PROVE  AreFirst(c, requests, h, k + 1)
  BY <1>1, <1>2, <1>3 DEF AreFirst
<1>4. ASSUME requests[k + 1] \in WellFormed
      PROVE  AreFirst(c, requests, Append(h, Request(c, k + 1, requests[k + 1])), k + 1)
  <2> DEFINE frame == Request(c, k + 1, requests[k + 1])
             g == Append(h, frame)
  <2>1. frame[1].number = k + 1
    BY DEF Request, Piece
  <2> HIDE DEF frame
  <2>2. /\ DOMAIN h = 1..Len(h) /\ Len(h) \in Nat /\ DOMAIN g = 1..(Len(h) + 1)
        /\ \A i \in 1..Len(h) : g[i] = h[i]
        /\ g[Len(h) + 1] = frame
    <3>1. frame \in Seq(Pieces)
      BY RequestType DEF frame, ClientsAssumption
    <3> QED BY <3>1
  <2> HIDE DEF g
  <2>3. \A i \in DOMAIN g : i \in DOMAIN h \/ i = Len(h) + 1
    BY <2>2
  <2>4. \A i \in DOMAIN h : h[i][1].number \in 1..k
    BY DEF AreFirst, Request, Piece
  <2>5. ASSUME NEW i \in DOMAIN g
        PROVE  \E n \in 1..(k + 1) :
                 requests[n] \in WellFormed /\ g[i] = Request(c, n, requests[n])
    <3>1. CASE i \in DOMAIN h
      <4>1. PICK n \in 1..k : requests[n] \in WellFormed /\ h[i] = Request(c, n, requests[n])
        BY <3>1 DEF AreFirst
      <4> QED BY <1>2, <2>2, <3>1, <4>1
    <3>2. CASE i = Len(h) + 1
      BY <1>4, <2>2, <3>2 DEF frame
    <3> QED BY <2>3, <3>1, <3>2
  <2>6. ASSUME NEW i \in DOMAIN g, NEW j \in DOMAIN g, i < j
        PROVE  g[i][1].number < g[j][1].number
    <3>1. i \in DOMAIN h
      BY <2>2, <2>6
    <3>2. CASE j \in DOMAIN h
      BY <2>2, <2>6, <3>1, <3>2 DEF AreFirst
    <3>3. CASE j = Len(h) + 1
      <4>1. h[i][1].number \in 1..k
        BY <2>4, <3>1
      <4>2. g[i] = h[i] /\ g[j] = frame
        BY <2>2, <3>1, <3>3
      <4> QED BY <2>1, <4>1, <4>2
    <3> QED BY <2>3, <3>2, <3>3
  <2>7. ASSUME NEW n \in 1..(k + 1), requests[n] \in WellFormed
        PROVE  \E i \in DOMAIN g : g[i][1].number = n
    <3>1. CASE n \in 1..k
      <4>1. PICK i \in DOMAIN h : h[i][1].number = n
        BY <2>7, <3>1 DEF AreFirst
      <4> QED BY <2>2, <4>1
    <3>2. CASE n = k + 1
      <4>1. Len(h) + 1 \in DOMAIN g /\ g[Len(h) + 1][1].number = n
        BY <2>1, <2>2, <3>2
      <4> QED BY <4>1
    <3> QED BY <1>1, <3>1, <3>2
  <2>8. AreFirst(c, requests, g, k + 1)
    BY <2>5, <2>6, <2>7 DEF AreFirst
  <2> QED BY <2>8 DEF g, frame
<1> QED BY <1>3, <1>4

\* The first two pieces of a buffer are a request, and the rest goes on behind it.
LEMMA FrameIsRequest ==
    ASSUME NEW c, NEW requests \in Seq(Kinds), NEW b \in Seq(Pieces), NEW k \in Nat,
           Len(b) >= 2, Continues(c, requests, b, 2 * k)
    PROVE  /\ k + 1 \in 1..Len(requests)
           /\ SubSeq(b, 1, 2) = Request(c, k + 1, requests[k + 1])
           /\ Head(b).kind = requests[k + 1]
           /\ SubSeq(b, 3, Len(b)) \in Seq(Pieces)
           /\ Len(SubSeq(b, 3, Len(b))) = Len(b) - 2
           /\ Continues(c, requests, SubSeq(b, 3, Len(b)), 2 * (k + 1))
<1>1. 1 \in DOMAIN b /\ 2 \in DOMAIN b /\ 2 * k + 1 = 2 * k + 1 /\ 2 * k + 2 = 2 * k + 2
  OBVIOUS
<1>2. /\ k + 1 \in DOMAIN requests
      /\ b[1] = Piece(c, k + 1, 1, requests[k + 1])
      /\ b[2] = Piece(c, k + 1, 2, requests[k + 1])
  BY <1>1 DEF Continues, At
<1>3. SubSeq(b, 1, 2) = <<b[1], b[2]>>
  <2> DEFINE f == SubSeq(b, 1, 2)
  <2>1. \A i \in 1..2 : b[i] \in Pieces
    OBVIOUS
  <2>2. f \in Seq(Pieces) /\ Len(f) = 2 /\ f[1] = b[1] /\ f[2] = b[2]
    BY <2>1, SubSeqProperties
  <2> HIDE DEF f
  <2>3. f = <<b[1], b[2]>>
    BY <2>1, <2>2
  <2> QED BY <2>3 DEF f
<1>4. Head(b) = b[1]
  BY <1>1
<1> DEFINE rest == SubSeq(b, 3, Len(b))
<1>5. /\ rest \in Seq(Pieces) /\ Len(rest) = Len(b) - 2 /\ DOMAIN rest = 1..(Len(b) - 2)
      /\ \A i \in 1..(Len(b) - 2) : rest[i] = b[i + 2]
  <2>1. 3 \in Int /\ Len(b) \in Int /\ \A i \in 3..Len(b) : b[i] \in Pieces
    OBVIOUS
  <2>2. /\ rest \in Seq(Pieces)
        /\ Len(rest) = IF 3 <= Len(b) THEN Len(b) - 3 + 1 ELSE 0
        /\ \A i \in 1..(Len(b) - 3 + 1) : rest[i] = b[3 + i - 1]
    BY <2>1, SubSeqProperties
  <2> HIDE DEF rest
  <2>3. Len(b) \in Nat /\ Len(b) - 3 + 1 = Len(b) - 2
    OBVIOUS
  <2>4. Len(rest) = Len(b) - 2
    <3>1. Len(rest) = IF 3 <= Len(b) THEN Len(b) - 3 + 1 ELSE 0
      BY <2>2
    <3>2. CASE 3 <= Len(b)
      BY <2>3, <3>1, <3>2
    <3>3. CASE ~(3 <= Len(b))
      <4>1. Len(b) = 2
        BY <2>3, <3>3
      <4> QED BY <3>1, <3>3, <4>1
    <3> QED BY <3>2, <3>3
  <2>5. \A i \in 1..(Len(b) - 2) : rest[i] = b[i + 2]
    <3> SUFFICES ASSUME NEW i \in 1..(Len(b) - 2) PROVE rest[i] = b[i + 2]
      OBVIOUS
    <3>1. 3 + i - 1 = i + 2 /\ i \in 1..(Len(b) - 3 + 1)
      BY <2>3
    <3> QED BY ONLY <2>2, <3>1
  <2> QED BY <2>2, <2>4, <2>5
<1> HIDE DEF rest
<1>6. Continues(c, requests, rest, 2 * (k + 1))
  <2> SUFFICES ASSUME NEW i \in DOMAIN rest, NEW n \in Nat, NEW part \in {1, 2},
                      2 * (k + 1) + i = 2 * n + part
               PROVE  /\ n + 1 \in DOMAIN requests
                      /\ rest[i] = Piece(c, n + 1, part, requests[n + 1])
    BY DEF Continues, At
  <2>1. i \in 1..(Len(b) - 2)
    BY <1>5
  <2>2. i + 2 \in DOMAIN b /\ rest[i] = b[i + 2]
    BY <1>5, <2>1
  <2>3. 2 * k + (i + 2) = 2 * n + part
    BY <2>1
  <2> QED BY <2>2, <2>3 DEF Continues, At
<1> QED BY <1>2, <1>3, <1>4, <1>5, <1>6 DEF rest, Request, Piece

\* One round.
LEMMA RoundKeeps ==
    ASSUME ClientsAssumption, NEW c \in Clients, NEW requests \in Seq(Kinds), NEW total \in Nat,
           NEW r \in LoopStates, LoopState(c, requests, total, r), r.run = "go"
    PROVE  Round(r) \in LoopStates /\ LoopState(c, requests, total, Round(r))
<1> DEFINE b == r.buffer
           t == TakeFrame(b)
<1>1. b \in Seq(Pieces) /\ r.handled \in Seq(Seq(Pieces)) /\ r.replies \in Seq(Nat)
  BY DEF LoopStates
<1>2. PICK k \in 0..Len(requests) :
        /\ AreFirst(c, requests, r.handled, k)
        /\ Continues(c, requests, b, 2 * k)
        /\ 2 * k + Len(b) = total
  BY DEF LoopState
<1>3. CASE b # <<>> /\ Head(b).kind = "badprefix"
  <2>1. t.result = "InvalidPrefix" /\ t.rest = <<>>
    BY <1>3 DEF TakeFrame
  <2>2. Round(r) = [r EXCEPT !.buffer = <<>>, !.run = "abort"]
    BY <2>1 DEF Round, LoopStates
  <2>3. <<>> \in Seq(Pieces)
    OBVIOUS
  <2> QED BY <1>2, <2>2, <2>3 DEF LoopStates, LoopState, Runs
<1>4. CASE ~(b # <<>> /\ Head(b).kind = "badprefix") /\ Len(b) < 2
  <2>1. t.result = "Incomplete"
    BY <1>4 DEF TakeFrame
  <2>2. Round(r) = [r EXCEPT !.run = "stop"]
    BY <2>1 DEF Round
  <2> QED BY <1>2, <2>2 DEF LoopStates, LoopState, Runs
<1>5. CASE ~(b # <<>> /\ Head(b).kind = "badprefix") /\ Len(b) >= 2
  <2> DEFINE kind == requests[k + 1]
             frame == Request(c, k + 1, kind)
             rest == SubSeq(b, 3, Len(b))
             next == [r EXCEPT !.buffer = rest]
             acted == [next EXCEPT !.handled = Append(@, frame)]
  <2>1. /\ k + 1 \in 1..Len(requests) /\ k \in Nat
        /\ SubSeq(b, 1, 2) = frame /\ Head(b).kind = kind
        /\ rest \in Seq(Pieces) /\ Len(rest) = Len(b) - 2
        /\ Continues(c, requests, rest, 2 * (k + 1))
    <3>1. k \in Nat
      BY <1>2
    <3> HIDE DEF b
    <3> QED BY <1>1, <1>2, <1>5, <3>1, FrameIsRequest
  <2>2. t = [result |-> "Complete", frame |-> frame, rest |-> rest]
    <3>1. ~(Len(b) < 2)
      BY <1>1, <1>5
    <3> QED BY <1>5, <2>1, <3>1 DEF TakeFrame
  <2>3. frame[1].kind = kind /\ frame[1].number = k + 1 /\ frame \in Seq(Pieces)
    <3>1. kind \in AllKinds /\ k + 1 \in Nat \ {0}
      BY <2>1 DEF ClientsAssumption
    <3> QED BY <3>1 DEF Request, Piece, Pieces
  <2>4. kind \in AllKinds /\ kind # "badprefix"
    <3>1. b # <<>>
      BY <1>1, <1>5
    <3> QED BY <1>5, <2>1, <3>1 DEF ClientsAssumption
  <2>5. 2 * (k + 1) + Len(rest) = total /\ k + 1 \in 0..Len(requests)
    <3> DEFINE l == Len(b)
               m == Len(rest)
    <3>1. l \in Nat /\ Len(requests) \in Nat
      BY <1>1
    <3>2. k + 1 \in 0..Len(requests)
      BY <2>1, <3>1
    <3>3. 2 * k + l = total /\ m = l - 2 /\ k \in Nat
      BY <1>2, <2>1
    <3> HIDE DEF l, m
    <3>4. 2 * (k + 1) + m = total
      BY <3>1, <3>3
    <3> QED BY <3>2, <3>4 DEF m
  <2>6. /\ kind \notin WellFormed => AreFirst(c, requests, r.handled, k + 1)
        /\ kind \in WellFormed => AreFirst(c, requests, Append(r.handled, frame), k + 1)
    BY <1>1, <1>2, <2>1, OneMore
  <2> HIDE DEF kind, frame, rest
  <2>7. /\ next \in LoopStates /\ next.run = "go" /\ next.buffer = rest
        /\ next.handled = r.handled /\ next.replies = r.replies
    BY <2>1 DEF LoopStates, Runs
  <2>8. /\ acted \in LoopStates /\ acted.run = "go" /\ acted.buffer = rest
        /\ acted.handled = Append(r.handled, frame) /\ acted.replies = r.replies
    <3>1. Append(r.handled, frame) \in Seq(Seq(Pieces))
      BY <1>1, <2>3
    <3> QED BY <2>1, <3>1 DEF LoopStates, Runs
  <2>9. CASE kind = "malformed"
    <3>1. Round(r) = next
      BY <2>2, <2>3, <2>9 DEF Round
    <3> HIDE DEF next
    <3> QED BY <2>1, <2>5, <2>6, <2>7, <2>9, <3>1 DEF LoopState, WellFormed
  <2>10. CASE kind = "set"
    <3>1. Round(r) = acted
      BY <2>2, <2>3, <2>10 DEF Round
    <3> HIDE DEF acted
    <3> QED BY <2>1, <2>5, <2>6, <2>8, <2>10, <3>1 DEF LoopState, WellFormed
  <2>11. CASE kind = "oversized"
    <3>1. Round(r) = [acted EXCEPT !.run = "abort"]
      BY <2>2, <2>3, <2>11 DEF Round
    <3> HIDE DEF acted
    <3>2. /\ [acted EXCEPT !.run = "abort"] \in LoopStates
          /\ [acted EXCEPT !.run = "abort"].run = "abort"
          /\ [acted EXCEPT !.run = "abort"].handled = acted.handled
      BY <2>8 DEF LoopStates, Runs
    <3> QED BY <2>1, <2>5, <2>6, <2>8, <2>11, <3>1, <3>2 DEF LoopState, WellFormed
  <2>12. CASE kind = "get"
    <3>1. Round(r) = [acted EXCEPT !.replies = Append(@, k + 1)]
      <4>1. Round(r) = [acted EXCEPT !.replies = Append(@, frame[1].number)]
        <5>1. TakeFrame(r.buffer).result = "Complete" /\ TakeFrame(r.buffer).frame = frame
              /\ TakeFrame(r.buffer).rest = rest
          BY <2>2
        <5>2. TakeFrame(r.buffer).frame[1].kind = "get"
          BY <2>3, <2>12, <5>1
        <5> HIDE DEF next, acted
        <5>3. Round(r) = [[[r EXCEPT !.buffer = rest] EXCEPT !.handled = Append(@, frame)]
                            EXCEPT !.replies = Append(@, frame[1].number)]
          BY <5>1, <5>2, Zenon DEF Round
        <5> QED BY <5>3 DEF acted, next
      <4> QED BY <2>3, <4>1
    <3> HIDE DEF acted
    <3> DEFINE s == [acted EXCEPT !.replies = Append(@, k + 1)]
    <3>2. /\ s \in LoopStates /\ s.buffer = acted.buffer /\ s.handled = acted.handled
      <4>1. Append(acted.replies, k + 1) \in Seq(Nat)
        BY <1>1, <2>8
      <4> QED BY <2>8, <4>1 DEF LoopStates
    <3> HIDE DEF s
    <3> QED BY <2>1, <2>5, <2>6, <2>8, <2>12, <3>1, <3>2 DEF LoopState, WellFormed, s
  <2> QED BY <2>4, <2>9, <2>10, <2>11, <2>12 DEF AllKinds
<1>6. Len(b) \in Nat
  BY <1>1
<1> QED BY <1>3, <1>4, <1>5, <1>6

\* The loop of HeaderReceived, over any number of frames.
LEMMA RoundsKeep ==
    ASSUME ClientsAssumption, NEW c \in Clients, NEW requests \in Seq(Kinds), NEW total \in Nat,
           NEW r \in LoopStates, LoopState(c, requests, total, r), r.run = "go"
    PROVE  Rounds(r) \in LoopStates /\ LoopState(c, requests, total, Rounds(r))
<1> DEFINE S == {x \in LoopStates : LoopState(c, requests, total, x)}
           N == Len(r.buffer)
           Turn(x, piece) == IF x.run = "go" THEN Round(x) ELSE x
           step == [x \in (1..N) \X S |-> Turn(x[2], r.buffer[x[1]])]
           Recursion(f) == f = [s \in SUBSET (1..N) |->
                                  IF s = {} THEN r
                                  ELSE Turn(f[s \ {Max(s)}], r.buffer[Max(s)])]
           F == CHOOSE f : Recursion(f)
<1>1. r \in S /\ N \in Nat /\ DOMAIN r.buffer = 1..N
  <2>1. r.buffer \in Seq(Pieces)
    BY DEF LoopStates
  <2> QED BY <2>1
<1>2. \A x \in S : \A piece : Turn(x, piece) \in S
  BY RoundKeeps
<1>3. step \in Turns(N, S)
  <2> HIDE DEF Turn, S
  <2> QED BY <1>2 DEF Turns
<1>4. \A s \in SUBSET (1..N) : s # {} => Max(s) \in 1..N
  BY <1>1, MaxIn
<1>5. Rounds(r) = F[1..N]
  BY <1>1 DEF Rounds, FoldLeft, MapThenFoldSet
<1>6. \A x \in S, i \in 1..N : step[<<i, x>>] = Turn(x, r.buffer[i])
  <2> HIDE DEF Turn, S
  <2> QED OBVIOUS
<1> HIDE DEF Turn, S, step, N, Recursion, F
<1>7. Recursion(F)
  <2>1. PICK g : IsFold(g, S, N, r, step)
    BY <1>1, <1>3, FoldExists
  <2>2. Recursion(g)
    BY <1>4, <1>6, <2>1 DEF Recursion, IsFold
  <2> QED BY <2>2 DEF F
<1>8. Follows(F, S, N, r, step)
  BY <1>4, <1>6, <1>7 DEF Recursion, Follows
<1>9. PICK h : ArePrefixes(h, S, N, r, step) /\ F[1..N] = h[N]
  BY <1>1, <1>3, <1>8, FoldPrefixes
<1>10. Rounds(r) \in S
  <2>1. N \in 0..N
    BY <1>1
  <2> QED BY <1>5, <1>9, <2>1 DEF ArePrefixes
<1> QED BY <1>10 DEF S

-----------------------------------------------------------------------------
(* The inductive invariant.                                                *)

\* The clients that wait to be accepted are in the backlog at most once.
Queue == /\ \A i \in DOMAIN backlog : state[backlog[i]] = "pending"
         /\ \A i, j \in DOMAIN backlog : backlog[i] = backlog[j] => i = j

\* All that a client sent before it is accepted is under way.
Before(c) == /\ handled[c] = <<>> /\ inbox[c] = <<>>
             /\ Continues(c, sent[c], wire[c], 0)
             /\ c \notin hungUp => Len(wire[c]) = 2 * Len(sent[c])

\* What a client sent is acted upon, in the splitter or under way.
Served(c) ==
    /\ inbox[c] = <<>>
    /\ \E k \in 0..Len(sent[c]) :
          /\ AreFirst(c, sent[c], handled[c], k)
          /\ Continues(c, sent[c], buffer, 2 * k)
          /\ Continues(c, sent[c], wire[c], 2 * k + Len(buffer))
          /\ c \notin hungUp => 2 * k + Len(buffer) + Len(wire[c]) = 2 * Len(sent[c])

\* What is acted upon are requests, the first of those that the client sent.
InOrder(c) == \E k \in 0..Len(sent[c]) : AreFirst(c, sent[c], handled[c], k)

StreamOf(c) == /\ state[c] \in {"new", "pending"} => Before(c)
               /\ current = c => Served(c)
               /\ InOrder(c)

Stream == \A c \in Clients : StreamOf(c)

WInv == IInv /\ StreamType /\ Queue /\ Stream

\* Which piece comes at a place of the stream.
LEMMA PieceAt ==
    ASSUME NEW c, NEW requests, NEW q, NEW from, Continues(c, requests, q, from),
           NEW i \in DOMAIN q, NEW n \in Nat, NEW part \in {1, 2}, At(from + i, n, part)
    PROVE  n + 1 \in DOMAIN requests /\ q[i] = Piece(c, n + 1, part, requests[n + 1])
BY Zenon DEF Continues

\* More requests leave what was done, and what is under way, as it was.
LEMMA Sends ==
    ASSUME NEW c, NEW requests \in Seq(Kinds), NEW kind \in Kinds
    PROVE  LET more == Append(requests, kind)
           IN  /\ \A q, from : Continues(c, requests, q, from) => Continues(c, more, q, from)
               /\ \A h, k : k \in 0..Len(requests) /\ AreFirst(c, requests, h, k)
                             => AreFirst(c, more, h, k)
               /\ \A k \in 0..Len(requests) : k \in 0..Len(more)
<1> DEFINE more == Append(requests, kind)
<1>1. /\ DOMAIN requests = 1..Len(requests) /\ DOMAIN more = 1..(Len(requests) + 1)
      /\ Len(more) = Len(requests) + 1 /\ Len(requests) \in Nat
      /\ \A n \in 1..Len(requests) : more[n] = requests[n]
  OBVIOUS
<1> HIDE DEF more
<1>2. \A q, from : Continues(c, requests, q, from) => Continues(c, more, q, from)
  <2> SUFFICES ASSUME NEW q, NEW from, Continues(c, requests, q, from),
                      NEW i \in DOMAIN q, NEW n \in Nat, NEW part \in {1, 2},
                      from + i = 2 * n + part
               PROVE  n + 1 \in DOMAIN more /\ q[i] = Piece(c, n + 1, part, more[n + 1])
    BY DEF Continues, At
  <2>1. n + 1 \in DOMAIN requests /\ q[i] = Piece(c, n + 1, part, requests[n + 1])
    BY DEF Continues, At
  <2> QED BY <1>1, <2>1
<1>3. \A h, k : k \in 0..Len(requests) /\ AreFirst(c, requests, h, k) => AreFirst(c, more, h, k)
  <2> SUFFICES ASSUME NEW h, NEW k \in 0..Len(requests), AreFirst(c, requests, h, k)
               PROVE  AreFirst(c, more, h, k)
    OBVIOUS
  <2>1. \A n \in 1..k : more[n] = requests[n]
    BY <1>1
  <2> QED BY <2>1 DEF AreFirst
<1>4. \A k \in 0..Len(requests) : k \in 0..Len(more)
  BY <1>1
<1> QED BY <1>2, <1>3, <1>4 DEF more

\* What a client sends goes on where its last request ended.
LEMMA SendsOn ==
    ASSUME ClientsAssumption, NEW c \in Clients, NEW requests \in Seq(Kinds), NEW kind \in Kinds,
           NEW q \in Seq(Pieces), NEW from \in Nat, Continues(c, requests, q, from),
           from + Len(q) = 2 * Len(requests)
    PROVE  /\ Continues(c, Append(requests, kind), q \o Request(c, Len(requests) + 1, kind), from)
           /\ from + Len(q \o Request(c, Len(requests) + 1, kind))
                  = 2 * Len(Append(requests, kind))
<1> DEFINE frame == Request(c, Len(requests) + 1, kind)
           more == Append(requests, kind)
           w == q \o frame
<1>1. /\ frame \in Seq(Pieces) /\ Len(frame) = 2
      /\ frame[1] = Piece(c, Len(requests) + 1, 1, kind)
      /\ frame[2] = Piece(c, Len(requests) + 1, 2, kind)
  <2>1. Len(requests) + 1 \in Nat \ {0} /\ kind \in AllKinds
    BY DEF ClientsAssumption
  <2> QED BY <2>1, RequestType
<1>2. /\ Len(more) = Len(requests) + 1 /\ Len(requests) \in Nat
      /\ Len(requests) + 1 \in DOMAIN more /\ more[Len(requests) + 1] = kind
  OBVIOUS
<1>3. Continues(c, more, q, from)
  BY Sends
<1> HIDE DEF frame, more
<1>4. /\ w \in Seq(Pieces) /\ Len(w) = Len(q) + 2 /\ DOMAIN w = 1..(Len(q) + 2) /\ Len(q) \in Nat
      /\ \A i \in 1..Len(q) : i \in DOMAIN q /\ w[i] = q[i]
      /\ w[Len(q) + 1] = frame[1] /\ w[Len(q) + 2] = frame[2]
  <2>1. Len(q) \in Nat
    OBVIOUS
  <2>2. w \in Seq(Pieces)
    BY <1>1
  <2>3. Len(w) = Len(q) + Len(frame) /\ \A i \in DOMAIN frame : w[Len(q) + i] = frame[i]
    <3>1. q \in Seq(Pieces) /\ frame \in Seq(Pieces)
      BY <1>1
    <3>2. Len(q \o frame) = Len(q) + Len(frame)
      BY <3>1, Joined
    <3>3. \A i \in DOMAIN frame : (q \o frame)[Len(q) + i] = frame[i]
      BY <3>1, Joined
    <3> QED BY <3>2, <3>3 DEF w
  <2>4. \A i \in 1..Len(q) : i \in DOMAIN q /\ w[i] = q[i]
    BY <1>1
  <2> HIDE DEF w
  <2>5. Len(w) = Len(q) + 2 /\ w[Len(q) + 1] = frame[1] /\ w[Len(q) + 2] = frame[2]
    BY <1>1, <2>3
  <2>6. DOMAIN w = 1..(Len(q) + 2)
    BY <2>2, <2>5
  <2> QED BY <2>1, <2>2, <2>3, <2>4, <2>5, <2>6
<1> HIDE DEF w
<1> DEFINE m == Len(requests)
           l == Len(q)
<1>5. m \in Nat /\ l \in Nat /\ from + l = 2 * m
  BY <1>2, <1>4
<1> HIDE DEF m, l
<1>6. Continues(c, more, w, from)
  <2> SUFFICES ASSUME NEW i \in DOMAIN w, NEW n \in Nat, NEW part \in {1, 2},
                      At(from + i, n, part)
               PROVE  n + 1 \in DOMAIN more /\ w[i] = Piece(c, n + 1, part, more[n + 1])
    BY DEF Continues
  <2>1. CASE i \in 1..Len(q)
    <3>1. i \in DOMAIN q /\ w[i] = q[i]
      BY <1>4, <2>1
    <3>2. n + 1 \in DOMAIN more /\ q[i] = Piece(c, n + 1, part, more[n + 1])
      BY <1>3, <3>1, PieceAt
    <3> QED BY <3>1, <3>2
  <2>2. CASE i = Len(q) + 1
    <3>1. i = l + 1
      BY <2>2 DEF l
    <3>2. n = m /\ part = 1
      BY <1>5, <3>1 DEF At
    <3>3. w[i] = Piece(c, m + 1, 1, kind) /\ m + 1 \in DOMAIN more /\ more[m + 1] = kind
      BY <1>1, <1>2, <1>4, <2>2 DEF m, frame
    <3> QED BY <3>2, <3>3
  <2>3. CASE i = Len(q) + 2
    <3>1. i = l + 2
      BY <2>3 DEF l
    <3>2. n = m /\ part = 2
      BY <1>5, <3>1 DEF At
    <3>3. w[i] = Piece(c, m + 1, 2, kind) /\ m + 1 \in DOMAIN more /\ more[m + 1] = kind
      BY <1>1, <1>2, <1>4, <2>3 DEF m, frame
    <3> QED BY <3>2, <3>3
  <2>4. i \in 1..Len(q) \/ i = Len(q) + 1 \/ i = Len(q) + 2
    BY <1>4
  <2> QED BY <2>1, <2>2, <2>3, <2>4
<1>7. from + Len(w) = 2 * Len(more)
  <2>1. Len(w) = l + 2 /\ Len(more) = m + 1
    BY <1>2, <1>4 DEF l, m
  <2> QED BY <1>5, <2>1
<1> QED BY <1>4, <1>6, <1>7 DEF w, frame, more

-----------------------------------------------------------------------------
(* The steps.                                                              *)

\* Before anything is acted upon, the first 0 requests are.
LEMMA NoneIsFirst ==
    ASSUME NEW c, NEW requests \in Seq(Kinds)
    PROVE  0 \in 0..Len(requests) /\ AreFirst(c, requests, <<>>, 0)
<1>1. Len(requests) \in Nat /\ DOMAIN <<>> = {} /\ 1..0 = {}
  OBVIOUS
<1> QED BY <1>1 DEF AreFirst

\* Nothing follows where nothing is under way.
LEMMA NothingContinues == \A c, requests, from : Continues(c, requests, <<>>, from)
BY DEF Continues

\* What a step leaves alone.
LEMMA Untouched ==
    ASSUME NEW c \in Clients, sent'[c] = sent[c], handled'[c] = handled[c]
    PROVE  /\ InOrder(c) => InOrder(c)'
           /\ wire'[c] = wire[c] /\ inbox'[c] = inbox[c] /\ (c \in hungUp => c \in hungUp')
                 => /\ Before(c) => Before(c)'
                    /\ buffer' = buffer /\ Served(c) => Served(c)'
BY DEF InOrder, Before, Served

LEMMA Connects ==
    ASSUME ClientsAssumption, WInv, NEW c \in Clients, Connect(c)
    PROVE  StreamType' /\ Queue' /\ Stream'
<1>1. /\ state[c] = "new" /\ state' = [state EXCEPT ![c] = "pending"]
      /\ backlog' = Append(backlog, c)
      /\ UNCHANGED <<sent, hungUp, wire, inbox, current, buffer, accepted, handled, replies>>
  BY DEF Connect, client
<1>2. StreamType'
  BY <1>1 DEF WInv, StreamType
<1>3. Queue'
  <2>1. /\ backlog \in Seq(Clients) /\ Len(backlog) \in Nat
        /\ DOMAIN backlog = 1..Len(backlog) /\ DOMAIN backlog' = 1..(Len(backlog) + 1)
        /\ \A i \in 1..Len(backlog) : backlog'[i] = backlog[i] /\ backlog[i] \in Clients
        /\ backlog'[Len(backlog) + 1] = c
    BY <1>1 DEF WInv, IInv, ServingType
  <2>2. \A i \in 1..Len(backlog) : backlog[i] # c /\ state'[backlog[i]] = "pending"
    BY <1>1, <2>1 DEF WInv, IInv, ServingType, Queue
  <2>3. state'[c] = "pending"
    BY <1>1 DEF WInv, IInv, ServingType
  <2>4. \A i \in DOMAIN backlog' : i \in 1..Len(backlog) \/ i = Len(backlog) + 1
    BY <2>1
  <2>5. \A i \in DOMAIN backlog' : state'[backlog'[i]] = "pending"
    BY <2>1, <2>2, <2>3, <2>4
  <2>6. \A i, j \in DOMAIN backlog' : backlog'[i] = backlog'[j] => i = j
    <3>1. \A i, j \in 1..Len(backlog) : backlog[i] = backlog[j] => i = j
      BY <2>1 DEF WInv, Queue
    <3> QED BY <2>1, <2>2, <2>4, <3>1
  <2> QED BY <2>5, <2>6 DEF Queue
<1>4. Stream'
  <2> SUFFICES ASSUME NEW d \in Clients PROVE StreamOf(d)'
    BY DEF Stream
  <2>1. state'[d] \in {"new", "pending"} => state[d] \in {"new", "pending"}
    BY <1>1 DEF WInv, IInv, ServingType
  <2>2. StreamOf(d)
    BY DEF WInv, Stream
  <2> QED BY <1>1, <2>1, <2>2, Untouched DEF StreamOf
<1> QED BY <1>2, <1>3, <1>4

LEMMA SendsKeep ==
    ASSUME ClientsAssumption, WInv, NEW c \in Clients, NEW kind \in Kinds, Send(c, kind)
    PROVE  StreamType' /\ Queue' /\ Stream'
<1> DEFINE requests == sent[c]
           frame == Request(c, Len(sent[c]) + 1, kind)
<1>1. /\ c \notin hungUp
      /\ sent' = [sent EXCEPT ![c] = Append(requests, kind)]
      /\ wire' = [wire EXCEPT ![c] = wire[c] \o frame]
      /\ UNCHANGED <<hungUp, state, backlog, inbox, current, buffer, accepted, handled, replies>>
  BY DEF Send
<1>2. /\ requests \in Seq(Kinds) /\ wire[c] \in Seq(Pieces) /\ buffer \in Seq(Pieces)
      /\ sent'[c] = Append(requests, kind) /\ wire'[c] = wire[c] \o frame
      /\ Append(requests, kind) \in Seq(Kinds) /\ Len(requests) \in Nat
      /\ Len(wire[c]) \in Nat /\ Len(buffer) \in Nat
  BY <1>1 DEF WInv, StreamType
<1>3. frame \in Seq(Pieces)
  <2>1. Len(requests) + 1 \in Nat \ {0} /\ kind \in AllKinds
    BY <1>2 DEF ClientsAssumption
  <2> QED BY <2>1, RequestType
<1> HIDE DEF frame
<1>4. StreamType'
  <2>1. wire[c] \o frame \in Seq(Pieces)
    BY <1>2, <1>3
  <2> QED BY <1>1, <1>2, <2>1 DEF WInv, StreamType
<1>5. Queue'
  BY <1>1 DEF WInv, Queue
<1>6. ASSUME Before(c) PROVE Before(c)'
  <2>1. Continues(c, requests, wire[c], 0) /\ 0 + Len(wire[c]) = 2 * Len(requests)
    BY <1>1, <1>2, <1>6 DEF Before
  <2>2. Continues(c, sent'[c], wire'[c], 0) /\ 0 + Len(wire'[c]) = 2 * Len(sent'[c])
    <3> DEFINE w == wire[c]
               from == 0
    <3>1. /\ w \in Seq(Pieces) /\ from \in Nat /\ Continues(c, requests, w, from)
          /\ from + Len(w) = 2 * Len(requests) /\ requests \in Seq(Kinds)
      BY <1>2, <2>1
    <3> HIDE DEF w, from, requests
    <3>2. /\ Continues(c, Append(requests, kind), w \o frame, from)
          /\ from + Len(w \o frame) = 2 * Len(Append(requests, kind))
      BY <3>1, SendsOn DEF frame, requests
    <3> QED BY <1>2, <3>2 DEF w, from, requests
  <2>3. Len(wire'[c]) = 2 * Len(sent'[c])
    <3>1. Len(wire'[c]) \in Nat
      BY <1>2, <1>3
    <3> QED BY <2>2, <3>1
  <2> QED BY <1>1, <1>6, <2>2, <2>3 DEF Before
<1>7. ASSUME Served(c) PROVE Served(c)'
  <2>1. PICK k \in 0..Len(requests) :
           /\ AreFirst(c, requests, handled[c], k)
           /\ Continues(c, requests, buffer, 2 * k)
           /\ Continues(c, requests, wire[c], 2 * k + Len(buffer))
           /\ 2 * k + Len(buffer) + Len(wire[c]) = 2 * Len(requests)
    BY <1>1, <1>7 DEF Served
  <2> DEFINE from == 2 * k + Len(buffer)
  <2>2. from \in Nat
    BY <1>2
  <2>3. Continues(c, requests, wire[c], from) /\ from + Len(wire[c]) = 2 * Len(requests)
    BY <2>1
  <2> HIDE DEF from
  <2>4. Continues(c, sent'[c], wire'[c], from) /\ from + Len(wire'[c]) = 2 * Len(sent'[c])
    <3> DEFINE w == wire[c]
    <3>1. w \in Seq(Pieces) /\ Continues(c, requests, w, from) /\ from + Len(w) = 2 * Len(requests)
      BY <1>2, <2>3
    <3>2. requests \in Seq(Kinds)
      BY <1>2
    <3> HIDE DEF w, requests
    <3>3. /\ Continues(c, Append(requests, kind), w \o frame, from)
          /\ from + Len(w \o frame) = 2 * Len(Append(requests, kind))
      BY <2>2, <3>1, <3>2, SendsOn DEF frame, requests
    <3> QED BY <1>2, <3>3 DEF w, requests
  <2>5. /\ k \in 0..Len(sent'[c])
        /\ AreFirst(c, sent'[c], handled[c], k)
        /\ Continues(c, sent'[c], buffer, 2 * k)
    BY <1>2, <2>1, Sends
  <2> QED BY <1>1, <1>7, <2>4, <2>5 DEF Served, from
<1>8. ASSUME InOrder(c) PROVE InOrder(c)'
  <2>1. PICK k \in 0..Len(requests) : AreFirst(c, requests, handled[c], k)
    BY <1>8 DEF InOrder
  <2>2. k \in 0..Len(sent'[c]) /\ AreFirst(c, sent'[c], handled[c], k)
    BY <1>2, <2>1, Sends
  <2> QED BY <1>1, <2>2 DEF InOrder
<1>9. Stream'
  <2> SUFFICES ASSUME NEW d \in Clients PROVE StreamOf(d)'
    BY DEF Stream
  <2>1. StreamOf(d)
    BY DEF WInv, Stream
  <2>2. CASE d = c
    BY <1>1, <1>6, <1>7, <1>8, <2>1, <2>2 DEF StreamOf
  <2>3. CASE d # c
    <3>1. sent'[d] = sent[d] /\ wire'[d] = wire[d]
      BY <1>1, <2>3 DEF WInv, StreamType
    <3> QED BY <1>1, <2>1, <3>1, Untouched DEF StreamOf
  <2> QED BY <2>2, <2>3
<1> QED BY <1>4, <1>5, <1>9

LEMMA Hangs ==
    ASSUME ClientsAssumption, WInv, NEW c \in Clients, HangUp(c) \/ Break(c)
    PROVE  StreamType' /\ Queue' /\ Stream'
<1>1. /\ hungUp' = hungUp \cup {c}
      /\ UNCHANGED <<sent, state, backlog, inbox, current, buffer, accepted, handled, replies>>
  BY DEF HangUp, Break
<1>2. CASE HangUp(c)
  <2>1. wire' = wire
    BY <1>2 DEF HangUp
  <2>2. ASSUME NEW d \in Clients PROVE StreamOf(d)'
    <3>1. StreamOf(d)
      BY DEF WInv, Stream
    <3> QED BY <1>1, <2>1, <3>1, Untouched DEF StreamOf
  <2> QED BY <1>1, <2>1, <2>2 DEF WInv, StreamType, Queue, Stream
<1>3. CASE Break(c)
  <2>1. state[c] = "accepted" /\ wire' = [wire EXCEPT ![c] = <<>>]
    BY <1>3 DEF Break
  <2>2. wire' \in [Clients -> Seq(Pieces)] /\ wire'[c] = <<>>
    <3>1. <<>> \in Seq(Pieces)
      OBVIOUS
    <3> QED BY <2>1, <3>1 DEF WInv, StreamType
  <2>3. ASSUME NEW d \in Clients PROVE StreamOf(d)'
    <3>1. StreamOf(d)
      BY DEF WInv, Stream
    <3>2. CASE d = c
      <4>1. Served(c) => Served(c)'
        BY <1>1, <2>2, NothingContinues DEF Served
      <4> QED BY <1>1, <2>1, <3>1, <3>2, <4>1, Untouched DEF StreamOf
    <3>3. CASE d # c
      <4>1. wire'[d] = wire[d]
        BY <2>1, <3>3 DEF WInv, StreamType
      <4> QED BY <1>1, <3>1, <4>1, Untouched DEF StreamOf
    <3> QED BY <3>2, <3>3
  <2> QED BY <1>1, <2>2, <2>3 DEF WInv, StreamType, Queue, Stream
<1> QED BY <1>2, <1>3

LEMMA Accepts ==
    ASSUME ClientsAssumption, WInv, AcceptConnection
    PROVE  StreamType' /\ Queue' /\ Stream'
<1>1. PICK c \in Clients : c = Head(backlog)
  BY DEF AcceptConnection, WInv, IInv, ServingType
<1>2. /\ backlog # <<>> /\ backlog \in Seq(Clients)
      /\ state' = [state EXCEPT ![c] = "accepted"] /\ backlog' = Tail(backlog)
      /\ current' = c /\ buffer' = <<>>
      /\ UNCHANGED <<sent, hungUp, wire, inbox, handled, replies>>
  BY <1>1 DEF AcceptConnection, SetCurrentSocket, client, WInv, IInv, ServingType
<1>3. Len(backlog) \in Nat /\ Len(backlog) >= 1 /\ DOMAIN backlog = 1..Len(backlog)
      /\ 1 \in DOMAIN backlog /\ backlog[1] = c
  BY <1>1, <1>2
<1>4. state[c] = "pending" /\ <<>> \in Seq(Pieces) /\ Len(<<>>) = 0
  <2>1. state[backlog[1]] = "pending"
    BY <1>3 DEF WInv, Queue
  <2> QED BY <1>3, <2>1
<1>5. StreamType'
  BY <1>2, <1>4 DEF WInv, StreamType
<1>6. Queue'
  <2>1. \A i \in DOMAIN backlog' : /\ i \in Nat /\ i + 1 \in DOMAIN backlog /\ i + 1 # 1
                                 /\ backlog'[i] = backlog[i + 1]
    <3>1. Tail(backlog) \in Seq(Clients) /\ Len(Tail(backlog)) = Len(backlog) - 1
          /\ \A i \in 1..Len(Tail(backlog)) : Tail(backlog)[i] = backlog[i + 1]
      BY <1>2, HeadTailProperties
    <3>2. DOMAIN backlog' = 1..(Len(backlog) - 1)
      BY <1>2, <3>1
    <3> QED BY <1>2, <1>3, <3>1, <3>2
  <2>2. \A i \in DOMAIN backlog : i # 1 => backlog[i] # c /\ state'[backlog[i]] = "pending"
    BY <1>2, <1>3 DEF WInv, Queue, IInv, ServingType
  <2>3. \A i \in DOMAIN backlog' : state'[backlog'[i]] = "pending"
    BY <2>1, <2>2
  <2>4. \A i, j \in DOMAIN backlog' : backlog'[i] = backlog'[j] => i = j
    <3> SUFFICES ASSUME NEW i \in DOMAIN backlog', NEW j \in DOMAIN backlog',
                        backlog'[i] = backlog'[j]
                 PROVE  i = j
      OBVIOUS
    <3>1. i + 1 = j + 1
      BY <2>1 DEF WInv, Queue
    <3> QED BY <2>1, <3>1
  <2> QED BY <2>3, <2>4 DEF Queue
<1>7. Served(c)'
  <2>1. Before(c) /\ sent[c] \in Seq(Kinds) /\ Len(sent[c]) \in Nat /\ Len(wire[c]) \in Nat
    BY <1>4 DEF WInv, Stream, StreamOf, StreamType
  <2>2. 0 \in 0..Len(sent[c]) /\ AreFirst(c, sent[c], <<>>, 0)
    BY <2>1, NoneIsFirst
  <2>3. /\ Continues(c, sent[c], <<>>, 2 * 0) /\ 2 * 0 + Len(<<>>) = 0
        /\ 2 * 0 + Len(<<>>) + Len(wire[c]) = Len(wire[c])
    BY <1>4, <2>1, NothingContinues
  <2>4. /\ inbox'[c] = <<>> /\ handled'[c] = <<>> /\ buffer' = <<>>
        /\ sent'[c] = sent[c] /\ wire'[c] = wire[c] /\ hungUp' = hungUp
        /\ Continues(c, sent[c], wire[c], 0)
        /\ c \notin hungUp => Len(wire[c]) = 2 * Len(sent[c])
    BY <1>2, <2>1 DEF Before
  <2> QED BY <2>2, <2>3, <2>4 DEF Served
<1>8. ASSUME NEW d \in Clients PROVE StreamOf(d)'
  <2>1. StreamOf(d)
    BY DEF WInv, Stream
  <2>2. state'[d] \in {"new", "pending"} => state[d] \in {"new", "pending"}
    BY <1>2 DEF WInv, IInv, ServingType
  <2>3. (Before(d) => Before(d)') /\ (InOrder(d) => InOrder(d)')
    BY <1>2, Untouched
  <2> QED BY <1>2, <1>7, <2>1, <2>2, <2>3 DEF StreamOf
<1> QED BY <1>5, <1>6, <1>8 DEF Stream

LEMMA Disconnects ==
    ASSUME ClientsAssumption, WInv, NEW c \in Clients, Disconnected(c)
    PROVE  StreamType' /\ Queue' /\ Stream'
<1>1. /\ state[c] = "accepted" /\ state' = [state EXCEPT ![c] = "closed"]
      /\ IF c = current THEN current' = NoClient /\ buffer' = <<>>
         ELSE current' = current /\ buffer' = buffer
      /\ UNCHANGED <<sent, hungUp, wire, backlog, inbox, handled, replies>>
  BY DEF Disconnected, ResetIfCurrent, client
<1>2. StreamType'
  <2>1. <<>> \in Seq(Pieces)
    OBVIOUS
  <2>2. buffer' \in Seq(Pieces)
    BY <1>1, <2>1 DEF WInv, StreamType
  <2> QED BY <1>1, <2>2 DEF WInv, StreamType
<1>3. Queue'
  <2>1. \A d \in Clients : state[d] = "pending" => state'[d] = "pending"
    BY <1>1 DEF WInv, IInv, ServingType
  <2>2. \A i \in DOMAIN backlog : backlog[i] \in Clients
    BY DEF WInv, IInv, ServingType
  <2> QED BY <1>1, <2>1, <2>2 DEF WInv, Queue
<1>4. ASSUME NEW d \in Clients PROVE StreamOf(d)'
  <2>1. StreamOf(d)
    BY DEF WInv, Stream
  <2>2. state'[d] \in {"new", "pending"} => state[d] \in {"new", "pending"}
    BY <1>1 DEF WInv, IInv, ServingType
  <2>3. current' = d => current = d /\ buffer' = buffer
    BY <1>1, ClientsAssumption DEF ClientsAssumption
  <2>4. /\ Before(d) => Before(d)'
        /\ InOrder(d) => InOrder(d)'
        /\ buffer' = buffer /\ Served(d) => Served(d)'
    BY <1>1, Untouched
  <2> QED BY <2>1, <2>2, <2>3, <2>4 DEF StreamOf
<1> QED BY <1>2, <1>3, <1>4 DEF Stream

\* A list, cut after its first n elements.
LEMMA PrefixAndRest ==
    ASSUME NEW S, NEW w \in Seq(S), NEW n \in 1..Len(w)
    PROVE  /\ SubSeq(w, 1, n) \in Seq(S) /\ Len(SubSeq(w, 1, n)) = n
           /\ \A i \in 1..n : SubSeq(w, 1, n)[i] = w[i]
           /\ SubSeq(w, n + 1, Len(w)) \in Seq(S) /\ Len(SubSeq(w, n + 1, Len(w))) = Len(w) - n
           /\ \A i \in 1..(Len(w) - n) : SubSeq(w, n + 1, Len(w))[i] = w[n + i]
<1> DEFINE p == SubSeq(w, 1, n)
           rest == SubSeq(w, n + 1, Len(w))
           m == Len(w)
<1>1. m \in Nat /\ n \in 1..m /\ DOMAIN w = 1..m
  OBVIOUS
<1>2. p \in Seq(S) /\ Len(p) = n /\ \A i \in 1..n : p[i] = w[i]
  <2>1. \A i \in 1..n : w[i] \in S
    BY <1>1
  <2>2. /\ p \in Seq(S)
        /\ Len(p) = IF 1 <= n THEN n - 1 + 1 ELSE 0
        /\ \A i \in 1..(n - 1 + 1) : p[i] = w[1 + i - 1]
    BY <1>1, <2>1, SubSeqProperties
  <2> HIDE DEF p, m
  <2>3. Len(p) = n
    BY <1>1, <2>2
  <2>4. ASSUME NEW i \in 1..n PROVE p[i] = w[i]
    <3>1. 1 + i - 1 = i /\ i \in 1..(n - 1 + 1)
      BY <1>1
    <3> QED BY ONLY <2>2, <3>1
  <2> QED BY <2>2, <2>3, <2>4
<1>3. /\ rest \in Seq(S) /\ Len(rest) = m - n
      /\ \A i \in 1..(m - n) : rest[i] = w[n + i]
  <2>1. \A i \in (n + 1)..m : w[i] \in S
    BY <1>1
  <2>2. /\ rest \in Seq(S)
        /\ Len(rest) = IF n + 1 <= m THEN m - (n + 1) + 1 ELSE 0
        /\ \A i \in 1..(m - (n + 1) + 1) : rest[i] = w[n + 1 + i - 1]
    BY <1>1, <2>1, SubSeqProperties
  <2> HIDE DEF rest, m
  <2>3. Len(rest) = m - n
    BY <1>1, <2>2
  <2>4. ASSUME NEW i \in 1..(m - n) PROVE rest[i] = w[n + i]
    <3>1. n + 1 + i - 1 = n + i /\ i \in 1..(m - (n + 1) + 1)
      BY <1>1
    <3> QED BY ONLY <2>2, <3>1
  <2> QED BY <2>2, <2>3, <2>4
<1> QED BY <1>2, <1>3 DEF p, rest, m

\* The first n pieces of w are joined to q, and the rest goes on behind them.
Moved(c, requests, q, w, n, from) ==
    /\ q \o SubSeq(w, 1, n) \in Seq(Pieces)
    /\ Len(q \o SubSeq(w, 1, n)) = Len(q) + n
    /\ Continues(c, requests, q \o SubSeq(w, 1, n), from)
    /\ Continues(c, requests, SubSeq(w, n + 1, Len(w)), from + Len(q) + n)

\* A part of what is under way moves on into the splitter.
LEMMA MovesOn ==
    ASSUME NEW c, NEW requests, NEW q \in Seq(Pieces), NEW w \in Seq(Pieces),
           NEW n \in 1..Len(w), NEW from \in Nat,
           Continues(c, requests, q, from), Continues(c, requests, w, from + Len(q))
    PROVE  Moved(c, requests, q, w, n, from)
<1> DEFINE p == SubSeq(w, 1, n)
           rest == SubSeq(w, n + 1, Len(w))
           all == q \o p
           l == Len(q)
           m == Len(w)
<1>1. l \in Nat /\ m \in Nat /\ n \in 1..m /\ DOMAIN w = 1..m /\ DOMAIN q = 1..l
  OBVIOUS
<1>2. p \in Seq(Pieces) /\ Len(p) = n /\ DOMAIN p = 1..n /\ \A i \in 1..n : p[i] = w[i]
  <2>1. p \in Seq(Pieces) /\ Len(p) = n /\ \A i \in 1..n : p[i] = w[i]
    BY PrefixAndRest
  <2> HIDE DEF p
  <2> QED BY <1>1, <2>1
<1>3. /\ rest \in Seq(Pieces) /\ Len(rest) = m - n
      /\ \A i \in 1..(m - n) : rest[i] = w[n + i]
  BY PrefixAndRest
<1>4. /\ all \in Seq(Pieces) /\ Len(all) = l + n
      /\ \A i \in DOMAIN all : i \in DOMAIN q \/ i - l \in DOMAIN p
      /\ \A i \in DOMAIN q : all[i] = q[i]
      /\ \A i \in DOMAIN p : all[l + i] = p[i]
  <2>1. /\ q \o p \in Seq(Pieces) /\ Len(q \o p) = Len(q) + Len(p)
        /\ \A i \in DOMAIN (q \o p) : i \in DOMAIN q \/ i - Len(q) \in DOMAIN p
        /\ \A i \in DOMAIN q : (q \o p)[i] = q[i]
        /\ \A i \in DOMAIN p : (q \o p)[Len(q) + i] = p[i]
    <3>1. p \in Seq(Pieces) /\ q \in Seq(Pieces)
      BY <1>2
    <3> HIDE DEF p
    <3> QED BY <3>1, Joined
  <2> HIDE DEF p
  <2> QED BY <1>2, <2>1
<1>6. DOMAIN rest = 1..(m - n) /\ DOMAIN all = 1..(l + n)
  <2> HIDE DEF rest, all
  <2> QED BY <1>1, <1>3, <1>4
<1>7. Continues(c, requests, w, from + l)
  OBVIOUS
<1> HIDE DEF p, rest, all, l, m
<1>8. Continues(c, requests, all, from)
  <2> SUFFICES ASSUME NEW i \in DOMAIN all, NEW k \in Nat, NEW part \in {1, 2},
                      At(from + i, k, part)
               PROVE  /\ k + 1 \in DOMAIN requests
                      /\ all[i] = Piece(c, k + 1, part, requests[k + 1])
    BY DEF Continues
  <2>1. CASE i \in DOMAIN q
    <3>1. k + 1 \in DOMAIN requests /\ q[i] = Piece(c, k + 1, part, requests[k + 1])
      BY <2>1, PieceAt
    <3> QED BY <1>4, <2>1, <3>1
  <2>2. CASE i - l \in DOMAIN p
    <3> DEFINE j == i - l
    <3>1. j \in DOMAIN p /\ l + j = i /\ j \in DOMAIN w /\ p[j] = w[j]
      BY <1>1, <1>2, <1>6, <2>2
    <3>2. At(from + l + j, k, part)
      <4>1. from + l + j = from + i
        BY <1>1, <1>6
      <4> QED BY <4>1
    <3> HIDE DEF j
    <3>3. k + 1 \in DOMAIN requests /\ w[j] = Piece(c, k + 1, part, requests[k + 1])
      BY <1>7, <3>1, <3>2, PieceAt
    <3>4. all[l + j] = p[j]
      BY <1>4, <3>1
    <3> QED BY <3>1, <3>3, <3>4
  <2> QED BY <1>4, <2>1, <2>2
<1>9. Continues(c, requests, rest, from + l + n)
  <2> SUFFICES ASSUME NEW i \in DOMAIN rest, NEW k \in Nat, NEW part \in {1, 2},
                      At(from + l + n + i, k, part)
               PROVE  /\ k + 1 \in DOMAIN requests
                      /\ rest[i] = Piece(c, k + 1, part, requests[k + 1])
    BY DEF Continues
  <2> DEFINE j == n + i
  <2>1. i \in 1..(m - n)
    BY <1>6
  <2>2. j \in DOMAIN w /\ rest[i] = w[j]
    BY <1>1, <1>3, <2>1
  <2>3. At(from + l + j, k, part)
    <3>1. from + l + j = from + l + n + i
      BY <1>1, <2>1
    <3> QED BY <3>1
  <2> HIDE DEF j
  <2>4. k + 1 \in DOMAIN requests /\ w[j] = Piece(c, k + 1, part, requests[k + 1])
    BY <1>7, <2>2, <2>3, PieceAt
  <2> QED BY <2>2, <2>4
<1> QED BY <1>4, <1>8, <1>9 DEF Moved, p, rest, all, l, m

LEMMA Reads ==
    ASSUME ClientsAssumption, WInv, NEW c \in Clients, ReadyRead(c)
    PROVE  StreamType' /\ Queue' /\ Stream'
<1> DEFINE p(n) == SubSeq(wire[c], 1, n)
           ready(n) == [inbox EXCEPT ![c] = @ \o p(n)]
<1>1. PICK n \in 1..Len(wire[c]) :
         /\ HeaderReceived(ready(n))
         /\ wire' = [wire EXCEPT ![c] = SubSeq(@, n + 1, Len(@))]
  BY DEF ReadyRead
<1>2. state[c] = "accepted" /\ UNCHANGED <<sent, hungUp, backlog, accepted>>
  BY DEF ReadyRead, client
<1> DEFINE w == wire[c]
           rest == SubSeq(w, n + 1, Len(w))
<1>3. /\ sent[c] \in Seq(Kinds) /\ w \in Seq(Pieces) /\ buffer \in Seq(Pieces)
      /\ inbox[c] \in Seq(Pieces) /\ handled[c] \in Seq(Seq(Pieces)) /\ replies[c] \in Seq(Nat)
      /\ Len(w) \in Nat /\ Len(buffer) \in Nat /\ Len(sent[c]) \in Nat
      /\ inbox \in [Clients -> Seq(Pieces)] /\ wire \in [Clients -> Seq(Pieces)]
  BY DEF WInv, StreamType
<1>4. /\ inbox[c] \o p(n) \in Seq(Pieces) /\ p(n) \in Seq(Pieces)
      /\ inbox[c] \o p(n) # <<>> /\ p(n) # <<>>
      /\ rest \in Seq(Pieces) /\ Len(rest) = Len(w) - n
  <2>1. n \in 1..Len(w)
    OBVIOUS
  <2>2. p(n) \in Seq(Pieces) /\ Len(p(n)) = n
    BY <1>3, <2>1, PrefixAndRest
  <2>3. rest \in Seq(Pieces) /\ Len(rest) = Len(w) - n
    BY <1>3, <2>1, PrefixAndRest
  <2> HIDE DEF p
  <2>4. n \in Nat /\ n >= 1
    BY <1>3
  <2>5. inbox[c] \o p(n) \in Seq(Pieces) /\ Len(inbox[c] \o p(n)) = Len(inbox[c]) + n
        /\ Len(inbox[c]) \in Nat
    <3> DEFINE a == inbox[c]
               b == p(n)
    <3>1. a \in Seq(Pieces) /\ b \in Seq(Pieces) /\ Len(b) = n
      BY <1>3, <2>2
    <3> HIDE DEF a, b
    <3>2. a \o b \in Seq(Pieces) /\ Len(a \o b) = Len(a) + Len(b) /\ Len(a) \in Nat
      BY <3>1, Joined
    <3> QED BY <3>1, <3>2 DEF a, b
  <2> QED BY <2>2, <2>3, <2>4, <2>5
<1>5. wire' = [wire EXCEPT ![c] = rest] /\ wire'[c] = rest /\ wire' \in [Clients -> Seq(Pieces)]
  BY <1>1, <1>3, <1>4
<1>6. ready(n)[c] = inbox[c] \o p(n) /\ ready(n) \in [Clients -> Seq(Pieces)]
      /\ \A d \in Clients : d # c => ready(n)[d] = inbox[d]
  BY <1>3, <1>4
<1>7. ASSUME NEW d \in Clients, d # c
      PROVE  wire'[d] = wire[d] /\ sent'[d] = sent[d]
  BY <1>2, <1>3, <1>5, <1>7
<1>8. current \in Clients \cup {NoClient} /\ NoClient \notin Clients
  BY DEF ClientsAssumption, WInv, IInv, ServingType
<1> HIDE DEF p, ready, w, rest
<1>9. CASE current = NoClient \/ ready(n)[current] = <<>>
  <2>1. inbox' = ready(n) /\ UNCHANGED <<state, current, buffer, handled, replies>>
    BY <1>1, <1>9 DEF HeaderReceived
  <2>2. current # c
    BY <1>4, <1>6, <1>8, <1>9
  <2>3. ASSUME NEW d \in Clients PROVE StreamOf(d)'
    <3>1. StreamOf(d)
      BY DEF WInv, Stream
    <3>2. CASE d = c
      <4>1. InOrder(d) => InOrder(d)'
        BY <1>2, <2>1, Untouched
      <4> QED BY <1>2, <2>1, <2>2, <3>1, <3>2, <4>1 DEF StreamOf
    <3>3. CASE d # c
      <4>1. inbox'[d] = inbox[d]
        BY <1>6, <2>1, <3>3
      <4> QED BY <1>2, <1>7, <2>1, <3>1, <3>3, <4>1, Untouched DEF StreamOf
    <3> QED BY <3>2, <3>3
  <2> QED BY <1>2, <1>5, <1>6, <2>1, <2>3 DEF WInv, StreamType, Queue, Stream
<1>10. CASE ~(current = NoClient \/ ready(n)[current] = <<>>)
  <2>1. current = c
    <3>1. current \in Clients
      BY <1>8, <1>10
    <3>2. PICK d \in Clients : d = current
      BY <3>1
    <3>3. inbox[d] = <<>>
      BY <3>2 DEF WInv, Stream, StreamOf, Served
    <3> QED BY <1>6, <1>10, <3>2, <3>3
  <2> DEFINE r == [buffer |-> buffer \o ready(n)[current], run |-> "go",
                   handled |-> handled[current], replies |-> replies[current]]
             s == Rounds(r)
  <2>2. /\ inbox' = [ready(n) EXCEPT ![c] = <<>>]
        /\ handled' = [handled EXCEPT ![c] = s.handled]
        /\ replies' = [replies EXCEPT ![c] = s.replies]
        /\ s.run = "abort" => /\ state' = [state EXCEPT ![c] = "closed"]
                              /\ current' = NoClient /\ buffer' = <<>>
        /\ s.run # "abort" => /\ buffer' = s.buffer /\ UNCHANGED <<state, current>>
    BY <1>1, <1>10, <2>1, Zenon DEF HeaderReceived, ResetIfCurrent
  <2>3. Served(c)
    BY <2>1 DEF WInv, Stream, StreamOf
  <2>4. PICK k \in 0..Len(sent[c]) :
          /\ AreFirst(c, sent[c], handled[c], k)
          /\ Continues(c, sent[c], buffer, 2 * k)
          /\ Continues(c, sent[c], w, 2 * k + Len(buffer))
          /\ c \notin hungUp => 2 * k + Len(buffer) + Len(w) = 2 * Len(sent[c])
    BY <2>3 DEF Served, w
  <2>5. ready(n)[current] = p(n)
    BY <1>4, <1>6, <2>1, <2>3 DEF Served
  <2> DEFINE total == 2 * k + Len(buffer) + n
             all == buffer \o p(n)
  <2>6. /\ all \in Seq(Pieces) /\ Len(all) = Len(buffer) + n
        /\ Continues(c, sent[c], all, 2 * k)
        /\ Continues(c, sent[c], rest, total)
    <3> DEFINE from == 2 * k
               requests == sent[c]
               q == buffer
    <3>1. /\ from \in Nat /\ n \in 1..Len(w) /\ q \in Seq(Pieces) /\ w \in Seq(Pieces)
          /\ Continues(c, requests, q, from) /\ Continues(c, requests, w, from + Len(q))
      BY <1>3, <2>4 DEF w
    <3> HIDE DEF from, requests, q
    <3>2. q \in Seq(Pieces) /\ w \in Seq(Pieces)
      BY <3>1
    <3>3. n \in 1..Len(w) /\ from \in Nat
      BY <3>1
    <3>4. Continues(c, requests, q, from) /\ Continues(c, requests, w, from + Len(q))
      BY <3>1
    <3>5. Moved(c, requests, q, w, n, from)
      BY <3>2, <3>3, <3>4, MovesOn
    <3> QED BY <3>5 DEF Moved, p, rest, w, from, requests, q
  <2>7. total \in Nat /\ 2 * k + Len(all) = total /\ n \in Nat
    <3>1. k \in Nat /\ n \in Nat
      BY <1>3 DEF w
    <3> HIDE DEF all
    <3> QED BY <1>3, <2>6, <3>1
  <2> HIDE DEF all, total
  <2>8. r.buffer = all /\ r.run = "go" /\ r.handled = handled[c] /\ r.replies = replies[c]
    BY <2>1, <2>5 DEF all
  <2>9. r \in LoopStates
    BY <1>3, <2>1, <2>5, <2>6 DEF LoopStates, Runs, all
  <2> HIDE DEF r
  <2>10. LoopState(c, sent[c], total, r)
    BY <2>4, <2>6, <2>7, <2>8 DEF LoopState
  <2>11. s \in LoopStates /\ LoopState(c, sent[c], total, s)
    BY <1>3, <2>7, <2>8, <2>9, <2>10, RoundsKeep
  <2> HIDE DEF s
  <2>12. PICK m \in 0..Len(sent[c]) :
           /\ AreFirst(c, sent[c], s.handled, m)
           /\ s.run # "abort" => /\ Continues(c, sent[c], s.buffer, 2 * m)
                                 /\ 2 * m + Len(s.buffer) = total
    BY <2>11 DEF LoopState
  <2>13. /\ s.buffer \in Seq(Pieces) /\ s.handled \in Seq(Seq(Pieces)) /\ s.replies \in Seq(Nat)
         /\ <<>> \in Seq(Pieces)
    BY <2>11 DEF LoopStates
  <2>14. StreamType'
    <3>1. inbox' \in [Clients -> Seq(Pieces)] /\ buffer' \in Seq(Pieces)
      BY <1>6, <2>2, <2>13
    <3> QED BY <1>2, <1>5, <2>2, <2>13, <3>1 DEF WInv, StreamType
  <2>15. handled'[c] = s.handled /\ inbox'[c] = <<>> /\ sent'[c] = sent[c] /\ hungUp' = hungUp
    BY <1>2, <1>6, <2>2 DEF WInv, StreamType
  <2>16. InOrder(c)'
    BY <2>12, <2>15 DEF InOrder
  <2>17. ASSUME s.run # "abort" PROVE Served(c)'
    <3>1. /\ buffer' = s.buffer /\ Continues(c, sent[c], s.buffer, 2 * m)
          /\ 2 * m + Len(s.buffer) = total
      BY <2>2, <2>12, <2>17
    <3>2. Continues(c, sent[c], wire'[c], 2 * m + Len(s.buffer))
      BY <1>5, <2>6, <3>1
    <3>3. c \notin hungUp => 2 * m + Len(s.buffer) + Len(wire'[c]) = 2 * Len(sent[c])
      <4>1. ASSUME c \notin hungUp
            PROVE  total + Len(rest) = 2 * Len(sent[c])
        <5> DEFINE l == Len(buffer)
                   L == Len(w)
        <5>1. 2 * k + l + L = 2 * Len(sent[c]) /\ l \in Nat /\ L \in Nat /\ k \in Nat
          BY <1>3, <2>4, <4>1
        <5>2. Len(rest) = L - n /\ total = 2 * k + l + n
          BY <1>4 DEF total
        <5> HIDE DEF l, L, total, rest
        <5>3. 2 * k + l + n + (L - n) = 2 * k + l + L
          BY <2>7, <5>1
        <5> QED BY <5>1, <5>2, <5>3
      <4> QED BY <1>5, <3>1, <4>1
    <3> QED BY <2>12, <2>15, <3>1, <3>2, <3>3 DEF Served
  <2>18. /\ current' = c => s.run # "abort"
         /\ \A d \in Clients : d # c => current' # d /\ state'[d] = state[d]
         /\ state'[c] \in {"accepted", "closed"}
    <3>1. CASE s.run = "abort"
      BY <1>8, <2>1, <2>2, <3>1 DEF WInv, IInv, ServingType
    <3>2. CASE s.run # "abort"
      BY <1>2, <2>1, <2>2, <3>2
    <3> QED BY <3>1, <3>2
  <2>19. Queue'
    <3>1. \A i \in DOMAIN backlog : backlog[i] \in Clients /\ backlog[i] # c
      BY <1>2 DEF WInv, IInv, ServingType, Queue
    <3> QED BY <1>2, <2>18, <3>1 DEF WInv, Queue
  <2>20. ASSUME NEW d \in Clients PROVE StreamOf(d)'
    <3>1. CASE d = c
      BY <2>16, <2>17, <2>18, <3>1 DEF StreamOf
    <3>2. CASE d # c
      <4>1. StreamOf(d)
        BY DEF WInv, Stream
      <4>2. inbox'[d] = inbox[d] /\ handled'[d] = handled[d]
        BY <1>6, <2>2, <3>2 DEF WInv, StreamType
      <4> QED BY <1>2, <1>7, <2>18, <3>2, <4>1, <4>2, Untouched DEF StreamOf
    <3> QED BY <3>1, <3>2
  <2> QED BY <2>14, <2>19, <2>20 DEF Stream
<1> QED BY <1>9, <1>10

\* Every step of a client or of the server keeps the invariant.
LEMMA StreamStep == ClientsAssumption /\ WInv /\ [Next]_vars => WInv'
<1> SUFFICES ASSUME ClientsAssumption, WInv, [Next]_vars
             PROVE  StreamType' /\ Queue' /\ Stream'
  <2>1. ClientsAssumption /\ WInv /\ [Next]_vars => IInv'
    BY Step DEF WInv
  <2> QED BY <2>1 DEF WInv
<1>2. ASSUME NEW c \in Clients, Connect(c) \/ HangUp(c) \/ Break(c)
      PROVE  StreamType' /\ Queue' /\ Stream'
  BY <1>2, Connects, Hangs
<1>3. ASSUME NEW c \in Clients, NEW kind \in Kinds, Send(c, kind)
      PROVE  StreamType' /\ Queue' /\ Stream'
  BY <1>3, SendsKeep
<1>4. CASE AcceptConnection
  BY <1>4, Accepts
<1>5. ASSUME NEW c \in Clients, ReadyRead(c) \/ Disconnected(c)
      PROVE  StreamType' /\ Queue' /\ Stream'
  BY <1>5, Reads, Disconnects
<1>6. CASE UNCHANGED vars
  <2>1. \A c \in Clients : StreamOf(c) => StreamOf(c)'
    BY <1>6, Untouched DEF vars, StreamOf
  <2> QED BY <1>6, <2>1 DEF vars, WInv, StreamType, Queue, Stream
<1> QED BY <1>2, <1>3, <1>4, <1>5, <1>6 DEF Next, ClientStep, ServerStep

\* Every frame the server acts upon is a whole request of its current client,
\* and of the requests of a client that decode it acts upon the first, in order
\* and each once: FrameSplitter and the loop of HeaderReceived, however the
\* stream is cut, whoever connects, hangs up or is aborted in between.
THEOREM WholeRequestsInOrderInvariant == ASSUME ClientsAssumption
                                         PROVE  Spec => []WholeRequestsInOrder
<1>1. Init => WInv
  <2> SUFFICES ASSUME Init PROVE WInv
    OBVIOUS
  <2>1. IInv
    BY ClientsAssumption DEF Init, IInv, ServingType, LatestIsServed
  <2>2. /\ <<>> \in Seq(Kinds) /\ <<>> \in Seq(Pieces)
        /\ <<>> \in Seq(Seq(Pieces)) /\ <<>> \in Seq(Nat)
    OBVIOUS
  <2>3. StreamType /\ Queue
    BY <2>2 DEF Init, StreamType, Queue
  <2>4. ASSUME NEW c \in Clients PROVE StreamOf(c)
    <3>1. /\ sent[c] = <<>> /\ wire[c] = <<>> /\ inbox[c] = <<>> /\ handled[c] = <<>>
          /\ current # c
      BY ClientsAssumption DEF Init, ClientsAssumption
    <3>2. 0 \in 0..Len(sent[c]) /\ AreFirst(c, sent[c], handled[c], 0)
      BY <2>2, <3>1, NoneIsFirst
    <3>3. Before(c)
      BY <3>1, NothingContinues DEF Before
    <3> QED BY <3>1, <3>2, <3>3 DEF StreamOf, InOrder
  <2> QED BY <2>1, <2>3, <2>4 DEF WInv, Stream
<1>2. WInv /\ [Next]_vars => WInv'
  BY StreamStep, ClientsAssumption
<1>3. WInv => WholeRequestsInOrder
  BY DEF WInv, Stream, StreamOf, InOrder, WholeRequestsInOrder
<1> QED
  BY <1>1, <1>2, <1>3, PTL DEF Spec
=============================================================================
