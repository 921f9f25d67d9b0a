-------------------------- MODULE PacketStreamProofs --------------------------
(***************************************************************************)
(* What PacketStream promises, proved for every length of headers, bodies  *)
(* and buffers and every number of connections: however the streams are    *)
(* cut and whoever owns the session, the server makes the packets that     *)
(* were sent, its clients get headers with their bodies, and a reader that *)
(* is alone gives its callback every packet once.                          *)
(***************************************************************************)
EXTENDS PacketStream, SequenceTheorems, TLAPS

\* The connections that were made.
Made == 1 .. Len(socket)

Stream == [data : Seq(Unit), taken : Nat]
ReaderState == [pc : {"recv", "parse", "gone"}, on : Nat, left : Nat]
RecvPacketInfo == [kind : {"packet", "close"}, packet : Unit]

Typed ==
  /\ socket \in Seq({"open", "closed", "failed"}) /\ Len(socket) <= MaxConnections
  /\ up \in Seq(Stream) /\ Len(up) = Len(socket)
  /\ down \in Seq(Stream) /\ Len(down) = Len(socket)
  /\ readers \in Seq(ReaderState) /\ Len(readers) = Len(socket)
  /\ seen \in Seq(Seq(Nat)) /\ Len(seen) = Len(socket)
  /\ handed \in Seq(Seq(Nat)) /\ Len(handed) = Len(socket)
  /\ sock = Len(socket)
  /\ garbled \in BOOLEAN /\ ended \in BOOLEAN /\ headerSent \in BOOLEAN
  /\ accepted \in 0 .. Len(socket) /\ session \in {0, accepted}
  /\ member \in 0 .. Len(socket)
  /\ closing \in Nat /\ buffered \in 0 .. ServerBuffer /\ pushed \in 0 .. MaxPushed
  /\ recvQueue \in Seq(RecvPacketInfo) /\ sendQueue \in Seq(Unit)
  /\ \A k \in Made : readers[k].on \in k .. Len(socket)

\* What a client sends: packets of its connection, one behind the other.
Lawful(units, k) ==
  /\ units # <<>> => IsFirst(units[1])
  /\ \A i \in 1 .. Len(units) : IsFirst(units[i]) =>
       /\ units[i].for = k
       /\ i + Size(units[i]) <= Len(units) + 1
       /\ i + Size(units[i]) <= Len(units) => IsFirst(units[i + Size(units[i])])
       /\ \A j \in i + 1 .. i + Size(units[i]) - 1 : ~ IsFirst(units[j])

\* Everything up to b is whole packets.
Boundary(units, b) == b \in 0 .. Len(units) /\ (b < Len(units) => IsFirst(units[b + 1]))

\* What the server holds of a packet in its buffer begins with its header.
UpOK ==
  /\ \A k \in Made : /\ Lawful(up[k].data, k)
                     /\ up[k].taken <= Len(up[k].data)
                     /\ k > accepted => up[k].taken = 0 /\ handed[k] = <<>>
  /\ session # 0 /\ ~ ended =>
       /\ buffered <= up[session].taken
       /\ Boundary(up[session].data, up[session].taken - buffered)
       /\ AllPackets(handed[session], up[session].data, up[session].taken - buffered)

\* Connection n is no later than any a packet comes from, than the member's, than
\* any a packet is queued for.
Later(n) ==
  /\ n <= accepted
  /\ \A i \in 1 .. Len(recvQueue) :
       recvQueue[i].kind = "packet" => n <= recvQueue[i].packet.for
Ahead(n) == Later(n) /\ (member # 0 => n <= member)
AheadOfQueue(n) == Ahead(n) /\ \A i \in 1 .. Len(sendQueue) : n <= sendQueue[i].for

\* Packets go through the queues in the order of the connections they belong to.
RecvOrdered ==
  \A i \in 1 .. Len(recvQueue) : recvQueue[i].kind = "packet" =>
    /\ recvQueue[i].packet.for \in 1 .. accepted
    /\ \A j \in 1 .. Len(recvQueue) :
         j > i /\ recvQueue[j].kind = "packet" =>
           recvQueue[i].packet.for <= recvQueue[j].packet.for
SendOrdered ==
  \A i \in 1 .. Len(sendQueue) :
    /\ sendQueue[i].for # 0 /\ Ahead(sendQueue[i].for)
    /\ \A j \in 1 .. Len(sendQueue) : j > i => sendQueue[i].for <= sendQueue[j].for
DownAhead ==
  \A k \in Made : \A i \in 1 .. Len(down[k].data) :
    IsFirst(down[k].data[i]) => AheadOfQueue(down[k].data[i].for)
QueuesOK == RecvOrdered /\ Later(member) /\ SendOrdered /\ DownAhead

\* No header is without its body.
Whole(units) ==
  \A i \in 1 .. Len(units) : IsFirst(units[i]) => i + Size(units[i]) <= Len(units) + 1

\* The units end with the header of p.
EndsWithHeader(units, p) ==
  \E i \in 1 .. Len(units) : /\ units[i] = p /\ Len(units) = i + HeaderSize - 1
                             /\ \A j \in i + 1 .. Len(units) : ~ IsFirst(units[j])

\* Between header and body the client that will get the body has just got the
\* header, or is new.
DownOK ==
  /\ \A k \in Made : k > accepted => down[k].data = <<>>
  /\ headerSent => sendQueue # <<>>
  /\ IsOpen(session) =>
       LET units == down[session].data IN
       /\ ~ headerSent => Whole(units)
       /\ headerSent => units = <<>> \/ EndsWithHeader(units, Head(sendQueue))

\* Until a buffer is overrun or shared, a reader holds bytes of another connection
\* only when the reader of that connection is gone.
ClientOK ==
  /\ \A k \in Made : down[k].taken <= Len(down[k].data)
  /\ ~ garbled =>
       \A r \in Made :
         LET k == readers[r].on IN
         /\ readers[r].left <= down[k].taken
         /\ k # r /\ readers[r].left > 0 => readers[k].pc = "gone"

Inv == Typed /\ UpOK /\ QueuesOK /\ DownOK /\ ClientOK /\ SentInOrder /\ CallbackInOrder

-----------------------------------------------------------------------------
(* Sizes and streams                                                       *)

\* The sizes are numbers, and no packet is shorter than its header.
LEMMA Sizes ==
  /\ HeaderSize \in Nat \ {0} /\ ServerBuffer \in Nat /\ ClientBuffer \in Nat
  /\ MaxConnections \in Nat /\ MaxRequests \in Nat /\ MaxPushed \in Nat
  /\ Unit = [for : 0 .. MaxConnections, body : Bodies \cup {0}]
  /\ \A b \in Bodies \cup {0} : b \in Nat
  /\ \A p \in Unit : /\ p.for \in 0 .. MaxConnections /\ p.body \in Nat
                     /\ Size(p) = HeaderSize + p.body /\ Size(p) \in Nat
                     /\ Size(p) >= HeaderSize
<1>1. /\ HeaderSize \in Nat \ {0} /\ ServerBuffer \in Nat /\ ClientBuffer \in Nat
      /\ MaxConnections \in Nat /\ MaxRequests \in Nat /\ MaxPushed \in Nat
      /\ Bodies \subseteq Nat
  BY SizesAssumption
<1>2. \A p \in Unit : p.for \in 0 .. MaxConnections /\ p.body \in Nat
  <2>1. \A p \in Unit : p.for \in 0 .. MaxConnections /\ p.body \in Bodies \cup {0}
    BY DEF Unit
  <2>2. \A b \in Bodies \cup {0} : b \in Nat
    BY <1>1
  <2>3. QED
    BY <2>1, <2>2
<1>3. QED
  BY <1>1, <1>2 DEF Unit, Size

\* PacketHeader as units
LEMMA HeaderUnits ==
  ASSUME NEW p \in Unit
  PROVE  /\ Header(p) \in Seq(Unit) /\ Len(Header(p)) = HeaderSize
         /\ Header(p)[1] = p
         /\ \A i \in 2 .. HeaderSize : ~ IsFirst(Header(p)[i])
<1> DEFINE rest == [i \in 1 .. HeaderSize - 1 |-> More]
<1>1. HeaderSize \in Nat \ {0} /\ HeaderSize - 1 \in Nat /\ More \in Unit /\ More.for = 0
  BY Sizes DEF More
<1>2. rest \in [1 .. HeaderSize - 1 -> Unit] /\ \A i \in 1 .. HeaderSize - 1 : rest[i] = More
  BY <1>1
<1>3. rest \in Seq(Unit) /\ Len(rest) = HeaderSize - 1
  BY <1>1, <1>2
<1>4. <<p>> \in Seq(Unit) /\ Len(<<p>>) = 1 /\ <<p>>[1] = p
  OBVIOUS
<1> HIDE DEF rest
<1>5. /\ <<p>> \o rest \in Seq(Unit) /\ Len(<<p>> \o rest) = 1 + (HeaderSize - 1)
      /\ \A i \in 1 .. 1 + (HeaderSize - 1) :
           (<<p>> \o rest)[i] = IF i <= 1 THEN <<p>>[i] ELSE rest[i - 1]
  BY <1>3, <1>4, ConcatProperties
<1>6. \A i \in 2 .. HeaderSize : i - 1 \in 1 .. HeaderSize - 1 /\ ~ (i <= 1)
                                 /\ i \in 1 .. 1 + (HeaderSize - 1)
  BY <1>1
<1>7. \A i \in 2 .. HeaderSize : (<<p>> \o rest)[i] = More
  BY <1>2, <1>5, <1>6
<1>8. (<<p>> \o rest)[1] = p
  BY <1>1, <1>4, <1>5
<1>9. Header(p) = <<p>> \o rest
  BY DEF Header, rest
<1>10. QED
  BY <1>1, <1>5, <1>7, <1>8, <1>9 DEF IsFirst

\* The units behind a header
LEMMA BodyUnits ==
  ASSUME NEW p \in Unit
  PROVE  /\ Body(p) \in Seq(Unit) /\ Len(Body(p)) = p.body
         /\ \A i \in 1 .. p.body : ~ IsFirst(Body(p)[i])
<1>1. p.body \in Nat /\ More \in Unit /\ More.for = 0
  BY Sizes DEF More
<1>2. Body(p) \in [1 .. p.body -> Unit] /\ \A i \in 1 .. p.body : Body(p)[i] = More
  BY <1>1 DEF Body
<1>3. Body(p) \in Seq(Unit) /\ Len(Body(p)) = p.body
  BY <1>1, <1>2
<1>4. QED
  BY <1>1, <1>2, <1>3 DEF IsFirst

\* A packet as it is sent
LEMMA PacketUnits ==
  ASSUME NEW p \in Unit
  PROVE  /\ Header(p) \o Body(p) \in Seq(Unit) /\ Len(Header(p) \o Body(p)) = Size(p)
         /\ (Header(p) \o Body(p))[1] = p
         /\ \A i \in 2 .. Size(p) : ~ IsFirst((Header(p) \o Body(p))[i])
<1>1. /\ HeaderSize \in Nat \ {0} /\ p.body \in Nat /\ Size(p) = HeaderSize + p.body
  BY Sizes
<1>2. /\ Header(p) \o Body(p) \in Seq(Unit)
      /\ Len(Header(p) \o Body(p)) = HeaderSize + p.body
      /\ \A i \in 1 .. HeaderSize + p.body :
           (Header(p) \o Body(p))[i]
             = IF i <= HeaderSize THEN Header(p)[i] ELSE Body(p)[i - HeaderSize]
  <2>1. /\ Header(p) \in Seq(Unit) /\ Len(Header(p)) = HeaderSize
        /\ Body(p) \in Seq(Unit) /\ Len(Body(p)) = p.body
    BY HeaderUnits, BodyUnits
  <2> DEFINE h == Header(p)
             b == Body(p)
  <2>2. h \in Seq(Unit) /\ b \in Seq(Unit)
    BY <2>1
  <2> HIDE DEF h, b
  <2>3. /\ h \o b \in Seq(Unit) /\ Len(h \o b) = Len(h) + Len(b)
        /\ \A i \in 1 .. Len(h) + Len(b) :
             (h \o b)[i] = IF i <= Len(h) THEN h[i] ELSE b[i - Len(h)]
    BY <2>2, ConcatProperties
  <2>4. QED
    BY <2>1, <2>3 DEF h, b
<1>3. \A i \in 2 .. Size(p) : \/ i \in 2 .. HeaderSize
                              \/ ~ (i <= HeaderSize) /\ i - HeaderSize \in 1 .. p.body
  BY <1>1
<1>4. \A i \in 2 .. Size(p) : i \in 1 .. HeaderSize + p.body /\ (i \in 2 .. HeaderSize => i <= HeaderSize)
  BY <1>1
<1>5. \A i \in 2 .. Size(p) : ~ IsFirst((Header(p) \o Body(p))[i])
  BY <1>2, <1>3, <1>4, HeaderUnits, BodyUnits
<1>6. 1 \in 1 .. HeaderSize + p.body /\ 1 <= HeaderSize
  BY <1>1
<1>7. (Header(p) \o Body(p))[1] = p
  BY <1>2, <1>6, HeaderUnits
<1>8. QED
  BY <1>1, <1>2, <1>5, <1>7

\* One stream of several is replaced.
LEMMA StreamReplaced ==
  ASSUME NEW s \in Seq(Stream), NEW k \in 1 .. Len(s), NEW e \in Stream
  PROVE  /\ [s EXCEPT ![k] = e] \in Seq(Stream) /\ Len([s EXCEPT ![k] = e]) = Len(s)
         /\ [s EXCEPT ![k] = e][k] = e
         /\ \A j \in 1 .. Len(s) : j # k => [s EXCEPT ![k] = e][j] = s[j]
BY ExceptSeq

\* A stream with other data
LEMMA StreamWith ==
  ASSUME NEW st \in Stream, NEW d \in Seq(Unit)
  PROVE  /\ [st EXCEPT !.data = d] = [data |-> d, taken |-> st.taken]
         /\ [data |-> d, taken |-> st.taken] \in Stream
BY DEF Stream

\* More units are sent in stream k.
Extended(s, k, units) == [s EXCEPT ![k].data = @ \o units]

\* t is s, but for the units that follow in stream k.
IsExtension(t, s, k, units) ==
  /\ t \in Seq(Stream) /\ Len(t) = Len(s)
  /\ \A j \in 1 .. Len(s) : j # k => t[j] = s[j]
  /\ t[k].taken = s[k].taken /\ Len(units) \in Nat
  /\ Len(t[k].data) = Len(s[k].data) + Len(units)
  /\ \A i \in 1 .. Len(s[k].data) : t[k].data[i] = s[k].data[i]
  /\ \A i \in 1 .. Len(units) : t[k].data[Len(s[k].data) + i] = units[i]

\* One stream of several is extended.
LEMMA StreamExtended ==
  ASSUME NEW s \in Seq(Stream), NEW k \in 1 .. Len(s), NEW units \in Seq(Unit)
  PROVE  IsExtension(Extended(s, k, units), s, k, units)
<1> DEFINE t == Extended(s, k, units)
<1>1. s[k] \in Stream
  BY ElementOfSeq
<1>2. s[k].data \in Seq(Unit) /\ s[k].taken \in Nat
  BY <1>1 DEF Stream
<1>3. /\ s[k].data \o units \in Seq(Unit)
      /\ Len(s[k].data \o units) = Len(s[k].data) + Len(units)
      /\ \A i \in 1 .. Len(s[k].data) + Len(units) :
           (s[k].data \o units)[i]
             = IF i <= Len(s[k].data) THEN s[k].data[i] ELSE units[i - Len(s[k].data)]
  BY <1>2, ConcatProperties
<1>4. PICK d \in Seq(Unit) : d = s[k].data \o units
  BY <1>3
<1>5. PICK e \in Stream : e.data = d /\ e.taken = s[k].taken /\ t = [s EXCEPT ![k] = e]
  <2>1. t = [s EXCEPT ![k] = [s[k] EXCEPT !.data = d]]
    BY <1>4 DEF Extended
  <2>2. [s[k] EXCEPT !.data = d] \in Stream
    BY <1>1, StreamWith, ZenonT(40)
  <2>3. [s[k] EXCEPT !.data = d].data = d /\ [s[k] EXCEPT !.data = d].taken = s[k].taken
    BY <1>1, StreamWith
  <2>4. QED
    BY <2>1, <2>2, <2>3, Zenon
<1>7. /\ t \in Seq(Stream) /\ Len(t) = Len(s) /\ t[k] = e
      /\ \A j \in 1 .. Len(s) : j # k => t[j] = s[j]
  <2>1. /\ [s EXCEPT ![k] = e] \in Seq(Stream) /\ Len([s EXCEPT ![k] = e]) = Len(s)
        /\ [s EXCEPT ![k] = e][k] = e
        /\ \A j \in 1 .. Len(s) : j # k => [s EXCEPT ![k] = e][j] = s[j]
    BY StreamReplaced
  <2>2. QED
    BY <1>5, <2>1, Zenon
<1>8. Len(s[k].data) \in Nat /\ Len(units) \in Nat
  BY <1>2, LenProperties
<1>9. \A i \in 1 .. Len(s[k].data) : (s[k].data \o units)[i] = s[k].data[i]
  BY <1>3, <1>8
<1>10. \A i \in 1 .. Len(units) : (s[k].data \o units)[Len(s[k].data) + i] = units[i]
  <2>1. \A i \in 1 .. Len(units) : /\ Len(s[k].data) + i \in 1 .. Len(s[k].data) + Len(units)
                                   /\ ~ (Len(s[k].data) + i <= Len(s[k].data))
                                   /\ Len(s[k].data) + i - Len(s[k].data) = i
    BY <1>8
  <2>2. QED
    BY <1>3, <2>1
<1>11. t[k].taken = s[k].taken /\ t[k].data = s[k].data \o units
  BY <1>4, <1>5, <1>7
<1>12. /\ Len(t[k].data) = Len(s[k].data) + Len(units)
       /\ \A i \in 1 .. Len(s[k].data) : t[k].data[i] = s[k].data[i]
       /\ \A i \in 1 .. Len(units) : t[k].data[Len(s[k].data) + i] = units[i]
  BY <1>3, <1>9, <1>10, <1>11
<1> HIDE DEF t
<1>13. IsExtension(t, s, k, units)
  BY <1>7, <1>8, <1>11, <1>12 DEF IsExtension
<1>14. QED
  BY <1>13 DEF t

\* More of stream k is received.
Advanced(s, k, n) == [s EXCEPT ![k].taken = @ + n]

\* One stream of several is received further.
LEMMA StreamReceived ==
  ASSUME NEW s \in Seq(Stream), NEW k \in 1 .. Len(s), NEW n \in Nat
  PROVE  /\ Advanced(s, k, n) \in Seq(Stream) /\ Len(Advanced(s, k, n)) = Len(s)
         /\ \A j \in 1 .. Len(s) : j # k => Advanced(s, k, n)[j] = s[j]
         /\ \A j \in 1 .. Len(s) : Advanced(s, k, n)[j].data = s[j].data
         /\ Advanced(s, k, n)[k].taken = s[k].taken + n
<1> DEFINE t == Advanced(s, k, n)
<1>1. s[k] \in Stream
  BY ElementOfSeq
<1> DEFINE e == [data |-> s[k].data, taken |-> s[k].taken + n]
<1>2. e \in Stream
  BY <1>1 DEF Stream
<1>3. t = [s EXCEPT ![k] = e]
  <2>1. s[k] = [data |-> s[k].data, taken |-> s[k].taken]
    BY <1>1 DEF Stream
  <2>2. [s[k] EXCEPT !.taken = @ + n] = e
    BY <2>1
  <2>3. QED
    BY <2>2 DEF Advanced
<1>4. e.data = s[k].data /\ e.taken = s[k].taken + n
  OBVIOUS
<1> HIDE DEF e
<1>5. /\ t \in Seq(Stream) /\ Len(t) = Len(s)
      /\ \A j \in 1 .. Len(s) : t[j] = IF j = k THEN e ELSE s[j]
  BY <1>2, <1>3, ExceptSeq
<1>6. QED
  BY <1>4, <1>5

-----------------------------------------------------------------------------
(* What the actions do to the streams                                      *)

\* The types of one connection.
LEMMA Elements ==
  ASSUME Typed
  PROVE  /\ Len(socket) \in Nat /\ Made = DOMAIN socket
         /\ DOMAIN up = Made /\ DOMAIN down = Made /\ DOMAIN readers = Made
         /\ \A k \in Made :
              /\ k \in Nat \ {0} /\ k <= Len(socket)
              /\ socket[k] \in {"open", "closed", "failed"}
              /\ up[k].data \in Seq(Unit) /\ up[k].taken \in Nat
              /\ down[k].data \in Seq(Unit) /\ down[k].taken \in Nat
              /\ Len(up[k].data) \in Nat /\ Len(down[k].data) \in Nat
              /\ readers[k] \in ReaderState
              /\ seen[k] \in Seq(Nat) /\ handed[k] \in Seq(Nat)
<1>1. Len(socket) \in Nat /\ DOMAIN socket = Made
  BY LenProperties DEF Typed, Made
<1>2. DOMAIN up = Made /\ DOMAIN down = Made /\ DOMAIN readers = Made
  BY LenProperties DEF Typed, Made
<1>3. ASSUME NEW k \in Made
      PROVE  /\ k \in Nat \ {0} /\ k <= Len(socket)
             /\ socket[k] \in {"open", "closed", "failed"}
             /\ up[k].data \in Seq(Unit) /\ up[k].taken \in Nat
             /\ down[k].data \in Seq(Unit) /\ down[k].taken \in Nat
             /\ Len(up[k].data) \in Nat /\ Len(down[k].data) \in Nat
             /\ readers[k] \in ReaderState
             /\ seen[k] \in Seq(Nat) /\ handed[k] \in Seq(Nat)
  <2>1. k \in Nat \ {0} /\ k <= Len(socket)
    BY <1>1 DEF Made
  <2>2. socket[k] \in {"open", "closed", "failed"} /\ readers[k] \in ReaderState
    BY <2>1, ElementOfSeq DEF Typed, Made
  <2>3. up[k] \in Stream /\ down[k] \in Stream
    BY <2>1, ElementOfSeq DEF Typed, Made
  <2>4. seen[k] \in Seq(Nat) /\ handed[k] \in Seq(Nat)
    BY <2>1, ElementOfSeq DEF Typed, Made
  <2>5. /\ up[k].data \in Seq(Unit) /\ up[k].taken \in Nat
        /\ down[k].data \in Seq(Unit) /\ down[k].taken \in Nat
    BY <2>3 DEF Stream
  <2>6. Len(up[k].data) \in Nat /\ Len(down[k].data) \in Nat
    BY <2>5, LenProperties
  <2>7. QED
    BY <2>1, <2>2, <2>4, <2>5, <2>6
<1>4. QED
  BY <1>1, <1>2, <1>3

\* A place in a stream
LEMMA UnitAt ==
  ASSUME NEW units \in Seq(Unit), NEW i \in 1 .. Len(units)
  PROVE  /\ units[i] \in Unit
         /\ units[i].for \in 0 .. MaxConnections /\ units[i].for \in Nat
         /\ units[i].body \in Nat
         /\ Size(units[i]) \in Nat /\ Size(units[i]) >= HeaderSize
         /\ Size(units[i]) = HeaderSize + units[i].body
         /\ Size(units[i]) \in Nat \ {0}
<1>1. units[i] \in Unit
  BY ElementOfSeq
<1>2. QED
  BY <1>1, Sizes

\* closesocket closes what is open.
LEMMA SocketsAfterClose ==
  ASSUME Typed
  PROVE  /\ SocketsClosed \in Seq({"open", "closed", "failed"})
         /\ Len(SocketsClosed) = Len(socket)
         /\ \A k \in Made : SocketsClosed[k] # "open"
<1>1. /\ SocketsClosed \in [1 .. Len(socket) -> {"open", "closed", "failed"}]
      /\ \A k \in Made : SocketsClosed[k] # "open"
  BY Elements DEF SocketsClosed, Made
<1>2. QED
  BY <1>1, Elements

\* It may end readers, and changes nothing else of them.
LEMMA ReadersAfterClose ==
  ASSUME Typed
  PROVE  /\ Closed(readers) \in Seq(ReaderState) /\ Len(Closed(readers)) = Len(socket)
         /\ \A k \in Made : /\ Closed(readers)[k].on = readers[k].on
                            /\ Closed(readers)[k].left = readers[k].left
                            /\ Closed(readers)[k].pc \in {readers[k].pc, "gone"}
<1>1. ASSUME NEW k \in Made
      PROVE  /\ Closed(readers)[k] \in ReaderState
             /\ Closed(readers)[k].on = readers[k].on
             /\ Closed(readers)[k].left = readers[k].left
             /\ Closed(readers)[k].pc \in {readers[k].pc, "gone"}
  BY Elements DEF Closed, ReaderState
<1>2. Closed(readers) \in [1 .. Len(socket) -> ReaderState]
  BY <1>1, Elements DEF Closed, Made
<1>3. QED
  BY <1>1, <1>2, Elements

\* What the send thread does to the streams.
LEMMA DownAfterSend ==
  ASSUME Typed, NEW units \in Seq(Unit), SentTo(units), IsOpen(session)
  PROVE  /\ session \in Made
         /\ down' \in Seq(Stream) /\ Len(down') = Len(down)
         /\ \A j \in Made : j # session => down'[j] = down[j]
         /\ down'[session].taken = down[session].taken
         /\ Len(units) \in Nat
         /\ Len(down'[session].data) = Len(down[session].data) + Len(units)
         /\ \A i \in 1 .. Len(down[session].data) :
              down'[session].data[i] = down[session].data[i]
         /\ \A i \in 1 .. Len(units) :
              down'[session].data[Len(down[session].data) + i] = units[i]
<1>1. session \in Made /\ session \in 1 .. Len(down) /\ down \in Seq(Stream)
      /\ Made = 1 .. Len(down)
  <2>1. session # 0 /\ session \in 0 .. Len(socket) /\ Len(socket) \in Nat
    BY Elements DEF Typed, IsOpen
  <2>2. QED
    BY <2>1 DEF Made, Typed
<1>2. down' = Extended(down, session, units)
  BY DEF SentTo, Extended
<1>3. IsExtension(Extended(down, session, units), down, session, units)
  BY <1>1, StreamExtended, Zenon
<1>4. IsExtension(down', down, session, units)
  BY <1>2, <1>3
<1>5. QED
  BY <1>1, <1>4 DEF IsExtension

-----------------------------------------------------------------------------
(* The actions, connection by connection                                   *)

\* One reader of several goes on.
LEMMA ReaderReplaced ==
  ASSUME NEW s \in Seq(ReaderState), NEW r \in 1 .. Len(s), NEW e \in ReaderState
  PROVE  /\ [s EXCEPT ![r] = e] \in Seq(ReaderState) /\ Len([s EXCEPT ![r] = e]) = Len(s)
         /\ [s EXCEPT ![r] = e][r] = e
         /\ \A j \in 1 .. Len(s) : j # r => [s EXCEPT ![r] = e][j] = s[j]
BY ExceptSeq

\* The readers but r are as they were, and r is in the given state.
Only(r, pc, on, left) ==
  /\ readers' \in Seq(ReaderState) /\ Len(readers') = Len(readers)
  /\ readers'[r].pc = pc /\ readers'[r].on = on /\ readers'[r].left = left
  /\ \A j \in Made : j # r => readers'[j] = readers[j]

\* A new state of one reader
LEMMA ReaderMoves ==
  ASSUME Typed, NEW r \in Made, NEW e \in ReaderState, readers' = [readers EXCEPT ![r] = e]
  PROVE  Only(r, e.pc, e.on, e.left)
<1>1. readers \in Seq(ReaderState) /\ r \in 1 .. Len(readers) /\ Made = 1 .. Len(readers)
  BY DEF Typed, Made
<1>2. /\ [readers EXCEPT ![r] = e] \in Seq(ReaderState)
      /\ Len([readers EXCEPT ![r] = e]) = Len(readers)
      /\ [readers EXCEPT ![r] = e][r] = e
      /\ \A j \in 1 .. Len(readers) : j # r => [readers EXCEPT ![r] = e][j] = readers[j]
  BY <1>1, ReaderReplaced
<1>3. QED
  BY <1>1, <1>2 DEF Only

\* NetworkManager receives.
LEMMA RecvEffect ==
  ASSUME Typed, NEW r \in Made, Recv(r)
  PROVE  \E n \in Nat \ {0} : LET k == readers[r].on IN
           /\ k \in Made /\ readers[r].pc = "recv"
           /\ n <= Len(down[k].data) - down[k].taken
           /\ down' \in Seq(Stream) /\ Len(down') = Len(down)
           /\ \A j \in Made : j # k => down'[j] = down[j]
           /\ \A j \in Made : down'[j].data = down[j].data
           /\ down'[k].taken = down[k].taken + n
           /\ Only(r, "parse", k, readers[r].left + n)
           /\ garbled' \in BOOLEAN
           /\ garbled' <=> garbled \/ readers[r].left + n > ClientBuffer \/ ~ OnlyReader(r)
<1> DEFINE k == readers[r].on
<1>1. /\ k \in Made /\ readers[r] \in ReaderState /\ r \in 1 .. Len(readers)
      /\ k \in 1 .. Len(down) /\ down \in Seq(Stream) /\ Made = 1 .. Len(down)
      /\ readers[r].left \in Nat /\ k \in Nat
  <2>1. readers[r].on \in r .. Len(socket) /\ r \in Nat \ {0} /\ Len(socket) \in Nat
    BY Elements DEF Typed
  <2>2. readers[r] \in ReaderState
    BY Elements
  <2>3. k \in 1 .. Len(socket) /\ r \in 1 .. Len(socket)
    BY <2>1, Elements DEF Made
  <2>4. Len(down) = Len(socket) /\ Len(readers) = Len(socket) /\ down \in Seq(Stream)
    BY DEF Typed
  <2>5. readers[r].left \in Nat /\ k \in Nat
    BY <2>2 DEF ReaderState
  <2> HIDE DEF k
  <2>6. QED
    BY <2>2, <2>3, <2>4, <2>5 DEF Made
<1>2. PICK n \in 1 .. ClientBuffer :
        /\ n <= InTransit(down[k])
        /\ down' = [down EXCEPT ![k].taken = @ + n]
        /\ readers' = [readers EXCEPT ![r].pc = "parse", ![r].left = @ + n]
        /\ garbled' = (garbled \/ readers[r].left + n > ClientBuffer \/ ~ OnlyReader(r))
  BY DEF Recv
<1>3. n \in Nat \ {0} /\ n <= Len(down[k].data) - down[k].taken
  BY <1>2, Sizes DEF InTransit
<1> DEFINE t == Advanced(down, k, n)
<1>4. /\ t \in Seq(Stream) /\ Len(t) = Len(down)
      /\ \A j \in 1 .. Len(down) : j # k => t[j] = down[j]
      /\ \A j \in 1 .. Len(down) : t[j].data = down[j].data
      /\ t[k].taken = down[k].taken + n
  BY <1>1, <1>3, StreamReceived
<1>5. down' = t
  BY <1>2 DEF Advanced
<1>6. PICK e \in ReaderState : e = [pc |-> "parse", on |-> k, left |-> readers[r].left + n]
  <2>1. readers[r].left + n \in Nat /\ k \in Nat
    BY <1>1, <1>3
  <2> HIDE DEF k
  <2>2. [pc |-> "parse", on |-> k, left |-> readers[r].left + n] \in ReaderState
    BY <2>1 DEF ReaderState
  <2>3. QED
    BY <2>2, Zenon
<1>7. readers' = [readers EXCEPT ![r] = e]
  BY <1>1, <1>2, <1>6 DEF ReaderState
<1>8. Only(r, e.pc, e.on, e.left)
  BY <1>7, ReaderMoves
<1>9. Only(r, "parse", k, readers[r].left + n)
  BY <1>6, <1>8
<1>10. readers[r].pc = "recv"
  BY DEF Recv
<1>11. garbled' \in BOOLEAN
       /\ (garbled' <=> garbled \/ readers[r].left + n > ClientBuffer \/ ~ OnlyReader(r))
  BY <1>2
<1> HIDE DEF t
<1>12. /\ down' \in Seq(Stream) /\ Len(down') = Len(down)
       /\ \A j \in Made : j # k => down'[j] = down[j]
       /\ \A j \in Made : down'[j].data = down[j].data
       /\ down'[k].taken = down[k].taken + n
  BY <1>1, <1>4, <1>5
<1>13. QED
  BY <1>1, <1>3, <1>9, <1>10, <1>11, <1>12, Zenon

\* It receives nothing.
LEMMA RecvNothingEffect ==
  ASSUME Typed, NEW r \in Made, RecvNothing(r)
  PROVE  /\ readers[r].pc = "recv"
         /\ \E pc \in {"parse", "gone"} : Only(r, pc, readers[r].on, readers[r].left)
<1>1. readers[r] \in ReaderState /\ r \in 1 .. Len(readers)
  BY Elements DEF Made, Typed
<1>2. PICK pc \in {"parse", "gone"} : readers' = [readers EXCEPT ![r].pc = pc]
  BY DEF RecvNothing
<1>3. PICK e \in ReaderState : e = [pc |-> pc, on |-> readers[r].on, left |-> readers[r].left]
  BY <1>1, <1>2 DEF ReaderState
<1>4. readers' = [readers EXCEPT ![r] = e]
  <2>1. [readers[r] EXCEPT !.pc = pc] = e
    BY <1>1, <1>3 DEF ReaderState
  <2>2. readers' = [readers EXCEPT ![r] = [readers[r] EXCEPT !.pc = pc]]
    BY <1>2
  <2>3. QED
    BY <2>1, <2>2
<1>5. Only(r, e.pc, e.on, e.left)
  BY <1>4, ReaderMoves
<1>6. QED
  BY <1>2, <1>3, <1>5 DEF RecvNothing

\* It goes on in the connection _sock has by now.
LEMMA RecvNextEffect ==
  ASSUME Typed, NEW r \in Made, RecvNext(r)
  PROVE  /\ readers[r].pc = "parse" /\ ~ garbled
         /\ sock \in Made
         /\ \E pc \in {"recv", "gone"} : Only(r, pc, sock, readers[r].left)
         /\ garbled' \in BOOLEAN
         /\ garbled' <=> readers[r].left > 0 /\ readers[r].on # sock
<1>1. /\ readers[r] \in ReaderState /\ r \in 1 .. Len(readers) /\ sock \in Made
      /\ sock \in Nat
  <2>1. r \in Nat \ {0} /\ r <= Len(socket) /\ Len(socket) \in Nat
    BY Elements
  <2>2. QED
    BY <2>1, Elements DEF Made, Typed
<1>2. PICK pc \in {"recv", "gone"} : readers' = [readers EXCEPT ![r].pc = pc, ![r].on = sock]
  BY DEF RecvNext
<1>3. PICK rd \in ReaderState, o \in Nat, q \in {"recv", "parse", "gone"} :
        rd = readers[r] /\ o = sock /\ q = pc
  BY <1>1
<1> DEFINE e == [rd EXCEPT !.pc = q, !.on = o]
<1>4. e \in ReaderState /\ e.pc = q /\ e.on = o /\ e.left = rd.left
  BY DEF ReaderState
<1>5. readers' = [readers EXCEPT ![r] = e]
  BY <1>1, <1>2, <1>3 DEF ReaderState
<1> HIDE DEF e
<1>6. Only(r, e.pc, e.on, e.left)
  BY <1>4, <1>5, ReaderMoves
<1>7. \E x \in {"recv", "gone"} : Only(r, x, sock, readers[r].left)
  BY <1>2, <1>3, <1>4, <1>6
<1>8. QED
  BY <1>1, <1>7 DEF RecvNext

\* A packet is given to the callback.
LEMMA DispatchEffect ==
  ASSUME Typed, ClientOK, NEW r \in Made, Dispatch(r)
  PROVE  \E k \in Made : \E q \in 1 .. Len(down[k].data) :
           /\ k = readers[r].on /\ readers[r].pc = "parse" /\ ~ garbled
           /\ q = down[k].taken - readers[r].left + 1
           /\ readers[r].left > 0 /\ readers[r].left <= down[k].taken
           /\ down[k].taken <= Len(down[k].data)
           /\ IsFirst(down[k].data[q])
           /\ Size(down[k].data[q]) <= readers[r].left
           /\ seen' \in Seq(Seq(Nat)) /\ Len(seen') = Len(seen)
           /\ seen'[k] = Append(seen[k], q)
           /\ \A j \in Made : j # k => seen'[j] = seen[j]
           /\ Only(r, "parse", k, readers[r].left - Size(down[k].data[q]))
<1>1. /\ readers[r].on \in r .. Len(socket) /\ r \in Nat \ {0} /\ Len(socket) \in Nat
      /\ readers[r] \in ReaderState /\ readers[r].left \in Nat
      /\ r \in 1 .. Len(socket)
  <2>1. readers[r].on \in r .. Len(socket) /\ readers[r] \in ReaderState
    BY Elements DEF Typed
  <2>2. r \in Nat \ {0} /\ Len(socket) \in Nat /\ r \in 1 .. Len(socket)
    BY Elements DEF Made
  <2>3. readers[r].left \in Nat
    BY <2>1 DEF ReaderState
  <2>4. QED
    BY <2>1, <2>2, <2>3
<1>2. PICK k \in Made : k = readers[r].on
  BY <1>1 DEF Made
<1>3. /\ k \in Nat \ {0} /\ down[k].data \in Seq(Unit) /\ down[k].taken \in Nat
      /\ Len(down[k].data) \in Nat /\ seen[k] \in Seq(Nat)
      /\ HeaderSize \in Nat \ {0} /\ k \in 1 .. Len(socket)
  BY Elements, Sizes DEF Made
<1>4. readers[r].pc = "parse" /\ ~ garbled /\ ~ Torn(r) /\ PacketThere(r)
  BY DEF Dispatch
<1>5. readers[r].left >= HeaderSize /\ readers[r].left > 0
  <2>1. readers[r].left >= HeaderSize
    BY <1>4 DEF PacketThere
  <2>2. QED
    BY <1>1, <1>3, <2>1
<1>6. readers[r].left <= down[k].taken /\ down[k].taken <= Len(down[k].data)
  BY <1>2, <1>4 DEF ClientOK
<1>7. PICK q \in 1 .. Len(down[k].data) : q = down[k].taken - readers[r].left + 1
  BY <1>1, <1>3, <1>5, <1>6, SMTT(30)
<1>8. FrontPlace(down[k], readers[r].left) = q /\ FrontUnit(down[k], readers[r].left) = down[k].data[q]
  BY <1>7 DEF FrontPlace, FrontUnit
<1>9. IsFirst(down[k].data[q])
  BY <1>2, <1>4, <1>5, <1>8 DEF Torn
<1>10. Size(down[k].data[q]) <= readers[r].left /\ Size(down[k].data[q]) \in Nat
  <2>1. readers[r].left >= Size(down[k].data[q])
    BY <1>2, <1>4, <1>8 DEF PacketThere
  <2>2. Size(down[k].data[q]) \in Nat
    BY <1>3, UnitAt
  <2>3. QED
    BY <1>1, <2>1, <2>2
<1>11. PICK new \in Seq(Nat) : new = Append(seen[k], q)
  <2>1. q \in Nat /\ seen[k] \in Seq(Nat)
    BY <1>3, <1>7
  <2>2. Append(seen[k], q) \in Seq(Nat)
    BY <2>1, AppendProperties
  <2>3. QED
    BY <2>2
<1>12. seen' = [seen EXCEPT ![k] = new]
  <2>1. seen' = [seen EXCEPT ![k] = Append(seen[k], q)]
    BY <1>2, <1>8 DEF Dispatch
  <2>2. QED
    BY <1>11, <2>1
<1>13. /\ seen' \in Seq(Seq(Nat)) /\ Len(seen') = Len(seen) /\ seen'[k] = new
       /\ \A j \in Made : j # k => seen'[j] = seen[j]
  <2>1. seen \in Seq(Seq(Nat)) /\ k \in 1 .. Len(seen) /\ Made = 1 .. Len(seen)
    BY <1>3 DEF Typed, Made
  <2>2. QED
    BY <1>12, <2>1, ExceptSeq
<1>14. PICK l \in Nat : l = readers[r].left - Size(down[k].data[q])
  BY <1>1, <1>10
<1>15. PICK e \in ReaderState : e = [pc |-> "parse", on |-> k, left |-> l]
  BY <1>3 DEF ReaderState
<1>16. readers' = [readers EXCEPT ![r] = e]
  <2>1. readers' = [readers EXCEPT ![r].left = l]
    BY <1>2, <1>8, <1>14 DEF Dispatch, LeftAfter
  <2>2. [readers[r] EXCEPT !.left = l] = e
    BY <1>1, <1>2, <1>4, <1>15 DEF ReaderState
  <2>3. readers' = [readers EXCEPT ![r] = [readers[r] EXCEPT !.left = l]]
    BY <2>1
  <2>4. QED
    BY <2>2, <2>3
<1>17. Only(r, e.pc, e.on, e.left)
  BY <1>16, ReaderMoves
<1>18. Only(r, "parse", k, readers[r].left - Size(down[k].data[q]))
  BY <1>14, <1>15, <1>17
<1>19. QED
  BY <1>2, <1>4, <1>5, <1>6, <1>7, <1>9, <1>10, <1>11, <1>13, <1>18

\* The client sends a packet.
LEMMA SendPacketEffect ==
  ASSUME Typed, NEW b \in Bodies, sendPacket(b)
  PROVE  \E k \in Made : \E p \in Unit :
           /\ k = sock /\ p.for = k /\ ~ ended
           /\ up' \in Seq(Stream) /\ Len(up') = Len(up)
           /\ \A j \in Made : j # k => up'[j] = up[j]
           /\ up'[k].taken = up[k].taken
           /\ Size(p) \in Nat \ {0}
           /\ Len(up'[k].data) = Len(up[k].data) + Size(p)
           /\ \A i \in 1 .. Len(up[k].data) : up'[k].data[i] = up[k].data[i]
           /\ up'[k].data[Len(up[k].data) + 1] = p
           /\ \A i \in 2 .. Size(p) : ~ IsFirst(up'[k].data[Len(up[k].data) + i])
<1>1. sock \in Made /\ sock \in 1 .. Len(up) /\ up \in Seq(Stream) /\ Made = 1 .. Len(up)
      /\ sock \in 0 .. MaxConnections /\ ~ ended
  <2>1. sock # 0 /\ sock = Len(socket) /\ Len(socket) \in Nat /\ Len(socket) <= MaxConnections
    BY Elements DEF Typed, sendPacket, IsOpen
  <2>2. MaxConnections \in Nat
    BY Sizes
  <2>3. QED
    BY <2>1, <2>2 DEF Typed, Made, sendPacket
<1>2. PICK k \in Made : k = sock
  BY <1>1
<1>3. PICK p \in Unit : p = [for |-> sock, body |-> b]
  BY <1>1 DEF Unit
<1>4. PICK units \in Seq(Unit) : units = Header(p) \o Body(p)
  BY PacketUnits
<1>5. /\ Len(units) = Size(p) /\ units[1] = p /\ \A i \in 2 .. Size(p) : ~ IsFirst(units[i])
      /\ Size(p) \in Nat \ {0}
  <2>1. Size(p) \in Nat \ {0}
    BY Sizes
  <2>2. QED
    BY <1>4, <2>1, PacketUnits
<1>6. up' = Extended(up, k, units)
  <2>1. up' = [up EXCEPT ![sock].data = @ \o (Header(p) \o Body(p))]
    <3>1. up' = [up EXCEPT ![sock].data = @ \o Header(p) \o Body(p)]
      BY <1>3 DEF sendPacket
    <3>2. (up[sock].data \o Header(p)) \o Body(p) = up[sock].data \o (Header(p) \o Body(p))
      <4>1. up[sock].data \in Seq(Unit) /\ Header(p) \in Seq(Unit) /\ Body(p) \in Seq(Unit)
        BY <1>1, Elements, HeaderUnits, BodyUnits
      <4>2. PICK d \in Seq(Unit), h \in Seq(Unit), c \in Seq(Unit) :
              d = up[sock].data /\ h = Header(p) /\ c = Body(p)
        BY <4>1
      <4>3. (d \o h) \o c = d \o (h \o c)
        BY ConcatAssociative
      <4>4. QED
        BY <4>2, <4>3
    <3>3. QED
      BY <3>1, <3>2, Zenon
  <2>2. QED
    BY <1>2, <1>4, <2>1 DEF Extended
<1>7. IsExtension(up', up, k, units)
  <2>1. k \in 1 .. Len(up) /\ up \in Seq(Stream)
    BY <1>1
  <2>2. IsExtension(Extended(up, k, units), up, k, units)
    BY <2>1, StreamExtended, Zenon
  <2>3. QED
    BY <1>6, <2>2
<1>8. /\ up' \in Seq(Stream) /\ Len(up') = Len(up)
      /\ \A j \in Made : j # k => up'[j] = up[j]
      /\ up'[k].taken = up[k].taken
      /\ Len(up'[k].data) = Len(up[k].data) + Size(p)
      /\ \A i \in 1 .. Len(up[k].data) : up'[k].data[i] = up[k].data[i]
  BY <1>1, <1>5, <1>7 DEF IsExtension
<1>9. \A i \in 1 .. Size(p) : up'[k].data[Len(up[k].data) + i] = units[i]
  BY <1>5, <1>7 DEF IsExtension
<1>10. /\ up'[k].data[Len(up[k].data) + 1] = p
       /\ \A i \in 2 .. Size(p) : ~ IsFirst(up'[k].data[Len(up[k].data) + i])
  <2>1. 1 \in 1 .. Size(p) /\ \A i \in 2 .. Size(p) : i \in 1 .. Size(p)
    BY <1>5
  <2>2. QED
    BY <1>5, <1>9, <2>1
<1>11. k = sock /\ p.for = k /\ ~ ended /\ Size(p) \in Nat \ {0}
  BY <1>1, <1>2, <1>3, <1>5
<1>12. QED
  BY <1>8, <1>10, <1>11

\* A worker thread takes what a receive has brought.
LEMMA WorkerEffect ==
  ASSUME Typed, UpOK, WorkerThread
  PROVE  \E k \in Made, n \in Nat \ {0} : \E q \in 1 .. Len(up[k].data) :
           LET p == up[k].data[q] IN
           /\ k = session /\ ~ ended /\ k = accepted
           /\ buffered \in Nat /\ buffered <= up[k].taken
           /\ up[k].taken + n <= Len(up[k].data)
           /\ q = up[k].taken - buffered + 1
           /\ buffered + n <= ServerBuffer
           /\ up' \in Seq(Stream) /\ Len(up') = Len(up)
           /\ \A j \in Made : j # k => up'[j] = up[j]
           /\ \A j \in Made : up'[j].data = up[j].data
           /\ up'[k].taken = up[k].taken + n
           /\ \/ /\ Size(p) >= buffered + n
                 /\ recvQueue' = Append(recvQueue, [kind |-> "packet", packet |-> p])
                 /\ handed' \in Seq(Seq(Nat)) /\ Len(handed') = Len(handed)
                 /\ handed'[k] = Append(handed[k], q)
                 /\ \A j \in Made : j # k => handed'[j] = handed[j]
                 /\ buffered' = 0
                 /\ ended' \in BOOLEAN /\ (ended' <=> Size(p) > buffered + n)
              \/ /\ buffered' = buffered + n
                 /\ UNCHANGED <<recvQueue, handed, ended>>
<1>1. PICK k \in Made : k = session /\ k = accepted /\ k \in 1 .. Len(up)
  <2>1. session # 0 /\ session = accepted /\ accepted \in 0 .. Len(socket) /\ Len(socket) \in Nat
    BY Elements DEF Typed, WorkerThread
  <2>2. QED
    BY <2>1 DEF Made, Typed
<1>2. /\ ~ ended /\ buffered \in Nat /\ k \in Nat \ {0} /\ up \in Seq(Stream)
      /\ up[k].data \in Seq(Unit) /\ up[k].taken \in Nat /\ Len(up[k].data) \in Nat
      /\ handed[k] \in Seq(Nat) /\ up[k] \in Stream
      /\ Made = 1 .. Len(up) /\ Made = 1 .. Len(handed) /\ handed \in Seq(Seq(Nat))
  <2>1. buffered \in Nat
    BY Sizes DEF Typed
  <2>2. up \in Seq(Stream) /\ Made = 1 .. Len(up)
    BY DEF Typed, Made
  <2>3. up[k] \in Stream
    BY <1>1, <2>2, ElementOfSeq
  <2>4. QED
    BY <2>1, <2>2, <2>3, Elements DEF WorkerThread, Typed, Made
<1>3. buffered <= up[k].taken /\ up[k].taken <= Len(up[k].data)
  BY <1>1, <1>2 DEF UpOK
<1>4. PICK n, st, p :
        /\ n \in 1 .. InTransit(up[k])
        /\ st = [up[k] EXCEPT !.taken = @ + n] /\ p = FrontUnit(st, There(n))
        /\ There(n) <= ServerBuffer
        /\ up' = [up EXCEPT ![k] = st]
        /\ \/ /\ TakenForWhole(p, There(n))
              /\ Received("packet", p)
              /\ handed' = [handed EXCEPT ![k] = Append(@, FrontPlace(st, There(n)))]
              /\ buffered' = 0
              /\ ended' = (Size(p) > There(n))
           \/ /\ buffered' = There(n)
              /\ UNCHANGED <<recvQueue, handed, ended>>
  BY <1>1 DEF WorkerThread
<1>5. /\ n \in Nat \ {0} /\ up[k].taken + n <= Len(up[k].data)
      /\ There(n) = buffered + n
  BY <1>2, <1>3, <1>4 DEF InTransit, There
<1>6. PICK q \in 1 .. Len(up[k].data) : q = up[k].taken - buffered + 1
  <2>1. PICK b \in Nat, t \in Nat, l \in Nat :
          b = buffered /\ t = up[k].taken /\ l = Len(up[k].data)
    BY <1>2
  <2>2. b <= t /\ t + n <= l /\ n \in Nat \ {0}
    BY <1>3, <1>5, <2>1
  <2>3. t - b + 1 \in 1 .. l
    BY <2>2
  <2>4. QED
    BY <2>1, <2>3
<1>7. st.data = up[k].data /\ st.taken = up[k].taken + n
  BY <1>2, <1>4, <1>5 DEF Stream
<1>8. FrontPlace(st, There(n)) = q
  <2>1. FrontPlace(st, There(n)) = up[k].taken + n - (buffered + n) + 1
    BY <1>2, <1>5, <1>7 DEF FrontPlace
  <2>2. up[k].taken + n - (buffered + n) + 1 = up[k].taken - buffered + 1
    BY <1>2, <1>5
  <2>3. QED
    BY <1>6, <2>1, <2>2
<1>9. p = up[k].data[q]
  BY <1>4, <1>7, <1>8 DEF FrontUnit
<1>10. /\ up' \in Seq(Stream) /\ Len(up') = Len(up)
       /\ \A j \in Made : j # k => up'[j] = up[j]
       /\ \A j \in Made : up'[j].data = up[j].data
       /\ up'[k].taken = up[k].taken + n
  <2> DEFINE t == Advanced(up, k, n)
  <2>1. /\ t \in Seq(Stream) /\ Len(t) = Len(up)
        /\ \A j \in 1 .. Len(up) : j # k => t[j] = up[j]
        /\ \A j \in 1 .. Len(up) : t[j].data = up[j].data
        /\ t[k].taken = up[k].taken + n
    BY <1>1, <1>2, <1>5, StreamReceived, ZenonT(40)
  <2>2. up' = t
    BY <1>4 DEF Advanced
  <2> HIDE DEF t
  <2>3. QED
    BY <1>2, <2>1, <2>2
<1>11. ASSUME Received("packet", p), TakenForWhole(p, There(n)),
              handed' = [handed EXCEPT ![k] = Append(@, FrontPlace(st, There(n)))],
              ended' = (Size(p) > There(n))
       PROVE  /\ Size(up[k].data[q]) >= buffered + n
              /\ recvQueue' = Append(recvQueue, [kind |-> "packet", packet |-> up[k].data[q]])
              /\ handed' \in Seq(Seq(Nat)) /\ Len(handed') = Len(handed)
              /\ handed'[k] = Append(handed[k], q)
              /\ \A j \in Made : j # k => handed'[j] = handed[j]
              /\ ended' \in BOOLEAN /\ (ended' <=> Size(up[k].data[q]) > buffered + n)
  <2>1. Size(up[k].data[q]) >= buffered + n
    BY <1>5, <1>9, <1>11 DEF TakenForWhole
  <2>2. recvQueue' = Append(recvQueue, [kind |-> "packet", packet |-> up[k].data[q]])
    BY <1>9, <1>11 DEF Received
  <2>3. PICK new \in Seq(Nat) : new = Append(handed[k], q)
    <3>1. q \in Nat
      BY <1>2, <1>6
    <3>2. Append(handed[k], q) \in Seq(Nat)
      BY <1>2, <3>1, AppendProperties
    <3>3. QED
      BY <3>2
  <2>4. handed' = [handed EXCEPT ![k] = new]
    BY <1>8, <1>11, <2>3
  <2>5. /\ handed' \in Seq(Seq(Nat)) /\ Len(handed') = Len(handed) /\ handed'[k] = new
        /\ \A j \in Made : j # k => handed'[j] = handed[j]
    BY <1>2, <2>4, ExceptSeq
  <2>6. ended' \in BOOLEAN /\ (ended' <=> Size(up[k].data[q]) > buffered + n)
    <3>1. ended' = (Size(up[k].data[q]) > buffered + n)
      BY <1>5, <1>9, <1>11, Zenon
    <3>2. (Size(up[k].data[q]) > buffered + n) \in BOOLEAN
      OBVIOUS
    <3>3. QED
      BY <3>1, <3>2, Zenon
  <2>7. QED
    BY <2>1, <2>2, <2>3, <2>5, <2>6
<1>12. \/ /\ Size(up[k].data[q]) >= buffered + n
          /\ recvQueue' = Append(recvQueue, [kind |-> "packet", packet |-> up[k].data[q]])
          /\ handed' \in Seq(Seq(Nat)) /\ Len(handed') = Len(handed)
          /\ handed'[k] = Append(handed[k], q)
          /\ \A j \in Made : j # k => handed'[j] = handed[j]
          /\ buffered' = 0
          /\ ended' \in BOOLEAN /\ (ended' <=> Size(up[k].data[q]) > buffered + n)
       \/ /\ buffered' = buffered + n
          /\ UNCHANGED <<recvQueue, handed, ended>>
  <2>1. \/ /\ Received("packet", p) /\ TakenForWhole(p, There(n))
           /\ handed' = [handed EXCEPT ![k] = Append(@, FrontPlace(st, There(n)))]
           /\ buffered' = 0
           /\ ended' = (Size(p) > There(n))
        \/ /\ buffered' = buffered + n
           /\ UNCHANGED <<recvQueue, handed, ended>>
    BY <1>4, <1>5, Zenon
  <2>2. QED
    BY <1>11, <2>1, Zenon
<1>13. buffered + n <= ServerBuffer
  BY <1>4, <1>5
<1>14. QED
  BY <1>1, <1>2, <1>3, <1>5, <1>6, <1>10, <1>12, <1>13

\* A sequence with one more element
LEMMA OneMore ==
  ASSUME NEW S, NEW s \in Seq(S), NEW e \in S, NEW n \in Nat, Len(s) = n
  PROVE  /\ Append(s, e) \in Seq(S) /\ Len(Append(s, e)) = n + 1
         /\ \A i \in 1 .. n : Append(s, e)[i] = s[i]
         /\ Append(s, e)[n + 1] = e
BY AppendProperties

\* The client connects, or tries to.
LEMMA ConnectEffect ==
  ASSUME Typed, connectTcp
  PROVE  LET n == Len(socket) + 1 IN
         /\ n <= MaxConnections /\ sock' = n
         /\ socket' \in Seq({"open", "closed", "failed"}) /\ Len(socket') = n
         /\ \A k \in Made : socket'[k] # "open"
         /\ up' \in Seq(Stream) /\ Len(up') = n
         /\ up'[n] = NoData /\ \A k \in Made : up'[k] = up[k]
         /\ down' \in Seq(Stream) /\ Len(down') = n
         /\ down'[n] = NoData /\ \A k \in Made : down'[k] = down[k]
         /\ seen' \in Seq(Seq(Nat)) /\ Len(seen') = n
         /\ seen'[n] = <<>> /\ \A k \in Made : seen'[k] = seen[k]
         /\ handed' \in Seq(Seq(Nat)) /\ Len(handed') = n
         /\ handed'[n] = <<>> /\ \A k \in Made : handed'[k] = handed[k]
         /\ readers' \in Seq(ReaderState) /\ Len(readers') = n
         /\ readers'[n].on = n /\ readers'[n].left = 0
         /\ \A k \in Made : /\ readers'[k].on = readers[k].on
                            /\ readers'[k].left = readers[k].left
                            /\ readers'[k].pc \in {readers[k].pc, "gone"}
<1>1. PICK m \in Nat : /\ m = Len(socket) /\ Made = 1 .. m
                       /\ Len(socket) < MaxConnections /\ MaxConnections \in Nat
  BY Elements, Sizes DEF connectTcp, Made
<1>2. <<>> \in Seq(Nat) /\ NoData \in Stream
  BY EmptySeq DEF NoData, Stream
<1>3. /\ up' \in Seq(Stream) /\ Len(up') = m + 1
      /\ up'[m + 1] = NoData /\ \A k \in 1 .. m : up'[k] = up[k]
  <2>1. up \in Seq(Stream) /\ Len(up) = m /\ up' = Append(up, NoData)
    BY <1>1 DEF Typed, connectTcp
  <2>2. QED
    BY <1>2, <2>1, OneMore
<1>4. /\ down' \in Seq(Stream) /\ Len(down') = m + 1
      /\ down'[m + 1] = NoData /\ \A k \in 1 .. m : down'[k] = down[k]
  <2>1. down \in Seq(Stream) /\ Len(down) = m /\ down' = Append(down, NoData)
    BY <1>1 DEF Typed, connectTcp
  <2>2. QED
    BY <1>2, <2>1, OneMore
<1>5. /\ seen' \in Seq(Seq(Nat)) /\ Len(seen') = m + 1
      /\ seen'[m + 1] = <<>> /\ \A k \in 1 .. m : seen'[k] = seen[k]
  <2>1. seen \in Seq(Seq(Nat)) /\ Len(seen) = m /\ seen' = Append(seen, <<>>)
    BY <1>1 DEF Typed, connectTcp
  <2>2. QED
    BY <1>2, <2>1, OneMore
<1>6. /\ handed' \in Seq(Seq(Nat)) /\ Len(handed') = m + 1
      /\ handed'[m + 1] = <<>> /\ \A k \in 1 .. m : handed'[k] = handed[k]
  <2>1. handed \in Seq(Seq(Nat)) /\ Len(handed) = m /\ handed' = Append(handed, <<>>)
    BY <1>1 DEF Typed, connectTcp
  <2>2. QED
    BY <1>2, <2>1, OneMore
<1>7. PICK state \in {"open", "failed"}, pc \in {"recv", "gone"} :
        /\ socket' = Append(SocketsClosed, state)
        /\ readers' = Append(Closed(readers), Reader(pc))
  BY DEF connectTcp, initTcp
<1>8. /\ socket' \in Seq({"open", "closed", "failed"}) /\ Len(socket') = m + 1
      /\ \A k \in 1 .. m : socket'[k] # "open"
  <2>1. /\ SocketsClosed \in Seq({"open", "closed", "failed"}) /\ Len(SocketsClosed) = m
        /\ \A k \in 1 .. m : SocketsClosed[k] # "open"
    BY <1>1, SocketsAfterClose
  <2>2. state \in {"open", "closed", "failed"}
    BY <1>7
  <2>3. QED
    BY <1>7, <2>1, <2>2, OneMore
<1>9. /\ readers' \in Seq(ReaderState) /\ Len(readers') = m + 1
      /\ readers'[m + 1] = Reader(pc)
      /\ \A k \in 1 .. m : readers'[k] = Closed(readers)[k]
  <2>1. Closed(readers) \in Seq(ReaderState) /\ Len(Closed(readers)) = m
    BY <1>1, ReadersAfterClose
  <2>2. Reader(pc) \in ReaderState
    BY <1>1 DEF Reader, ReaderState
  <2>3. QED
    BY <1>7, <2>1, <2>2, OneMore
<1>10. Reader(pc).on = m + 1 /\ Reader(pc).left = 0
  BY <1>1 DEF Reader
<1>11. \A k \in 1 .. m : /\ Closed(readers)[k].on = readers[k].on
                         /\ Closed(readers)[k].left = readers[k].left
                         /\ Closed(readers)[k].pc \in {readers[k].pc, "gone"}
  BY <1>1, ReadersAfterClose
<1>12. sock' = m + 1 /\ m + 1 <= MaxConnections
  BY <1>1 DEF connectTcp
<1>13. /\ readers'[m + 1].on = m + 1 /\ readers'[m + 1].left = 0
       /\ \A k \in 1 .. m : /\ readers'[k].on = readers[k].on
                           /\ readers'[k].left = readers[k].left
                           /\ readers'[k].pc \in {readers[k].pc, "gone"}
  BY <1>9, <1>10, <1>11
<1> DEFINE n == Len(socket) + 1
<1>14. m + 1 = n /\ 1 .. m = Made
  BY <1>1
<1> HIDE DEF n
<1>15. /\ n <= MaxConnections /\ sock' = n
       /\ socket' \in Seq({"open", "closed", "failed"}) /\ Len(socket') = n
       /\ \A k \in Made : socket'[k] # "open"
  BY <1>8, <1>12, <1>14
<1>16. /\ up' \in Seq(Stream) /\ Len(up') = n
       /\ up'[n] = NoData /\ \A k \in Made : up'[k] = up[k]
       /\ down' \in Seq(Stream) /\ Len(down') = n
       /\ down'[n] = NoData /\ \A k \in Made : down'[k] = down[k]
  BY <1>3, <1>4, <1>14
<1>17. /\ seen' \in Seq(Seq(Nat)) /\ Len(seen') = n
       /\ seen'[n] = <<>> /\ \A k \in Made : seen'[k] = seen[k]
       /\ handed' \in Seq(Seq(Nat)) /\ Len(handed') = n
       /\ handed'[n] = <<>> /\ \A k \in Made : handed'[k] = handed[k]
  BY <1>5, <1>6, <1>14
<1>18. /\ readers' \in Seq(ReaderState) /\ Len(readers') = n
       /\ readers'[n].on = n /\ readers'[n].left = 0
       /\ \A k \in Made : /\ readers'[k].on = readers[k].on
                          /\ readers'[k].left = readers[k].left
                          /\ readers'[k].pc \in {readers[k].pc, "gone"}
  BY <1>9, <1>13, <1>14
<1>19. QED
  BY <1>15, <1>16, <1>17, <1>18 DEF n

\* A queue with p behind it
Longer(queue, p) ==
  /\ queue' \in Seq(Unit) /\ Len(queue') = Len(queue) + 1 /\ Len(queue) \in Nat
  /\ queue'[Len(queue) + 1] = p /\ \A i \in 1 .. Len(queue) : queue'[i] = queue[i]

\* The logic thread queues a packet.
LEMMA PushedEffect ==
  ASSUME Typed, NEW k \in 0 .. MaxConnections, Pushed(k)
  PROVE  /\ \E p \in Unit : p.for = k /\ Longer(sendQueue, p)
         /\ pushed' \in 0 .. MaxPushed
<1>1. PICK b \in Bodies : /\ pushed < MaxPushed /\ pushed' = pushed + 1
                          /\ sendQueue' = Append(sendQueue, [for |-> k, body |-> b])
  BY DEF Pushed, PushBack
<1>2. PICK p \in Unit : p = [for |-> k, body |-> b]
  BY DEF Unit
<1>3. sendQueue \in Seq(Unit) /\ Len(sendQueue) \in Nat /\ pushed \in 0 .. MaxPushed
      /\ MaxPushed \in Nat
  BY Sizes, LenProperties DEF Typed
<1>4. Longer(sendQueue, p)
  <2>1. sendQueue' = Append(sendQueue, p)
    BY <1>1, <1>2
  <2>2. QED
    BY <1>3, <2>1, OneMore DEF Longer
<1>5. pushed' \in 0 .. MaxPushed
  BY <1>1, <1>3
<1>6. p.for = k
  BY <1>2
<1>7. QED
  BY <1>4, <1>5, <1>6

\* The logic thread handles a packet.
LEMMA HandleEffect ==
  ASSUME Typed, QueuesOK, HandlePacket
  PROVE  /\ recvQueue \in Seq(RecvPacketInfo) /\ Len(recvQueue) \in Nat \ {0}
         /\ recvQueue' \in Seq(RecvPacketInfo) /\ Len(recvQueue') = Len(recvQueue) - 1
         /\ \A i \in 1 .. Len(recvQueue') : recvQueue'[i] = recvQueue[i + 1]
         /\ \/ /\ recvQueue[1].kind = "packet"
               /\ recvQueue[1].packet.for \in 1 .. accepted
               /\ member' = recvQueue[1].packet.for
               /\ \E p \in Unit : p.for = recvQueue[1].packet.for /\ Longer(sendQueue, p)
               /\ pushed' \in 0 .. MaxPushed
            \/ /\ member' = 0
               /\ UNCHANGED <<sendQueue, pushed>>
<1>1. /\ recvQueue \in Seq(RecvPacketInfo) /\ Len(recvQueue) \in Nat \ {0}
      /\ recvQueue' = Tail(recvQueue) /\ Head(recvQueue) = recvQueue[1] /\ recvQueue # <<>>
  <2>1. recvQueue \in Seq(RecvPacketInfo) /\ recvQueue # <<>> /\ recvQueue' = Tail(recvQueue)
    BY DEF Typed, HandlePacket
  <2>2. Len(recvQueue) \in Nat \ {0} /\ Head(recvQueue) = recvQueue[1]
    BY <2>1, EmptySeq
  <2>3. QED
    BY <2>1, <2>2
<1>2. /\ recvQueue' \in Seq(RecvPacketInfo) /\ Len(recvQueue') = Len(recvQueue) - 1
      /\ \A i \in 1 .. Len(recvQueue') : recvQueue'[i] = recvQueue[i + 1]
  BY <1>1, HeadTailProperties
<1>3. CASE recvQueue[1].kind = "packet"
  <2>1. 1 \in 1 .. Len(recvQueue)
    BY <1>1
  <2>2. recvQueue[1].packet.for \in 1 .. accepted
    BY <1>3, <2>1 DEF QueuesOK, RecvOrdered
  <2>3. recvQueue[1].packet.for \in 0 .. MaxConnections
    <3>1. /\ accepted \in 0 .. Len(socket) /\ Len(socket) \in Nat
          /\ Len(socket) <= MaxConnections /\ MaxConnections \in Nat
      BY Elements, Sizes DEF Typed
    <3>2. QED
      BY <2>2, <3>1
  <2>4. Pushed(recvQueue[1].packet.for) /\ member' = recvQueue[1].packet.for
    BY <1>1, <1>3 DEF HandlePacket
  <2>5. /\ \E p \in Unit : p.for = recvQueue[1].packet.for /\ Longer(sendQueue, p)
        /\ pushed' \in 0 .. MaxPushed
    BY <2>3, <2>4, PushedEffect
  <2>6. QED
    BY <1>1, <1>2, <1>3, <2>2, <2>4, <2>5
<1>4. CASE recvQueue[1].kind # "packet"
  <2>1. member' = 0 /\ UNCHANGED <<sendQueue, pushed>>
    BY <1>1, <1>4 DEF HandlePacket
  <2>2. QED
    BY <1>1, <1>2, <2>1
<1>5. QED
  BY <1>3, <1>4

\* The first of the packets to be sent
LEMMA FrontOfQueue ==
  ASSUME Typed, sendQueue # <<>>
  PROVE  /\ Len(sendQueue) \in Nat \ {0} /\ sendQueue \in Seq(Unit)
         /\ Head(sendQueue) \in Unit /\ Head(sendQueue) = sendQueue[1]
         /\ Tail(sendQueue) \in Seq(Unit) /\ Len(Tail(sendQueue)) = Len(sendQueue) - 1
         /\ \A i \in 1 .. Len(Tail(sendQueue)) : Tail(sendQueue)[i] = sendQueue[i + 1]
<1>1. sendQueue \in Seq(Unit)
  BY DEF Typed
<1>2. Len(sendQueue) \in Nat \ {0}
  BY <1>1, EmptySeq
<1>3. QED
  BY <1>1, <1>2, HeadTailProperties

-----------------------------------------------------------------------------
(* Types                                                                   *)

\* No action of a thread or a client breaks a type.
LEMMA TypedStep ==
  ASSUME Typed, UpOK, QueuesOK, DownOK, ClientOK, [Next]_vars
  PROVE  Typed'
<1>1. CASE connectTcp
  <2>1. Len(socket) \in Nat /\ garbled' = garbled /\ UNCHANGED <<accepted, session, closing,
           buffered, ended, recvQueue, sendQueue, headerSent, member, pushed>>
    BY <1>1, Elements DEF connectTcp, logicVars, queues
  <2>2. \A k \in Made' : readers'[k].on \in k .. Len(socket')
    <3>1. Made' = Made \cup {Len(socket) + 1}
      BY <1>1, <2>1, ConnectEffect, SMTT(30) DEF Made
    <3>2. ASSUME NEW k \in Made PROVE readers'[k].on \in k .. Len(socket')
      <4>1. readers[k].on \in k .. Len(socket) /\ k \in Nat
        BY <3>2, Elements DEF Typed
      <4>2. readers'[k].on = readers[k].on /\ Len(socket') = Len(socket) + 1
        BY <1>1, <3>2, ConnectEffect
      <4>3. QED
        BY <2>1, <4>1, <4>2
    <3>3. readers'[Len(socket) + 1].on = Len(socket) + 1 /\ Len(socket') = Len(socket) + 1
      BY <1>1, ConnectEffect
    <3>4. QED
      BY <2>1, <3>1, <3>2, <3>3
  <2>3. PICK n \in Nat :
          /\ n = Len(socket) + 1 /\ n <= MaxConnections /\ sock' = n
          /\ socket' \in Seq({"open", "closed", "failed"}) /\ Len(socket') = n
          /\ up' \in Seq(Stream) /\ Len(up') = n
          /\ down' \in Seq(Stream) /\ Len(down') = n
          /\ seen' \in Seq(Seq(Nat)) /\ Len(seen') = n
          /\ handed' \in Seq(Seq(Nat)) /\ Len(handed') = n
          /\ readers' \in Seq(ReaderState) /\ Len(readers') = n
    BY <1>1, <2>1, ConnectEffect
  <2>4. accepted' \in 0 .. n /\ member' \in 0 .. n /\ session' \in {0, accepted'}
    <3>1. accepted \in 0 .. Len(socket) /\ member \in 0 .. Len(socket) /\ session \in {0, accepted}
      BY DEF Typed
    <3>2. QED
      BY <2>1, <2>3, <3>1
  <2>5. QED
    BY <2>1, <2>2, <2>3, <2>4 DEF Typed
<1>2. CASE disconnectTcp
  <2>1. /\ socket' = SocketsClosed /\ readers' = Closed(readers)
        /\ UNCHANGED <<up, down, sock, garbled, seen, accepted, session, closing, buffered,
                       ended, handed, recvQueue, sendQueue, headerSent, member, pushed>>
    BY <1>2 DEF disconnectTcp, workerVars, logicVars, queues
  <2>2. /\ socket' \in Seq({"open", "closed", "failed"}) /\ Len(socket') = Len(socket)
        /\ readers' \in Seq(ReaderState) /\ Len(readers') = Len(socket)
        /\ \A k \in Made : readers'[k].on = readers[k].on
    BY <2>1, SocketsAfterClose, ReadersAfterClose
  <2>3. QED
    BY <2>1, <2>2 DEF Typed, Made
<1>3. ASSUME NEW b \in Bodies, sendPacket(b) PROVE Typed'
  <2>1. up' \in Seq(Stream) /\ Len(up') = Len(up)
    BY <1>3, SendPacketEffect
  <2>2. UNCHANGED <<socket, down, sock, readers, garbled, seen, accepted, session, closing,
                    buffered, ended, handed, recvQueue, sendQueue, headerSent, member, pushed>>
    BY <1>3 DEF sendPacket, clientVars, workerVars, logicVars, queues
  <2>3. QED
    BY <2>1, <2>2 DEF Typed, Made
<1>4. ASSUME NEW r \in Made, Recv(r) \/ RecvNothing(r) \/ Dispatch(r) \/ RecvNext(r)
      PROVE  Typed'
  <2>1. UNCHANGED <<socket, up, sock, accepted, session, closing, buffered, ended, handed,
                    recvQueue, sendQueue, headerSent, member, pushed>>
    BY <1>4 DEF Recv, RecvNothing, Dispatch, RecvNext, workerVars, logicVars, queues
  <2>2. readers[r].on \in r .. Len(socket) /\ Len(socket) \in Nat /\ r \in Nat
        /\ sock = Len(socket) /\ r <= Len(socket)
    BY Elements DEF Typed
  <2>3. ASSUME NEW pc, NEW on \in r .. Len(socket), NEW left, Only(r, pc, on, left)
        PROVE  /\ readers' \in Seq(ReaderState) /\ Len(readers') = Len(socket)
               /\ \A k \in Made' : readers'[k].on \in k .. Len(socket')
    BY <2>1, <2>3 DEF Only, Typed, Made
  <2>4. /\ readers' \in Seq(ReaderState) /\ Len(readers') = Len(socket)
        /\ \A k \in Made' : readers'[k].on \in k .. Len(socket')
    <3>1. CASE Recv(r)
      BY <2>2, <2>3, <3>1, RecvEffect
    <3>2. CASE RecvNothing(r)
      BY <2>2, <2>3, <3>2, RecvNothingEffect
    <3>3. CASE Dispatch(r)
      BY <2>2, <2>3, <3>3, DispatchEffect
    <3>4. CASE RecvNext(r)
      BY <2>2, <2>3, <3>4, RecvNextEffect
    <3>5. QED
      BY <1>4, <3>1, <3>2, <3>3, <3>4
  <2>5. down' \in Seq(Stream) /\ Len(down') = Len(down)
    <3>1. CASE Recv(r)
      BY <3>1, RecvEffect
    <3>2. CASE RecvNothing(r) \/ Dispatch(r) \/ RecvNext(r)
      BY <3>2 DEF RecvNothing, Dispatch, RecvNext, Typed
    <3>3. QED
      BY <1>4, <3>1, <3>2
  <2>6. seen' \in Seq(Seq(Nat)) /\ Len(seen') = Len(seen)
    <3>1. CASE Dispatch(r)
      BY <3>1, DispatchEffect
    <3>2. CASE Recv(r) \/ RecvNothing(r) \/ RecvNext(r)
      BY <3>2 DEF RecvNothing, Recv, RecvNext, Typed
    <3>3. QED
      BY <1>4, <3>1, <3>2
  <2>7. garbled' \in BOOLEAN
    <3>1. CASE Recv(r)
      BY <3>1, RecvEffect
    <3>2. CASE RecvNext(r)
      BY <3>2, RecvNextEffect
    <3>3. CASE RecvNothing(r) \/ Dispatch(r)
      BY <3>3 DEF RecvNothing, Dispatch, Typed
    <3>4. QED
      BY <1>4, <3>1, <3>2, <3>3
  <2>8. QED
    BY <2>1, <2>4, <2>5, <2>6, <2>7 DEF Typed, Made
<1>5. CASE Accept
  <2>1. /\ accepted' = accepted + 1 /\ session' \in {0, accepted + 1} /\ buffered' = 0
        /\ accepted < Len(socket)
        /\ UNCHANGED <<socket, up, down, sock, readers, garbled, seen, closing, ended, handed,
                       recvQueue, sendQueue, headerSent, member, pushed>>
    BY <1>5 DEF Accept, clientVars, logicVars, queues
  <2>2. accepted \in 0 .. Len(socket) /\ Len(socket) \in Nat /\ ServerBuffer \in Nat
    BY Elements, Sizes DEF Typed
  <2>3. accepted' \in 0 .. Len(socket) /\ session' \in {0, accepted'} /\ buffered' \in 0 .. ServerBuffer
    BY <2>1, <2>2
  <2>4. QED
    BY <2>1, <2>3 DEF Typed, Made
<1>6. CASE WorkerThread
  <2>1. /\ up' \in Seq(Stream) /\ Len(up') = Len(up)
        /\ handed' \in Seq(Seq(Nat)) /\ Len(handed') = Len(handed) /\ ended' \in BOOLEAN
        /\ recvQueue' \in Seq(RecvPacketInfo)
        /\ buffered' \in 0 .. ServerBuffer
    <3>1. PICK k \in Made, n \in Nat \ {0} : \E q \in 1 .. Len(up[k].data) :
            /\ buffered \in Nat /\ buffered + n <= ServerBuffer
            /\ up' \in Seq(Stream) /\ Len(up') = Len(up)
            /\ \/ /\ recvQueue' = Append(recvQueue, [kind |-> "packet", packet |-> up[k].data[q]])
                  /\ handed' \in Seq(Seq(Nat)) /\ Len(handed') = Len(handed)
                  /\ buffered' = 0
                  /\ ended' \in BOOLEAN
               \/ /\ buffered' = buffered + n
                  /\ UNCHANGED <<recvQueue, handed, ended>>
      BY <1>6, WorkerEffect, ZenonT(40)
    <3>2. buffered' \in 0 .. ServerBuffer
      BY <3>1, Sizes
    <3>3. ASSUME NEW q \in 1 .. Len(up[k].data),
                 recvQueue' = Append(recvQueue, [kind |-> "packet", packet |-> up[k].data[q]])
          PROVE  recvQueue' \in Seq(RecvPacketInfo)
      <4>1. up[k].data[q] \in Unit
        BY Elements, UnitAt
      <4>2. PICK e \in RecvPacketInfo : e = [kind |-> "packet", packet |-> up[k].data[q]]
        BY <4>1 DEF RecvPacketInfo
      <4>3. recvQueue' = Append(recvQueue, e) /\ recvQueue \in Seq(RecvPacketInfo)
        BY <3>3, <4>2 DEF Typed
      <4>4. QED
        BY <4>3, AppendProperties
    <3>4. recvQueue' \in Seq(RecvPacketInfo)
      BY <3>1, <3>3 DEF Typed
    <3>5. QED
      BY <3>1, <3>2, <3>4 DEF Typed
  <2>2. UNCHANGED <<socket, down, sock, readers, garbled, seen, accepted, session, closing,
                    sendQueue, headerSent, member, pushed>>
    BY <1>6 DEF WorkerThread, clientVars
  <2>3. QED
    BY <2>1, <2>2 DEF Typed, Made
<1>7. CASE CloseSession
  <2>1. /\ session' = 0 /\ closing' = closing + 1
        /\ UNCHANGED <<socket, up, down, sock, readers, garbled, seen, accepted, buffered, ended,
                       handed, recvQueue, sendQueue, headerSent, member, pushed>>
    BY <1>7 DEF CloseSession, clientVars, logicVars, queues
  <2>2. closing' \in Nat
    BY <2>1 DEF Typed
  <2>3. QED
    BY <2>1, <2>2 DEF Typed, Made
<1>8. CASE PushClose
  <2>1. /\ closing > 0 /\ closing' = closing - 1
        /\ recvQueue' = Append(recvQueue, [kind |-> "close", packet |-> More])
        /\ UNCHANGED <<socket, up, down, sock, readers, garbled, seen, accepted, session, buffered,
                       ended, handed, sendQueue, headerSent, member, pushed>>
    BY <1>8 DEF PushClose, Received, clientVars
  <2>2. PICK e \in RecvPacketInfo : e = [kind |-> "close", packet |-> More]
    <3>1. PICK p \in Unit : p = More
      <4>1. 0 \in 0 .. MaxConnections /\ 0 \in Bodies \cup {0}
        BY Sizes
      <4>2. More \in Unit
        BY <4>1 DEF More, Unit
      <4>3. QED
        BY <4>2
    <3>2. [kind |-> "close", packet |-> p] \in RecvPacketInfo
      BY DEF RecvPacketInfo
    <3>3. QED
      BY <3>1, <3>2
  <2>3. recvQueue' \in Seq(RecvPacketInfo) /\ closing' \in Nat
    BY <2>1, <2>2, AppendProperties DEF Typed
  <2>4. QED
    BY <2>1, <2>3 DEF Typed, Made
<1>9. CASE HandlePacket
  <2>1. UNCHANGED <<socket, up, down, sock, readers, garbled, seen, accepted, session, closing,
                    buffered, ended, handed, headerSent>>
    BY <1>9 DEF HandlePacket, clientVars, workerVars
  <2>2. accepted \in 0 .. Len(socket) /\ Len(socket) \in Nat
    BY Elements DEF Typed
  <2>3. recvQueue' \in Seq(RecvPacketInfo)
    BY <1>9, HandleEffect
  <2>4. member' \in 0 .. Len(socket) /\ sendQueue' \in Seq(Unit) /\ pushed' \in 0 .. MaxPushed
    <3>1. sendQueue' \in Seq(Unit) /\ pushed' \in 0 .. MaxPushed
      BY <1>9, HandleEffect DEF Longer, Typed
    <3>2. member' = 0 \/ member' \in 1 .. accepted
      BY <1>9, HandleEffect
    <3>3. QED
      BY <2>2, <3>1, <3>2
  <2>5. QED
    BY <2>1, <2>3, <2>4 DEF Typed, Made
<1>10. CASE Notify
  <2>1. member \in 0 .. MaxConnections
    <3>1. member \in 0 .. Len(socket) /\ Len(socket) \in Nat /\ MaxConnections \in Nat
          /\ Len(socket) <= MaxConnections
      BY Elements, Sizes DEF Typed
    <3>2. QED
      BY <3>1
  <2>2. sendQueue' \in Seq(Unit) /\ pushed' \in 0 .. MaxPushed
    BY <1>10, <2>1, PushedEffect DEF Notify, Longer
  <2>3. UNCHANGED <<socket, up, down, sock, readers, garbled, seen, accepted, session, closing,
                    buffered, ended, handed, recvQueue, headerSent, member>>
    BY <1>10 DEF Notify, clientVars, workerVars
  <2>4. QED
    BY <2>2, <2>3 DEF Typed, Made
<1>11. CASE SendHeader
  <2>1. sendQueue # <<>> /\ SentTo(Header(Head(sendQueue))) /\ headerSent' = TRUE
        /\ UNCHANGED <<socket, up, sock, readers, garbled, seen, accepted, session, closing,
                       buffered, ended, handed, recvQueue, sendQueue, member, pushed>>
    BY <1>11 DEF SendHeader, clientVars, workerVars
  <2>2. Header(Head(sendQueue)) \in Seq(Unit)
    BY <2>1, FrontOfQueue, HeaderUnits
  <2>3. down' \in Seq(Stream) /\ Len(down') = Len(down)
    <3>1. CASE IsOpen(session)
      BY <2>1, <2>2, <3>1, DownAfterSend
    <3>2. CASE ~ IsOpen(session)
      BY <2>1, <3>2 DEF SentTo, Typed
    <3>3. QED
      BY <3>1, <3>2
  <2>4. QED
    BY <2>1, <2>3 DEF Typed, Made
<1>12. CASE SendBody
  <2>1. sendQueue # <<>> /\ SentTo(Body(Head(sendQueue))) /\ headerSent' = FALSE
        /\ sendQueue' = Tail(sendQueue)
        /\ UNCHANGED <<socket, up, sock, readers, garbled, seen, accepted, session, closing,
                       buffered, ended, handed, recvQueue, member, pushed>>
    BY <1>12 DEF SendBody, BodyOfFront, DownOK, clientVars, workerVars
  <2>2. Body(Head(sendQueue)) \in Seq(Unit) /\ sendQueue' \in Seq(Unit)
    BY <2>1, FrontOfQueue, BodyUnits
  <2>3. down' \in Seq(Stream) /\ Len(down') = Len(down)
    <3>1. CASE IsOpen(session)
      BY <2>1, <2>2, <3>1, DownAfterSend
    <3>2. CASE ~ IsOpen(session)
      BY <2>1, <3>2 DEF SentTo, Typed
    <3>3. QED
      BY <3>1, <3>2
  <2>4. QED
    BY <2>1, <2>2, <2>3 DEF Typed, Made
<1>13. CASE UNCHANGED vars
  BY <1>13 DEF vars, clientVars, workerVars, logicVars, queues, Typed, Made
<1>14. DOMAIN readers = Made
  BY Elements
<1>15. QED
  BY <1>1, <1>2, <1>3, <1>4, <1>5, <1>6, <1>7, <1>8, <1>9, <1>10, <1>11, <1>12, <1>13, <1>14
     DEF Next, ReaderStep
-----------------------------------------------------------------------------
(* What the server makes of what its clients send                          *)

\* v begins with u, and a packet p follows.
Sent(v, u, p) ==
  /\ v \in Seq(Unit) /\ u \in Seq(Unit) /\ p \in Unit
  /\ Len(v) = Len(u) + Size(p)
  /\ \A i \in 1 .. Len(u) : v[i] = u[i]
  /\ v[Len(u) + 1] = p
  /\ \A i \in 2 .. Size(p) : ~ IsFirst(v[Len(u) + i])

\* A stream of whole packets stays one when a packet is sent, and ends of packets
\* stay what they are.
LEMMA LawfulSent ==
  ASSUME NEW u, NEW v, NEW p, NEW k \in Nat \ {0}, Sent(v, u, p), p.for = k, Lawful(u, k)
  PROVE  Lawful(v, k) /\ \A b : Boundary(u, b) => Boundary(v, b)
<1>1. PICK n \in Nat, s \in Nat \ {0} :
        /\ n = Len(u) /\ s = Size(p) /\ Len(v) = n + s /\ u \in Seq(Unit) /\ v \in Seq(Unit)
        /\ \A i \in 1 .. n : v[i] = u[i]
        /\ v[n + 1] = p
        /\ \A i \in 2 .. s : ~ IsFirst(v[n + i])
  <2>1. Size(p) \in Nat \ {0} /\ Len(u) \in Nat
    BY Sizes, LenProperties DEF Sent
  <2>2. QED
    BY <2>1 DEF Sent
<1>2. IsFirst(p)
  BY DEF IsFirst
<1>3. \A i \in n + 2 .. n + s : ~ IsFirst(v[i])
  <2>1. ASSUME NEW i \in n + 2 .. n + s PROVE ~ IsFirst(v[i])
    <3>1. i - n \in 2 .. s /\ n + (i - n) = i
      OBVIOUS
    <3>2. ~ IsFirst(v[n + (i - n)])
      BY <1>1, <3>1
    <3>3. QED
      BY <3>1, <3>2
  <2>2. QED
    BY <2>1
<1>4. v # <<>> => IsFirst(v[1])
  <2>1. CASE n = 0
    <3>1. v[1] = p
      BY <1>1, <2>1
    <3>2. QED
      BY <1>2, <3>1
  <2>2. CASE n # 0
    <3>1. 1 \in 1 .. n /\ u # <<>>
      BY <1>1, <2>2
    <3>2. v[1] = u[1] /\ IsFirst(u[1])
      BY <1>1, <3>1 DEF Lawful
    <3>3. QED
      BY <3>2
  <2>3. QED
    BY <2>1, <2>2
<1>5. ASSUME NEW i \in 1 .. n + s, IsFirst(v[i])
      PROVE  /\ v[i].for = k
             /\ i + Size(v[i]) <= n + s + 1
             /\ i + Size(v[i]) <= n + s => IsFirst(v[i + Size(v[i])])
             /\ \A j \in i + 1 .. i + Size(v[i]) - 1 : ~ IsFirst(v[j])
  <2>1. CASE i <= n
    <3>1. i \in 1 .. n
      BY <1>1, <2>1
    <3>2. PICK m \in Nat : m = Size(u[i])
      BY <1>1, <3>1, UnitAt
    <3>3. v[i] = u[i] /\ IsFirst(u[i])
      BY <1>1, <1>5, <3>1
    <3>4. /\ u[i].for = k /\ i + m <= n + 1
          /\ i + m <= n => IsFirst(u[i + m])
          /\ \A j \in i + 1 .. i + m - 1 : ~ IsFirst(u[j])
      BY <1>1, <3>1, <3>2, <3>3 DEF Lawful
    <3>5. i + m <= n + s + 1
      BY <1>1, <3>1, <3>4
    <3>6. IsFirst(v[i + m])
      <4>1. CASE i + m <= n
        <5>1. i + m \in 1 .. n
          BY <1>1, <3>1, <3>2, <4>1
        <5>2. QED
          BY <1>1, <3>4, <4>1, <5>1
      <4>2. CASE i + m = n + 1
        BY <1>1, <1>2, <4>2
      <4>3. QED
        <5>1. i + m <= n + 1 /\ i \in Nat /\ m \in Nat
          BY <3>1, <3>2, <3>4
        <5>2. i + m <= n \/ i + m = n + 1
          BY <5>1
        <5>3. QED
          BY <4>1, <4>2, <5>2
    <3>7. \A j \in i + 1 .. i + m - 1 : j \in 1 .. n
      BY <1>1, <3>1, <3>2, <3>4, SMTT(30)
    <3>8. \A j \in i + 1 .. i + m - 1 : ~ IsFirst(v[j])
      BY <1>1, <3>4, <3>7
    <3>9. QED
      BY <3>2, <3>3, <3>4, <3>5, <3>6, <3>8
  <2>2. CASE i = n + 1
    <3>1. v[i] = p /\ Size(v[i]) = s
      BY <1>1, <2>2
    <3>2. i + s = n + s + 1 /\ ~ (i + s <= n + s) /\ i + s <= n + s + 1
      BY <2>2
    <3>3. \A j \in i + 1 .. i + s - 1 : j \in n + 2 .. n + s
      BY <2>2
    <3>4. \A j \in i + 1 .. i + Size(v[i]) - 1 : ~ IsFirst(v[j])
      BY <1>3, <3>1, <3>3
    <3>5. QED
      BY <3>1, <3>2, <3>4
  <2>3. CASE i > n + 1
    <3>1. i \in n + 2 .. n + s
      BY <2>3
    <3>2. QED
      BY <1>3, <1>5, <3>1
  <2>4. QED
    BY <2>1, <2>2, <2>3
<1>6. Lawful(v, k)
  BY <1>1, <1>4, <1>5 DEF Lawful
<1>7. ASSUME NEW b, Boundary(u, b) PROVE Boundary(v, b)
  <2>1. b \in 0 .. n /\ (b < n => IsFirst(u[b + 1]))
    BY <1>1, <1>7 DEF Boundary
  <2>2. CASE b < n
    BY <1>1, <2>1, <2>2, SMTT(30) DEF Boundary
  <2>3. CASE b = n
    BY <1>1, <1>2, <2>3 DEF Boundary
  <2>4. QED
    BY <1>1, <2>1, <2>2, <2>3
<1>8. QED
  BY <1>6, <1>7

\* Where packets began does not change when more is sent.
LEMMA PlacesKept ==
  ASSUME NEW places, NEW u, NEW v, NEW m \in Nat, NEW n \in 0 .. m,
         AllPackets(places, u, n), \A i \in 1 .. m : v[i] = u[i]
  PROVE  AllPackets(places, v, n)
<1>1. {i \in 1 .. n : IsFirst(u[i])} = {i \in 1 .. n : IsFirst(v[i])}
  <2>1. \A i \in 1 .. n : i \in 1 .. m
    OBVIOUS
  <2>2. QED
    BY <2>1
<1>2. QED
  BY <1>1 DEF AllPackets

\* No packet begins before the first unit.
LEMMA NoPlaces ==
  ASSUME NEW u
  PROVE  AllPackets(<<>>, u, 0)
BY DEF AllPackets, ToSet

\* The packet behind n units is the next place, and the only one until it ends.
LEMMA NextPlace ==
  ASSUME NEW places \in Seq(Nat), NEW u, NEW n \in Nat, NEW m \in Nat, n + 1 <= m,
         AllPackets(places, u, n), IsFirst(u[n + 1]), \A j \in n + 2 .. m : ~ IsFirst(u[j])
  PROVE  AllPackets(Append(places, n + 1), u, m)
<1>1. PICK l \in Nat, q \in Nat, new \in Seq(Nat) :
        l = Len(places) /\ q = n + 1 /\ new = Append(places, q)
  <2>1. n + 1 \in Nat /\ Len(places) \in Nat
    BY LenProperties
  <2>2. Append(places, n + 1) \in Seq(Nat)
    BY <2>1, AppendProperties
  <2>3. QED
    BY <2>1, <2>2
<1>2. /\ Len(new) = l + 1 /\ \A i \in 1 .. l : new[i] = places[i]
      /\ new[l + 1] = q /\ DOMAIN new = 1 .. l + 1 /\ DOMAIN places = 1 .. l
  BY <1>1, OneMore, LenProperties
<1>3. ToSet(places) = {i \in 1 .. n : IsFirst(u[i])}
  BY DEF AllPackets
<1>4. \A a \in 1 .. l : places[a] \in 1 .. n
  BY <1>2, <1>3 DEF ToSet
<1>5. ASSUME NEW a \in 1 .. l + 1, NEW b \in 1 .. l + 1, a < b
      PROVE  new[a] < new[b]
  <2>1. CASE b <= l
    <3>1. a \in 1 .. l /\ b \in 1 .. l
      BY <1>5, <2>1
    <3>2. places[a] < places[b]
      BY <1>2, <1>5, <3>1 DEF AllPackets
    <3>3. QED
      BY <1>2, <3>1, <3>2
  <2>2. CASE b = l + 1
    <3>1. a \in 1 .. l
      BY <1>5, <2>2
    <3>2. new[a] \in 1 .. n /\ new[b] = q
      BY <1>2, <1>4, <2>2, <3>1
    <3>3. QED
      BY <1>1, <3>2
  <2>3. QED
    BY <2>1, <2>2
<1>6. ToSet(new) = ToSet(places) \cup {q}
  <2>1. ToSet(new) = {new[i] : i \in 1 .. l + 1} /\ ToSet(places) = {places[i] : i \in 1 .. l}
    BY <1>2 DEF ToSet
  <2>2. 1 .. l + 1 = (1 .. l) \cup {l + 1}
    OBVIOUS
  <2>3. QED
    BY <1>2, <2>1, <2>2
<1>7. {i \in 1 .. m : IsFirst(u[i])} = {i \in 1 .. n : IsFirst(u[i])} \cup {q}
  <2>1. ASSUME NEW i \in 1 .. m PROVE i \in 1 .. n \/ i = q \/ i \in n + 2 .. m
    BY <1>1
  <2>2. q \in 1 .. m /\ IsFirst(u[q]) /\ \A i \in 1 .. n : i \in 1 .. m
    BY <1>1
  <2>3. QED
    BY <2>1, <2>2
<1>8. AllPackets(new, u, m)
  BY <1>2, <1>3, <1>5, <1>6, <1>7 DEF AllPackets
<1>9. QED
  BY <1>1, <1>8

\* One stream of several
LEMMA StreamAt ==
  ASSUME NEW s \in Seq(Stream), NEW k \in 1 .. Len(s)
  PROVE  /\ s[k].data \in Seq(Unit) /\ Len(s[k].data) \in Nat
         /\ s[k].taken \in Nat
<1>1. s[k] \in Stream
  BY ElementOfSeq
<1>2. s[k].data \in Seq(Unit) /\ s[k].taken \in Nat
  BY <1>1 DEF Stream
<1>3. QED
  BY <1>2, LenProperties

\* The server's part of the streams
WaitingOK(k) ==
  /\ Lawful(up[k].data, k)
  /\ up[k].taken <= Len(up[k].data)
  /\ k > accepted => up[k].taken = 0 /\ handed[k] = <<>>

ServedOK(k) ==
  /\ buffered <= up[k].taken
  /\ Boundary(up[k].data, up[k].taken - buffered)
  /\ AllPackets(handed[k], up[k].data, up[k].taken - buffered)

\* Packets sent by the client keep every stream lawful.
LEMMA UpAfterSend ==
  ASSUME Typed, UpOK, NEW b \in Bodies, sendPacket(b)
  PROVE  UpOK'
<1>1. PICK k \in Made, p \in Unit :
           /\ k = sock /\ p.for = k /\ ~ ended
           /\ up' \in Seq(Stream) /\ Len(up') = Len(up)
           /\ \A j \in Made : j # k => up'[j] = up[j]
           /\ up'[k].taken = up[k].taken
           /\ Size(p) \in Nat \ {0}
           /\ Len(up'[k].data) = Len(up[k].data) + Size(p)
           /\ \A i \in 1 .. Len(up[k].data) : up'[k].data[i] = up[k].data[i]
           /\ up'[k].data[Len(up[k].data) + 1] = p
           /\ \A i \in 2 .. Size(p) : ~ IsFirst(up'[k].data[Len(up[k].data) + i])
  BY SendPacketEffect
<1>2. UNCHANGED <<socket, accepted, session, buffered, ended, handed>>
  BY DEF sendPacket, clientVars, workerVars
<1>3. Made' = Made /\ Made = 1 .. Len(up)
  BY <1>2 DEF Made, Typed
<1>4. /\ up[k].data \in Seq(Unit) /\ up[k].taken \in Nat /\ Len(up[k].data) \in Nat
      /\ k \in Nat \ {0}
  BY Elements
<1>5. Sent(up'[k].data, up[k].data, p)
  <2>1. up'[k].data \in Seq(Unit)
    BY <1>1, <1>3, StreamAt
  <2>2. QED
    BY <1>1, <1>4, <2>1 DEF Sent
<1>6. Lawful(up[k].data, k) /\ up[k].taken <= Len(up[k].data)
  BY DEF UpOK
<1>7. /\ Lawful(up'[k].data, k)
      /\ \A c : Boundary(up[k].data, c) => Boundary(up'[k].data, c)
  BY <1>1, <1>4, <1>5, <1>6, LawfulSent
<1>8. up'[k].taken <= Len(up'[k].data)
  BY <1>1, <1>4, <1>6
<1>9. \A j \in Made : WaitingOK(j)'
  <2>1. \A j \in Made : WaitingOK(j)
    BY DEF UpOK, WaitingOK
  <2>2. ASSUME NEW j \in Made, j # k PROVE WaitingOK(j)'
    BY <1>1, <1>2, <2>1, <2>2 DEF WaitingOK
  <2>3. WaitingOK(k)'
    BY <1>1, <1>2, <1>7, <1>8, <2>1 DEF WaitingOK
  <2>4. QED
    BY <2>2, <2>3
<1>10. ASSUME session # 0, ~ ended PROVE ServedOK(session)'
  <2>1. ServedOK(session)
    BY <1>10 DEF UpOK, ServedOK
  <2>2. session \in Made /\ session' = session
    BY <1>2, <1>10, Elements DEF Typed, Made
  <2>3. CASE session # k
    BY <1>1, <1>2, <2>1, <2>2, <2>3 DEF ServedOK
  <2>4. CASE session = k
    <3>1. /\ buffered <= up[k].taken /\ Boundary(up[k].data, up[k].taken - buffered)
          /\ AllPackets(handed[k], up[k].data, up[k].taken - buffered)
      BY <2>1, <2>4 DEF ServedOK
    <3>2. up[k].taken - buffered \in 0 .. Len(up[k].data)
      BY <3>1 DEF Boundary
    <3>3. AllPackets(handed[k], up'[k].data, up[k].taken - buffered)
      BY <1>1, <1>4, <3>1, <3>2, PlacesKept
    <3>4. QED
      BY <1>1, <1>2, <1>7, <2>4, <3>1, <3>3 DEF ServedOK
  <2>5. QED
    BY <2>3, <2>4
<1>11. QED
  BY <1>2, <1>3, <1>9, <1>10 DEF UpOK, WaitingOK, ServedOK

\* What a worker thread makes are the packets that were sent.
LEMMA UpAfterWorker ==
  ASSUME Typed, UpOK, WorkerThread
  PROVE  UpOK'
<1>1. PICK k, n, q :
        /\ k \in Made /\ n \in Nat \ {0} /\ q \in 1 .. Len(up[k].data)
        /\ k = session /\ ~ ended /\ k = accepted
        /\ buffered \in Nat /\ buffered <= up[k].taken
        /\ up[k].taken + n <= Len(up[k].data)
        /\ q = up[k].taken - buffered + 1
        /\ \A j \in Made : j # k => up'[j] = up[j]
        /\ \A j \in Made : up'[j].data = up[j].data
        /\ up'[k].taken = up[k].taken + n
        /\ \/ /\ Size(up[k].data[q]) >= buffered + n
              /\ handed'[k] = Append(handed[k], q)
              /\ \A j \in Made : j # k => handed'[j] = handed[j]
              /\ buffered' = 0
              /\ ended' \in BOOLEAN /\ (ended' <=> Size(up[k].data[q]) > buffered + n)
           \/ /\ buffered' = buffered + n
              /\ UNCHANGED <<handed, ended>>
  BY WorkerEffect, ZenonT(40)
<1>2. UNCHANGED <<socket, accepted, session>> /\ Made' = Made
  BY DEF WorkerThread, clientVars, Made
<1>3. PICK units \in Seq(Unit), len \in Nat, t \in Nat, s \in Nat \ {0}, m \in Nat, b \in Nat :
        /\ units = up[k].data /\ len = Len(units) /\ t = up[k].taken
        /\ s = Size(units[q]) /\ b = buffered /\ m = t - b
  <2>1. /\ up[k].data \in Seq(Unit) /\ up[k].taken \in Nat /\ Len(up[k].data) \in Nat
        /\ Size(up[k].data[q]) \in Nat \ {0}
    BY <1>1, Elements, UnitAt
  <2>2. up[k].taken - buffered \in Nat
    BY <1>1, <2>1, SMTT(30)
  <2>3. QED
    BY <1>1, <2>1, <2>2, ZenonT(40)
<1>4. q = m + 1 /\ t + n <= len /\ q \in 1 .. len
  BY <1>1, <1>3
<1>5. /\ Lawful(units, k) /\ Boundary(units, m) /\ AllPackets(handed[k], units, m)
      /\ k # 0 /\ handed[k] \in Seq(Nat)
  BY <1>1, <1>3, Elements DEF UpOK
<1>6. IsFirst(units[q])
  <2>1. m < Len(units)
    <3>1. len = Len(units)
      BY <1>3
    <3>2. m < len
      BY <1>4
    <3>3. QED
      BY <3>1, <3>2
  <2>2. IsFirst(units[m + 1])
    BY <1>5, <2>1 DEF Boundary
  <2>3. QED
    BY <1>4, <2>2
<1>7. /\ q + s <= len + 1 /\ (q + s <= len => IsFirst(units[q + s]))
      /\ \A j \in q + 1 .. q + s - 1 : ~ IsFirst(units[j])
  BY <1>3, <1>4, <1>5, <1>6 DEF Lawful
<1>8. \A j \in Made : WaitingOK(j)'
  <2>1. \A j \in Made : WaitingOK(j)
    BY DEF UpOK, WaitingOK
  <2>2. ASSUME NEW j \in Made, j # k PROVE WaitingOK(j)'
    BY <1>1, <1>2, <2>1, <2>2 DEF WaitingOK
  <2>3. WaitingOK(k)'
    <3>1. up'[k].taken = t + n /\ up'[k].data = units /\ t + n <= Len(units)
      BY <1>1, <1>3, <1>4
    <3>2. k = accepted /\ accepted \in Nat /\ ~ (k > accepted)
      BY <1>1, Elements
    <3>3. QED
      BY <1>2, <1>5, <3>1, <3>2 DEF WaitingOK
  <2>4. QED
    BY <2>2, <2>3
<1>9. ASSUME ~ ended' PROVE ServedOK(k)'
  <2>1. up'[k].data = units /\ up'[k].taken = t + n
    BY <1>1, <1>3
  <2>2. CASE buffered' = b + n /\ handed' = handed
    <3>1. up'[k].taken - buffered' = m /\ buffered' <= up'[k].taken
      <4>1. m = t - b
        BY <1>3
      <4>2. (t + n) - (b + n) = m /\ b + n <= t + n
        BY <1>1, <4>1
      <4>3. QED
        BY <2>1, <2>2, <4>2
    <3>2. QED
      BY <1>5, <2>1, <2>2, <3>1 DEF ServedOK
  <2>3. CASE s = b + n /\ buffered' = 0 /\ handed'[k] = Append(handed[k], q)
    <3>1. up'[k].taken - buffered' = m + s /\ buffered' <= up'[k].taken /\ m + s = t + n
      <4>1. n \in Nat /\ m = t - b /\ s = b + n
        BY <1>1, <1>3, <2>3
      <4>2. m + s = t + n /\ (t + n) - 0 = m + s /\ 0 <= t + n
        BY <4>1
      <4>3. QED
        BY <2>1, <2>3, <4>2
    <3>2. Boundary(units, m + s)
      <4>1. m + s \in 0 .. len /\ q + s = m + s + 1 /\ (m + s < len => q + s <= len)
        BY <1>4, <1>7
      <4>2. m + s < len => IsFirst(units[m + s + 1])
        BY <1>7, <4>1
      <4>3. QED
        BY <1>3, <4>1, <4>2 DEF Boundary
    <3>3. AllPackets(Append(handed[k], m + 1), units, m + s)
      <4>1. \A j \in m + 2 .. m + s : ~ IsFirst(units[j])
        BY <1>4, <1>7
      <4>2. m + s \in Nat /\ m + 1 <= m + s
        OBVIOUS
      <4>3. QED
        BY <1>4, <1>5, <1>6, <4>1, <4>2, NextPlace
    <3>4. QED
      BY <1>4, <2>1, <2>3, <3>1, <3>2, <3>3 DEF ServedOK
  <2>4. QED
    <3>1. \/ buffered' = b + n /\ handed' = handed
          \/ s >= b + n /\ ~ (s > b + n) /\ buffered' = 0 /\ handed'[k] = Append(handed[k], q)
      BY <1>1, <1>3, <1>9
    <3>2. s >= b + n /\ ~ (s > b + n) => s = b + n
      BY <1>1, SMTT(30)
    <3>3. QED
      BY <2>2, <2>3, <3>1, <3>2
<1>10. QED
  BY <1>1, <1>2, <1>8, <1>9 DEF UpOK, WaitingOK, ServedOK

\* A session begins with a packet.
LEMMA UpAfterAccept ==
  ASSUME Typed, UpOK, Accept
  PROVE  UpOK'
<1>1. /\ accepted' = accepted + 1 /\ session' \in {0, accepted + 1} /\ buffered' = 0
      /\ accepted < Len(socket) /\ UNCHANGED <<socket, up, ended, handed>>
  BY DEF Accept, clientVars
<1>2. accepted \in Nat /\ Len(socket) \in Nat /\ Made' = Made /\ accepted + 1 \in Made
  BY <1>1, Elements DEF Typed, Made
<1>3. \A j \in Made : WaitingOK(j) /\ j \in Nat
  BY Elements DEF UpOK, WaitingOK
<1>4. \A j \in Made : WaitingOK(j)'
  BY <1>1, <1>2, <1>3 DEF WaitingOK
<1>5. PICK k \in Made : k = accepted + 1
  BY <1>2
<1>6. /\ up[k].taken = 0 /\ handed[k] = <<>> /\ Lawful(up[k].data, k)
      /\ up[k].data \in Seq(Unit) /\ Len(up[k].data) \in Nat
  BY <1>2, <1>3, <1>5, Elements DEF WaitingOK
<1>7. Boundary(up[k].data, 0)
  BY <1>6 DEF Boundary, Lawful
<1>8. ServedOK(k)'
  <2>1. up'[k].taken - buffered' = 0 /\ buffered' <= up'[k].taken
    BY <1>1, <1>6
  <2>2. QED
    BY <1>1, <1>6, <1>7, <2>1, NoPlaces DEF ServedOK
<1>9. QED
  BY <1>1, <1>2, <1>4, <1>5, <1>8 DEF UpOK, WaitingOK, ServedOK

\* A new connection has sent nothing.
LEMMA UpAfterConnect ==
  ASSUME Typed, UpOK, connectTcp
  PROVE  UpOK'
<1>1. PICK n \in Nat :
        /\ n = Len(socket) + 1 /\ Len(socket') = n
        /\ up'[n] = NoData /\ \A k \in Made : up'[k] = up[k]
        /\ handed'[n] = <<>> /\ \A k \in Made : handed'[k] = handed[k]
  BY Elements, ConnectEffect
<1>2. UNCHANGED <<accepted, session, buffered, ended>>
  BY DEF connectTcp
<1>3. Made' = Made \cup {n}
  BY <1>1, Elements DEF Made
<1>4. \A j \in Made : WaitingOK(j)'
  BY <1>1, <1>2 DEF UpOK, WaitingOK
<1>5. WaitingOK(n)'
  BY <1>1, <1>2 DEF WaitingOK, NoData, Lawful
<1>6. ASSUME session # 0, ~ ended PROVE ServedOK(session)'
  <2>1. ServedOK(session) /\ session \in Made
    BY <1>6, Elements DEF UpOK, ServedOK, Typed, Made
  <2>2. QED
    BY <1>1, <1>2, <2>1 DEF ServedOK
<1>7. QED
  BY <1>2, <1>3, <1>4, <1>5, <1>6 DEF UpOK, WaitingOK, ServedOK

\* However a client's stream is cut, what the server makes of it are its packets.
LEMMA UpStep ==
  ASSUME Typed, UpOK, [Next]_vars
  PROVE  UpOK'
<1>1. CASE Len(socket') = Len(socket) /\ UNCHANGED <<up, accepted, ended, handed, buffered>>
           /\ session' \in {session, 0}
  BY <1>1 DEF UpOK, Made
<1>2. CASE disconnectTcp
  BY <1>1, <1>2, SocketsAfterClose DEF disconnectTcp, workerVars
<1>3. CASE ReaderStep
  BY <1>1, <1>3 DEF ReaderStep, Recv, RecvNothing, Dispatch, RecvNext, workerVars
<1>4. CASE CloseSession \/ PushClose \/ HandlePacket \/ Notify \/ SendHeader \/ SendBody
  BY <1>1, <1>4 DEF CloseSession, PushClose, HandlePacket, Notify, SendHeader, SendBody,
                    clientVars, workerVars
<1>5. CASE UNCHANGED vars
  BY <1>1, <1>5 DEF vars, clientVars, workerVars
<1>6. QED
  BY <1>2, <1>3, <1>4, <1>5, UpAfterConnect, UpAfterSend, UpAfterAccept, UpAfterWorker DEF Next

-----------------------------------------------------------------------------
(* The order in the queues                                                 *)

\* What is in the queues is for connections with numbers.
LEMMA QueueTypes ==
  ASSUME Typed
  PROVE  /\ Len(recvQueue) \in Nat /\ Len(sendQueue) \in Nat
         /\ accepted \in Nat /\ member \in Nat
         /\ \A i \in 1 .. Len(recvQueue) : recvQueue[i].packet.for \in Nat
         /\ \A i \in 1 .. Len(sendQueue) : sendQueue[i].for \in Nat
         /\ \A k \in Made : \A i \in 1 .. Len(down[k].data) : down[k].data[i].for \in Nat
<1>1. recvQueue \in Seq(RecvPacketInfo) /\ sendQueue \in Seq(Unit)
  BY DEF Typed
<1>2. Len(recvQueue) \in Nat /\ Len(sendQueue) \in Nat
  BY <1>1, LenProperties
<1>3. accepted \in Nat /\ member \in Nat
  BY Elements DEF Typed
<1>4. \A i \in 1 .. Len(recvQueue) : recvQueue[i].packet.for \in Nat
  <2>1. ASSUME NEW i \in 1 .. Len(recvQueue) PROVE recvQueue[i].packet.for \in Nat
    <3>1. recvQueue[i] \in RecvPacketInfo
      BY <1>1, ElementOfSeq
    <3>2. recvQueue[i].packet \in Unit
      BY <3>1 DEF RecvPacketInfo
    <3>3. recvQueue[i].packet.for \in 0 .. MaxConnections
      BY <3>2, Sizes
    <3>4. QED
      BY <3>3
  <2>2. QED
    BY <2>1
<1>5. \A i \in 1 .. Len(sendQueue) : sendQueue[i].for \in Nat
  BY <1>1, UnitAt
<1>6. \A k \in Made : \A i \in 1 .. Len(down[k].data) : down[k].data[i].for \in Nat
  BY Elements, UnitAt
<1>7. QED
  BY <1>2, <1>3, <1>4, <1>5, <1>6

\* The clients have got no headers but those that were ahead of the queues.
OnlyOldFirsts ==
  \A k \in Made' : \A i \in 1 .. Len(down'[k].data) :
    IsFirst(down'[k].data[i]) => \E n \in Nat : n = down'[k].data[i].for /\ AheadOfQueue(n)

\* So it is when nothing is sent to a client.
LEMMA NothingSent ==
  ASSUME Typed, QueuesOK, Made' = Made, \A k \in Made : down'[k].data = down[k].data
  PROVE  OnlyOldFirsts
BY QueueTypes DEF OnlyOldFirsts, QueuesOK, DownAhead

\* The queues stay ordered while nothing is taken from them or put into them.
LEMMA QueuesKept ==
  ASSUME Typed, QueuesOK, OnlyOldFirsts, UNCHANGED <<recvQueue, sendQueue, member>>,
         accepted' \in Nat, accepted' >= accepted
  PROVE  QueuesOK'
<1>1. \A n \in Nat : Later(n) => Later(n)'
  BY QueueTypes DEF Later
<1>2. \A n \in Nat : Ahead(n) => Ahead(n)'
  BY <1>1 DEF Ahead
<1>3. \A n \in Nat : AheadOfQueue(n) => AheadOfQueue(n)'
  BY <1>2 DEF AheadOfQueue
<1>4. DownAhead'
  BY <1>3 DEF OnlyOldFirsts, DownAhead
<1>5. RecvOrdered'
  BY QueueTypes DEF QueuesOK, RecvOrdered
<1>6. SendOrdered'
  BY <1>2, QueueTypes DEF QueuesOK, SendOrdered
<1>7. Later(member)'
  BY <1>1, QueueTypes DEF QueuesOK, Later
<1>8. QED
  BY <1>4, <1>5, <1>6, <1>7 DEF QueuesOK

\* A packet of the last connection, or the notice that it was closed, is queued.
LEMMA QueuesReceived ==
  ASSUME Typed, QueuesOK, OnlyOldFirsts, UNCHANGED <<accepted, sendQueue, member>>,
         NEW e \in RecvPacketInfo, recvQueue' = Append(recvQueue, e),
         e.kind = "packet" => e.packet.for = accepted /\ accepted # 0
  PROVE  QueuesOK'
<1>1. PICK l \in Nat :
        /\ l = Len(recvQueue) /\ Len(recvQueue') = l + 1
        /\ \A i \in 1 .. l : recvQueue'[i] = recvQueue[i]
        /\ recvQueue'[l + 1] = e
  <2>1. recvQueue \in Seq(RecvPacketInfo) /\ Len(recvQueue) \in Nat
    BY QueueTypes DEF Typed
  <2>2. QED
    BY <2>1, OneMore
<1>2. \A n \in Nat : Later(n) => Later(n)'
  BY <1>1, QueueTypes DEF Later
<1>3. \A n \in Nat : Ahead(n) => Ahead(n)'
  BY <1>2 DEF Ahead
<1>4. \A n \in Nat : AheadOfQueue(n) => AheadOfQueue(n)'
  BY <1>3 DEF AheadOfQueue
<1>5. DownAhead'
  BY <1>4 DEF OnlyOldFirsts, DownAhead
<1>6. RecvOrdered'
  <2>1. ASSUME NEW i \in 1 .. l + 1, recvQueue'[i].kind = "packet"
        PROVE  /\ recvQueue'[i].packet.for \in 1 .. accepted
               /\ \A j \in 1 .. l + 1 :
                    j > i /\ recvQueue'[j].kind = "packet" =>
                      recvQueue'[i].packet.for <= recvQueue'[j].packet.for
    <3>1. CASE i \in 1 .. l
      <4>1. recvQueue'[i] = recvQueue[i] /\ recvQueue[i].kind = "packet"
        BY <1>1, <2>1, <3>1
      <4>2. recvQueue[i].packet.for \in 1 .. accepted
        BY <1>1, <3>1, <4>1 DEF QueuesOK, RecvOrdered
      <4>3. \A j \in 1 .. l : j > i /\ recvQueue[j].kind = "packet" =>
              recvQueue[i].packet.for <= recvQueue[j].packet.for
        BY <1>1, <3>1, <4>1 DEF QueuesOK, RecvOrdered
      <4>4. \A j \in 1 .. l + 1 : j \in 1 .. l \/ j = l + 1
        OBVIOUS
      <4>5. e.kind = "packet" => recvQueue[i].packet.for <= e.packet.for
        BY <4>2, QueueTypes
      <4>6. QED
        BY <1>1, <4>1, <4>2, <4>3, <4>4, <4>5
    <3>2. CASE i = l + 1
      <4>1. accepted \in 1 .. accepted \/ accepted = 0
        BY QueueTypes
      <4>2. QED
        BY <1>1, <2>1, <3>2, <4>1
    <3>3. i \in 1 .. l \/ i = l + 1
      OBVIOUS
    <3>4. QED
      BY <3>1, <3>2, <3>3
  <2>2. QED
    BY <1>1, <2>1 DEF RecvOrdered
<1>7. SendOrdered'
  BY <1>3, QueueTypes DEF QueuesOK, SendOrdered
<1>8. Later(member)'
  BY <1>1, QueueTypes DEF QueuesOK, Later
<1>9. QED
  BY <1>5, <1>6, <1>7, <1>8 DEF QueuesOK

\* The logic thread queues a packet for a connection that is not ahead of those
\* for which packets wait.
LEMMA SendOrderedKept ==
  ASSUME Typed, QueuesOK, NEW p \in Unit, Longer(sendQueue, p), p.for # 0, Ahead(p.for)',
         \A i \in 1 .. Len(sendQueue) : Ahead(sendQueue[i].for)' /\ sendQueue[i].for <= p.for
  PROVE  SendOrdered'
<1>1. PICK l \in Nat :
        /\ l = Len(sendQueue) /\ Len(sendQueue') = l + 1
        /\ \A i \in 1 .. l : sendQueue'[i] = sendQueue[i]
        /\ sendQueue'[l + 1] = p
  BY DEF Longer
<1>2. \A i \in 1 .. l + 1 : i \in 1 .. l \/ i = l + 1
  OBVIOUS
<1>3. ASSUME NEW i \in 1 .. l + 1
      PROVE  /\ sendQueue'[i].for # 0 /\ Ahead(sendQueue[i].for)'
             /\ \A j \in 1 .. l + 1 : j > i => sendQueue'[i].for <= sendQueue'[j].for
  <2>1. CASE i \in 1 .. l
    <3>1. PICK n \in Nat : n = sendQueue[i].for /\ n = sendQueue'[i].for
      BY <1>1, <2>1, QueueTypes
    <3>2. n # 0 /\ Ahead(n)' /\ n <= p.for
      BY <1>1, <2>1, <3>1 DEF QueuesOK, SendOrdered
    <3>3. \A j \in 1 .. l : j > i => n <= sendQueue'[j].for
      BY <1>1, <2>1, <3>1 DEF QueuesOK, SendOrdered
    <3>4. QED
      BY <1>1, <1>2, <3>1, <3>2, <3>3
  <2>2. CASE i = l + 1
    <3>1. sendQueue'[i] = p /\ \A j \in 1 .. l + 1 : ~ (j > i)
      BY <1>1, <2>2
    <3>2. PICK n \in Nat : n = p.for
      BY Sizes
    <3>3. QED
      BY <3>1, <3>2
  <2>3. QED
    BY <1>2, <2>1, <2>2
<1>4. QED
  BY <1>1, <1>3 DEF SendOrdered

\* The logic thread sends to the player of the packet it handles, or forgets who
\* is a player.
LEMMA QueuesHandled ==
  ASSUME Typed, QueuesOK, HandlePacket
  PROVE  QueuesOK'
<1>1. /\ Len(recvQueue') = Len(recvQueue) - 1 /\ Len(recvQueue) \in Nat \ {0}
      /\ \A i \in 1 .. Len(recvQueue') : recvQueue'[i] = recvQueue[i + 1]
  BY HandleEffect
<1>2. UNCHANGED <<socket, down, accepted>>
  BY DEF HandlePacket, clientVars, workerVars
<1>3. OnlyOldFirsts
  BY <1>2, NothingSent DEF Made
<1>4. \A n \in Nat : Later(n) => Later(n)'
  <2>1. \A i \in 1 .. Len(recvQueue') : i + 1 \in 1 .. Len(recvQueue)
    BY <1>1
  <2>2. QED
    BY <1>1, <1>2, <2>1 DEF Later
<1>5. RecvOrdered'
  <2>1. \A i \in 1 .. Len(recvQueue') :
          i \in Nat /\ i + 1 \in 1 .. Len(recvQueue)
    BY <1>1
  <2>2. \A i, j \in 1 .. Len(recvQueue') : j > i => j + 1 > i + 1
    BY <1>1
  <2>3. ASSUME NEW i \in 1 .. Len(recvQueue'), recvQueue'[i].kind = "packet"
        PROVE  /\ recvQueue'[i].packet.for \in 1 .. accepted
               /\ \A j \in 1 .. Len(recvQueue') :
                    j > i /\ recvQueue'[j].kind = "packet" =>
                      recvQueue'[i].packet.for <= recvQueue'[j].packet.for
    BY <1>1, <2>1, <2>2, <2>3 DEF QueuesOK, RecvOrdered
  <2>4. QED
    BY <1>2, <2>3 DEF RecvOrdered
<1>6. CASE /\ recvQueue[1].kind = "packet" /\ recvQueue[1].packet.for \in 1 .. accepted
           /\ member' = recvQueue[1].packet.for
           /\ \E p \in Unit : p.for = recvQueue[1].packet.for /\ Longer(sendQueue, p)
  <2>1. PICK p \in Unit : p.for = recvQueue[1].packet.for /\ Longer(sendQueue, p)
    BY <1>6
  <2>2. PICK f \in Nat : f = p.for /\ f = member' /\ f # 0 /\ f <= accepted
                         /\ f = recvQueue[1].packet.for
    <3>1. recvQueue[1].packet.for \in Nat /\ accepted \in Nat
      BY <1>1, QueueTypes
    <3>2. QED
      BY <1>6, <2>1, <3>1
  <2>3. 1 \in 1 .. Len(recvQueue)
    BY <1>1
  <2>4. \A n \in Nat : Later(n) => n <= f
    BY <1>6, <2>2, <2>3 DEF Later
  <2>5. Later(f)'
    <3>1. ASSUME NEW i \in 1 .. Len(recvQueue'), recvQueue'[i].kind = "packet"
          PROVE  f <= recvQueue'[i].packet.for
      <4>1. i + 1 \in 1 .. Len(recvQueue) /\ i + 1 > 1
        BY <1>1
      <4>2. QED
        BY <1>1, <1>6, <2>2, <2>3, <3>1, <4>1 DEF QueuesOK, RecvOrdered
    <3>2. QED
      BY <1>2, <2>2, <3>1 DEF Later
  <2>6. \A n \in Nat : Later(n) => Ahead(n)'
    BY <1>4, <2>2, <2>4 DEF Ahead
  <2>7. SendOrdered'
    <3>1. Ahead(p.for)'
      BY <2>2, <2>5 DEF Ahead
    <3>2. \A i \in 1 .. Len(sendQueue) : Ahead(sendQueue[i].for)' /\ sendQueue[i].for <= p.for
      <4>1. ASSUME NEW i \in 1 .. Len(sendQueue)
            PROVE  Ahead(sendQueue[i].for)' /\ sendQueue[i].for <= p.for
        <5>1. sendQueue'[i] = sendQueue[i]
          BY <2>1 DEF Longer
        <5>2. PICK n \in Nat : n = sendQueue[i].for
          BY QueueTypes
        <5>3. Later(n)
          BY <5>2 DEF QueuesOK, SendOrdered, Ahead
        <5>4. QED
          BY <2>2, <2>4, <2>6, <5>1, <5>2, <5>3
      <4>2. QED
        BY <4>1
    <3>3. QED
      BY <2>1, <2>2, <3>1, <3>2, SendOrderedKept
  <2>8. \A n \in Nat : AheadOfQueue(n) => AheadOfQueue(n)'
    <3>1. ASSUME NEW n \in Nat, AheadOfQueue(n) PROVE AheadOfQueue(n)'
      <4>1. Later(n) /\ Ahead(n)' /\ n <= f
        BY <2>4, <2>6, <3>1 DEF AheadOfQueue, Ahead
      <4>2. \A i \in 1 .. Len(sendQueue') : i \in 1 .. Len(sendQueue) \/ i = Len(sendQueue) + 1
        BY <2>1 DEF Longer
      <4>3. \A i \in 1 .. Len(sendQueue') : n <= sendQueue'[i].for
        BY <2>1, <2>2, <3>1, <4>1, <4>2 DEF AheadOfQueue, Longer
      <4>4. QED
        BY <4>1, <4>3 DEF AheadOfQueue
    <3>2. QED
      BY <3>1
  <2>9. DownAhead'
    BY <1>3, <2>8 DEF OnlyOldFirsts, DownAhead
  <2>10. QED
    BY <1>5, <2>2, <2>5, <2>7, <2>9 DEF QueuesOK
<1>7. CASE member' = 0 /\ UNCHANGED <<sendQueue, pushed>>
  <2>1. \A n \in Nat : Later(n) => Ahead(n)'
    BY <1>4, <1>7 DEF Ahead
  <2>2. SendOrdered'
    BY <1>7, <2>1, QueueTypes DEF QueuesOK, SendOrdered, Ahead
  <2>3. \A n \in Nat : AheadOfQueue(n) => AheadOfQueue(n)'
    BY <1>7, <2>1 DEF AheadOfQueue, Ahead
  <2>4. DownAhead'
    BY <1>3, <2>3 DEF OnlyOldFirsts, DownAhead
  <2>5. Later(0)
    BY QueueTypes DEF Later
  <2>6. Later(member)'
    BY <1>4, <1>7, <2>5
  <2>7. QED
    BY <1>5, <2>2, <2>4, <2>6 DEF QueuesOK
<1>8. QED
  BY <1>6, <1>7, HandleEffect

\* A notification is for the last player.
LEMMA QueuesNotified ==
  ASSUME Typed, QueuesOK, Notify
  PROVE  QueuesOK'
<1>1. UNCHANGED <<socket, down, accepted, recvQueue, member>> /\ member # 0 /\ Pushed(member)
  BY DEF Notify, clientVars, workerVars
<1>2. OnlyOldFirsts
  BY <1>1, NothingSent DEF Made
<1>3. \A n \in Nat : Ahead(n) => Ahead(n)'
  BY <1>1 DEF Ahead, Later
<1>4. PICK p \in Unit : p.for = member /\ Longer(sendQueue, p)
  <2>1. member \in 0 .. MaxConnections
    <3>1. member \in 0 .. Len(socket) /\ Len(socket) \in Nat /\ MaxConnections \in Nat
          /\ Len(socket) <= MaxConnections
      BY Elements, Sizes DEF Typed
    <3>2. QED
      BY <3>1
  <2>2. QED
    BY <1>1, <2>1, PushedEffect
<1>5. Ahead(member)
  BY QueueTypes DEF QueuesOK, Ahead
<1>6. \A n \in Nat : Ahead(n) => n <= p.for
  BY <1>1, <1>4 DEF Ahead
<1>7. SendOrdered'
  <2>1. Ahead(p.for)'
    BY <1>3, <1>4, <1>5, QueueTypes
  <2>2. \A i \in 1 .. Len(sendQueue) : Ahead(sendQueue[i].for)' /\ sendQueue[i].for <= p.for
    <3>1. ASSUME NEW i \in 1 .. Len(sendQueue)
          PROVE  Ahead(sendQueue[i].for)' /\ sendQueue[i].for <= p.for
      <4>1. sendQueue'[i] = sendQueue[i]
        BY <1>4 DEF Longer
      <4>2. PICK n \in Nat : n = sendQueue[i].for
        BY QueueTypes
      <4>3. Ahead(n)
        BY <4>2 DEF QueuesOK, SendOrdered
      <4>4. QED
        BY <1>3, <1>6, <4>1, <4>2, <4>3
    <3>2. QED
      BY <3>1
  <2>3. QED
    BY <1>1, <1>4, <2>1, <2>2, SendOrderedKept
<1>8. \A n \in Nat : AheadOfQueue(n) => AheadOfQueue(n)'
  <2>1. ASSUME NEW n \in Nat, AheadOfQueue(n) PROVE AheadOfQueue(n)'
    <3>1. Ahead(n)' /\ n <= p.for
      BY <1>3, <1>6, <2>1 DEF AheadOfQueue
    <3>2. \A i \in 1 .. Len(sendQueue') : i \in 1 .. Len(sendQueue) \/ i = Len(sendQueue) + 1
      BY <1>4 DEF Longer
    <3>3. \A i \in 1 .. Len(sendQueue') : n <= sendQueue'[i].for
      BY <1>4, <2>1, <3>1, <3>2 DEF AheadOfQueue, Longer
    <3>4. QED
      BY <3>1, <3>3 DEF AheadOfQueue
  <2>2. QED
    BY <2>1
<1>9. DownAhead'
  BY <1>2, <1>8 DEF OnlyOldFirsts, DownAhead
<1>10. RecvOrdered' /\ Later(member)'
  BY <1>1 DEF QueuesOK, RecvOrdered, Later
<1>11. QED
  BY <1>7, <1>9, <1>10 DEF QueuesOK

\* A header is sent to the session's client.
LEMMA HeaderEffect ==
  ASSUME Typed, SendHeader, IsOpen(session)
  PROVE  /\ session \in Made
         /\ \A k \in Made : k # session => down'[k] = down[k]
         /\ down'[session].data \in Seq(Unit)
         /\ down'[session].taken = down[session].taken
         /\ \E p \in Unit, l \in Nat : LET units == down'[session].data IN
              /\ p = sendQueue[1] /\ p = Head(sendQueue) /\ Len(sendQueue) \in Nat \ {0}
              /\ l = Len(down[session].data) /\ Len(units) = l + HeaderSize
              /\ \A i \in 1 .. l : units[i] = down[session].data[i]
              /\ units[l + 1] = p
              /\ \A i \in l + 2 .. l + HeaderSize : ~ IsFirst(units[i])
<1>1. sendQueue # <<>> /\ SentTo(Header(Head(sendQueue)))
  BY DEF SendHeader
<1>2. PICK p \in Unit : p = sendQueue[1] /\ p = Head(sendQueue) /\ Len(sendQueue) \in Nat \ {0}
  BY <1>1, FrontOfQueue
<1>3. PICK h \in Seq(Unit) : h = Header(p)
  BY HeaderUnits
<1>4. Len(h) = HeaderSize /\ h[1] = p /\ \A i \in 2 .. HeaderSize : ~ IsFirst(h[i])
  BY <1>3, HeaderUnits
<1>5. SentTo(h)
  BY <1>1, <1>2, <1>3
<1>6. /\ session \in Made /\ down' \in Seq(Stream) /\ Len(down') = Len(down)
      /\ \A k \in Made : k # session => down'[k] = down[k]
      /\ down'[session].taken = down[session].taken
      /\ Len(down'[session].data) = Len(down[session].data) + Len(h)
      /\ \A i \in 1 .. Len(down[session].data) :
           down'[session].data[i] = down[session].data[i]
      /\ \A i \in 1 .. Len(h) : down'[session].data[Len(down[session].data) + i] = h[i]
  BY <1>5, DownAfterSend
<1>7. down'[session].data \in Seq(Unit)
  <2>1. session \in 1 .. Len(down')
    BY <1>6 DEF Typed, Made
  <2>2. QED
    BY <1>6, <2>1, StreamAt
<1>8. PICK l \in Nat : l = Len(down[session].data)
  BY <1>6, Elements
<1>9. down'[session].data[l + 1] = p
  <2>1. 1 \in 1 .. Len(h)
    BY <1>4, Sizes
  <2>2. QED
    BY <1>4, <1>6, <1>8, <2>1
<1>10. ASSUME NEW i \in l + 2 .. l + HeaderSize PROVE ~ IsFirst(down'[session].data[i])
  <2>1. PICK x \in Nat : x \in 2 .. HeaderSize /\ x \in 1 .. HeaderSize /\ l + x = i
    <3>1. i - l \in Nat /\ i - l \in 2 .. HeaderSize /\ l + (i - l) = i
      BY Sizes
    <3>2. QED
      BY <3>1
  <2>2. down'[session].data[l + x] = h[x]
    BY <1>4, <1>6, <1>8, <2>1
  <2>3. QED
    BY <1>4, <2>1, <2>2
<1>11. QED
  BY <1>2, <1>4, <1>6, <1>7, <1>8, <1>9, <1>10

\* And a body.
LEMMA BodyEffect ==
  ASSUME Typed, DownOK, SendBody, IsOpen(session)
  PROVE  /\ session \in Made
         /\ \A k \in Made : k # session => down'[k] = down[k]
         /\ down'[session].data \in Seq(Unit)
         /\ down'[session].taken = down[session].taken
         /\ \E p \in Unit, l \in Nat : LET units == down'[session].data IN
              /\ p = sendQueue[1] /\ p = Head(sendQueue) /\ Len(sendQueue) \in Nat \ {0}
              /\ l = Len(down[session].data) /\ Len(units) = l + p.body
              /\ \A i \in 1 .. l : units[i] = down[session].data[i]
              /\ \A i \in l + 1 .. l + p.body : ~ IsFirst(units[i])
<1>1. sendQueue # <<>> /\ SentTo(Body(Head(sendQueue)))
  BY DEF SendBody, BodyOfFront, DownOK
<1>2. PICK p \in Unit : p = sendQueue[1] /\ p = Head(sendQueue) /\ Len(sendQueue) \in Nat \ {0}
  BY <1>1, FrontOfQueue
<1>3. PICK h \in Seq(Unit) : h = Body(p)
  BY BodyUnits
<1>4. Len(h) = p.body /\ \A i \in 1 .. p.body : ~ IsFirst(h[i])
  BY <1>3, BodyUnits
<1>5. SentTo(h)
  BY <1>1, <1>2, <1>3
<1>6. /\ session \in Made /\ down' \in Seq(Stream) /\ Len(down') = Len(down)
      /\ \A k \in Made : k # session => down'[k] = down[k]
      /\ down'[session].taken = down[session].taken
      /\ Len(down'[session].data) = Len(down[session].data) + Len(h)
      /\ \A i \in 1 .. Len(down[session].data) :
           down'[session].data[i] = down[session].data[i]
      /\ \A i \in 1 .. Len(h) : down'[session].data[Len(down[session].data) + i] = h[i]
  BY <1>5, DownAfterSend
<1>7. down'[session].data \in Seq(Unit)
  <2>1. session \in 1 .. Len(down')
    BY <1>6 DEF Typed, Made
  <2>2. QED
    BY <1>6, <2>1, StreamAt
<1>8. PICK l \in Nat : l = Len(down[session].data)
  BY <1>6, Elements
<1>9. ASSUME NEW i \in l + 1 .. l + p.body PROVE ~ IsFirst(down'[session].data[i])
  <2>1. PICK x \in Nat : x \in 1 .. p.body /\ l + x = i
    <3>1. i - l \in Nat /\ i - l \in 1 .. p.body /\ l + (i - l) = i
      BY Sizes
    <3>2. QED
      BY <3>1
  <2>2. down'[session].data[l + x] = h[x]
    BY <1>4, <1>6, <1>8, <2>1
  <2>3. QED
    BY <1>4, <2>1, <2>2
<1>10. Len(down'[session].data) = l + p.body
  BY <1>4, <1>6, <1>8
<1>11. /\ p = sendQueue[1] /\ p = Head(sendQueue) /\ Len(sendQueue) \in Nat \ {0}
       /\ l = Len(down[session].data) /\ Len(down'[session].data) = l + p.body
       /\ \A i \in 1 .. l : down'[session].data[i] = down[session].data[i]
       /\ \A i \in l + 1 .. l + p.body : ~ IsFirst(down'[session].data[i])
  BY <1>2, <1>6, <1>8, <1>9, <1>10
<1>12. QED
  BY <1>6, <1>7, <1>11, Zenon

\* A header goes to a client when those it is queued before are later ones.
LEMMA QueuesSentHeader ==
  ASSUME Typed, QueuesOK, SendHeader
  PROVE  QueuesOK'
<1>1. UNCHANGED <<socket, accepted, recvQueue, sendQueue, member>> /\ Made' = Made
  BY DEF SendHeader, clientVars, workerVars, Made
<1>2. OnlyOldFirsts
  <2>1. CASE ~ IsOpen(session)
    <3>1. down' = down
      BY <2>1 DEF SendHeader, SentTo
    <3>2. QED
      BY <1>1, <3>1, NothingSent
  <2>2. CASE IsOpen(session)
    <3>1. PICK p \in Unit, l \in Nat :
            /\ p = sendQueue[1] /\ Len(sendQueue) \in Nat \ {0}
            /\ l = Len(down[session].data) /\ Len(down'[session].data) = l + HeaderSize
            /\ \A i \in 1 .. l : down'[session].data[i] = down[session].data[i]
            /\ down'[session].data[l + 1] = p
            /\ \A i \in l + 2 .. l + HeaderSize : ~ IsFirst(down'[session].data[i])
      BY <2>2, HeaderEffect
    <3>2. PICK f \in Nat : f = p.for
      BY Sizes
    <3>3. AheadOfQueue(f)
      <4>1. 1 \in 1 .. Len(sendQueue)
        BY <3>1
      <4>2. Ahead(f) /\ \A j \in 1 .. Len(sendQueue) : j > 1 => f <= sendQueue[j].for
        BY <3>1, <3>2, <4>1 DEF QueuesOK, SendOrdered
      <4>3. \A j \in 1 .. Len(sendQueue) : j > 1 \/ j = 1
        BY <3>1
      <4>4. QED
        BY <3>1, <3>2, <4>2, <4>3 DEF AheadOfQueue
    <3>4. ASSUME NEW i \in 1 .. l + HeaderSize, IsFirst(down'[session].data[i])
          PROVE  \E n \in Nat : n = down'[session].data[i].for /\ AheadOfQueue(n)
      <4>1. CASE i \in 1 .. l
        <5>1. session \in Made
          BY <2>2, HeaderEffect
        <5>2. QED
          BY <3>1, <3>4, <4>1, <5>1, QueueTypes DEF QueuesOK, DownAhead
      <4>2. CASE i = l + 1
        BY <3>1, <3>2, <3>3, <4>2
      <4>3. i \in 1 .. l \/ i = l + 1 \/ i \in l + 2 .. l + HeaderSize
        BY Sizes
      <4>4. QED
        BY <3>1, <3>4, <4>1, <4>2, <4>3
    <3>5. ASSUME NEW k \in Made, k # session, NEW i \in 1 .. Len(down'[k].data),
                 IsFirst(down'[k].data[i])
          PROVE  \E n \in Nat : n = down'[k].data[i].for /\ AheadOfQueue(n)
      <4>1. down'[k] = down[k]
        BY <2>2, <3>5, HeaderEffect
      <4>2. QED
        BY <3>5, <4>1, QueueTypes DEF QueuesOK, DownAhead
    <3>6. ASSUME NEW k \in Made, NEW i \in 1 .. Len(down'[k].data), IsFirst(down'[k].data[i])
          PROVE  \E n \in Nat : n = down'[k].data[i].for /\ AheadOfQueue(n)
      <4>1. CASE k = session
        <5>1. i \in 1 .. l + HeaderSize /\ IsFirst(down'[session].data[i])
          BY <3>1, <3>6, <4>1
        <5>2. QED
          BY <3>4, <4>1, <5>1
      <4>2. CASE k # session
        BY <3>5, <3>6, <4>2
      <4>3. QED
        BY <4>1, <4>2
    <3>7. QED
      BY <1>1, <3>6 DEF OnlyOldFirsts
  <2>3. QED
    BY <2>1, <2>2
<1>3. QED
  BY <1>1, <1>2, QueueTypes, QueuesKept

\* A packet leaves the queue when its body is sent.
LEMMA QueuesSentBody ==
  ASSUME Typed, QueuesOK, DownOK, SendBody
  PROVE  QueuesOK'
<1>1. /\ UNCHANGED <<socket, accepted, recvQueue, member>> /\ Made' = Made
      /\ sendQueue # <<>> /\ sendQueue' = Tail(sendQueue)
  BY DEF SendBody, DownOK, clientVars, workerVars, Made
<1>2. PICK l \in Nat :
        /\ Len(sendQueue) = l + 1 /\ Len(sendQueue') = l
        /\ \A i \in 1 .. l : sendQueue'[i] = sendQueue[i + 1] /\ i + 1 \in 1 .. l + 1
  <2>1. /\ Len(sendQueue) \in Nat \ {0} /\ Len(sendQueue') = Len(sendQueue) - 1
        /\ \A i \in 1 .. Len(sendQueue') : sendQueue'[i] = sendQueue[i + 1]
    BY <1>1, FrontOfQueue
  <2>2. PICK l \in Nat : l = Len(sendQueue')
    BY <2>1
  <2>3. Len(sendQueue) = l + 1 /\ \A i \in 1 .. l : i + 1 \in 1 .. l + 1
    BY <2>1, <2>2
  <2>4. QED
    BY <2>1, <2>2, <2>3
<1>3. OnlyOldFirsts
  <2>1. CASE ~ IsOpen(session)
    <3>1. down' = down
      BY <2>1 DEF SendBody, SentTo
    <3>2. QED
      BY <1>1, <3>1, NothingSent
  <2>2. CASE IsOpen(session)
    <3>1. PICK p \in Unit, m \in Nat :
            /\ m = Len(down[session].data) /\ Len(down'[session].data) = m + p.body
            /\ \A i \in 1 .. m : down'[session].data[i] = down[session].data[i]
            /\ \A i \in m + 1 .. m + p.body : ~ IsFirst(down'[session].data[i])
      BY <2>2, BodyEffect
    <3>2. ASSUME NEW i \in 1 .. m + p.body, IsFirst(down'[session].data[i])
          PROVE  \E n \in Nat : n = down'[session].data[i].for /\ AheadOfQueue(n)
      <4>1. i \in 1 .. m \/ i \in m + 1 .. m + p.body
        BY Sizes
      <4>2. i \in 1 .. m
        BY <3>1, <3>2, <4>1
      <4>3. session \in Made
        BY <2>2, BodyEffect
      <4>4. QED
        BY <3>1, <3>2, <4>2, <4>3, QueueTypes DEF QueuesOK, DownAhead
    <3>3. ASSUME NEW k \in Made, k # session, NEW i \in 1 .. Len(down'[k].data),
                 IsFirst(down'[k].data[i])
          PROVE  \E n \in Nat : n = down'[k].data[i].for /\ AheadOfQueue(n)
      <4>1. down'[k] = down[k]
        BY <2>2, <3>3, BodyEffect
      <4>2. QED
        BY <3>3, <4>1, QueueTypes DEF QueuesOK, DownAhead
    <3>4. ASSUME NEW k \in Made, NEW i \in 1 .. Len(down'[k].data), IsFirst(down'[k].data[i])
          PROVE  \E n \in Nat : n = down'[k].data[i].for /\ AheadOfQueue(n)
      <4>1. CASE k = session
        <5>1. i \in 1 .. m + p.body /\ IsFirst(down'[session].data[i])
          BY <3>1, <3>4, <4>1
        <5>2. QED
          BY <3>2, <4>1, <5>1
      <4>2. CASE k # session
        BY <3>3, <3>4, <4>2
      <4>3. QED
        BY <4>1, <4>2
    <3>5. QED
      BY <1>1, <3>4 DEF OnlyOldFirsts
  <2>3. QED
    BY <2>1, <2>2
<1>4. \A n \in Nat : Ahead(n) => Ahead(n)'
  BY <1>1 DEF Ahead, Later
<1>5. \A n \in Nat : AheadOfQueue(n) => AheadOfQueue(n)'
  BY <1>2, <1>4 DEF AheadOfQueue
<1>6. DownAhead'
  BY <1>3, <1>5 DEF OnlyOldFirsts, DownAhead
<1>7. SendOrdered'
  <2>1. ASSUME NEW i \in 1 .. l
        PROVE  /\ sendQueue'[i].for # 0 /\ Ahead(sendQueue[i].for)'
               /\ \A j \in 1 .. l : j > i => sendQueue'[i].for <= sendQueue'[j].for
    <3>1. PICK n \in Nat : n = sendQueue[i + 1].for /\ n = sendQueue'[i].for
      BY <1>2, QueueTypes
    <3>2. n # 0 /\ Ahead(n)
      BY <1>2, <3>1 DEF QueuesOK, SendOrdered
    <3>3. \A j \in 1 .. l : j > i => j + 1 > i + 1
      OBVIOUS
    <3>4. \A j \in 1 .. l : j > i => n <= sendQueue[j + 1].for
      BY <1>2, <3>1, <3>3 DEF QueuesOK, SendOrdered
    <3>5. QED
      BY <1>2, <1>4, <3>1, <3>2, <3>4
  <2>2. QED
    BY <1>2, <2>1 DEF SendOrdered
<1>8. RecvOrdered' /\ Later(member)'
  BY <1>1 DEF QueuesOK, RecvOrdered, Later
<1>9. QED
  BY <1>6, <1>7, <1>8 DEF QueuesOK

\* A worker thread queues packets of the last connection.
LEMMA QueuesWorked ==
  ASSUME Typed, UpOK, QueuesOK, WorkerThread
  PROVE  QueuesOK'
<1>1. PICK k, n, q :
        /\ k \in Made /\ n \in Nat \ {0} /\ q \in 1 .. Len(up[k].data)
        /\ k = session /\ ~ ended /\ k = accepted
        /\ q = up[k].taken - buffered + 1
        /\ \/ recvQueue' = Append(recvQueue, [kind |-> "packet", packet |-> up[k].data[q]])
           \/ recvQueue' = recvQueue
  BY WorkerEffect, ZenonT(40)
<1>2. /\ UNCHANGED <<socket, down, accepted, sendQueue, member>> /\ Made' = Made
  BY DEF WorkerThread, clientVars, Made
<1>3. OnlyOldFirsts
  BY <1>2, NothingSent
<1>4. CASE recvQueue' = recvQueue
  BY <1>2, <1>3, <1>4, QueueTypes, QueuesKept
<1>5. CASE recvQueue' = Append(recvQueue, [kind |-> "packet", packet |-> up[k].data[q]])
  <2>1. PICK p \in Unit : p = up[k].data[q]
    BY <1>1, Elements, UnitAt
  <2>2. PICK e \in RecvPacketInfo : e = [kind |-> "packet", packet |-> p]
    BY DEF RecvPacketInfo
  <2>3. p.for = k /\ k # 0
    <3>1. PICK units \in Seq(Unit), m \in Nat :
            units = up[k].data /\ m = up[k].taken - buffered /\ m < Len(units) /\ q = m + 1
      <4>1. Boundary(up[k].data, up[k].taken - buffered) /\ k # 0
        BY <1>1, Elements DEF UpOK
      <4>2. up[k].data \in Seq(Unit) /\ Len(up[k].data) \in Nat
        BY <1>1, Elements
      <4>3. up[k].taken - buffered \in Nat
        BY <4>1, <4>2 DEF Boundary
      <4>4. PICK units \in Seq(Unit), m \in Nat :
              units = up[k].data /\ m = up[k].taken - buffered
        BY <4>2, <4>3
      <4>5. q = m + 1 /\ q \in 1 .. Len(units)
        BY <1>1, <4>4
      <4>6. m < Len(units)
        BY <4>2, <4>4, <4>5
      <4>7. QED
        BY <4>4, <4>5, <4>6
    <3>2. Lawful(units, k) /\ Boundary(units, m) /\ k # 0
      BY <1>1, <3>1, Elements DEF UpOK
    <3>3. IsFirst(units[m + 1])
      BY <3>1, <3>2 DEF Boundary
    <3>4. m + 1 \in 1 .. Len(units)
      BY <3>1, LenProperties
    <3>5. units[m + 1].for = k
      BY <3>2, <3>3, <3>4 DEF Lawful
    <3>6. QED
      BY <2>1, <3>1, <3>2, <3>5
  <2>4. recvQueue' = Append(recvQueue, e) /\ e.packet.for = accepted /\ accepted # 0
    BY <1>1, <1>5, <2>1, <2>2, <2>3
  <2>5. QED
    BY <1>2, <1>3, <2>4, QueuesReceived
<1>6. QED
  BY <1>1, <1>4, <1>5

\* What is queued is in the order of connections, whatever thread runs.
LEMMA QueuesStep ==
  ASSUME Typed, UpOK, QueuesOK, DownOK, [Next]_vars
  PROVE  QueuesOK'
<1>1. CASE /\ Made' = Made /\ \A k \in Made : down'[k].data = down[k].data
           /\ UNCHANGED <<recvQueue, sendQueue, member>> /\ accepted' \in {accepted, accepted + 1}
  <2>1. OnlyOldFirsts
    BY <1>1, NothingSent
  <2>2. accepted' \in Nat /\ accepted' >= accepted
    BY <1>1, QueueTypes
  <2>3. QED
    BY <1>1, <2>1, <2>2, QueuesKept
<1>2. CASE connectTcp
  <2>1. UNCHANGED <<recvQueue, sendQueue, member, accepted>>
    BY <1>2 DEF connectTcp, logicVars, queues
  <2>2. PICK n \in Nat : /\ n = Len(socket) + 1 /\ Len(socket') = n
                         /\ down'[n] = NoData /\ \A k \in Made : down'[k] = down[k]
    BY <1>2, Elements, ConnectEffect
  <2>3. Made' = Made \cup {n}
    BY <2>2, Elements DEF Made
  <2>4. OnlyOldFirsts
    <3>1. \A k \in Made : \A i \in 1 .. Len(down'[k].data) :
            IsFirst(down'[k].data[i]) => \E m \in Nat : m = down'[k].data[i].for /\ AheadOfQueue(m)
      BY <2>2, QueueTypes DEF QueuesOK, DownAhead
    <3>2. 1 .. Len(down'[n].data) = {}
      BY <2>2 DEF NoData
    <3>3. QED
      BY <2>3, <3>1, <3>2 DEF OnlyOldFirsts
  <2>5. QED
    BY <2>1, <2>4, QueueTypes, QueuesKept
<1>3. CASE disconnectTcp
  BY <1>1, <1>3, SocketsAfterClose DEF disconnectTcp, workerVars, logicVars, queues, Made
<1>4. CASE \E b \in Bodies : sendPacket(b)
  BY <1>1, <1>4 DEF sendPacket, clientVars, workerVars, logicVars, queues, Made
<1>5. CASE ReaderStep
  <2>1. PICK r \in Made : Recv(r) \/ RecvNothing(r) \/ Dispatch(r) \/ RecvNext(r)
    BY <1>5, Elements DEF ReaderStep
  <2>2. UNCHANGED <<socket, recvQueue, sendQueue, member, accepted>> /\ Made' = Made
    BY <2>1 DEF Recv, RecvNothing, Dispatch, RecvNext, workerVars, logicVars, queues, Made
  <2>3. \A k \in Made : down'[k].data = down[k].data
    <3>1. CASE Recv(r)
      BY <3>1, RecvEffect
    <3>2. CASE RecvNothing(r) \/ Dispatch(r) \/ RecvNext(r)
      BY <3>2 DEF RecvNothing, Dispatch, RecvNext
    <3>3. QED
      BY <2>1, <3>1, <3>2
  <2>4. QED
    BY <1>1, <2>2, <2>3
<1>6. CASE Accept \/ CloseSession
  BY <1>1, <1>6 DEF Accept, CloseSession, clientVars, logicVars, queues, Made
<1>7. CASE PushClose
  <2>1. /\ recvQueue' = Append(recvQueue, [kind |-> "close", packet |-> More])
        /\ UNCHANGED <<socket, down, accepted, sendQueue, member>> /\ Made' = Made
    BY <1>7 DEF PushClose, Received, clientVars, Made
  <2>2. OnlyOldFirsts
    BY <2>1, NothingSent
  <2>3. More \in Unit
    <3>1. 0 \in 0 .. MaxConnections /\ 0 \in Bodies \cup {0}
      BY Sizes
    <3>2. QED
      BY <3>1 DEF More, Unit
  <2>4. PICK e \in RecvPacketInfo : e = [kind |-> "close", packet |-> More]
    BY <2>3 DEF RecvPacketInfo
  <2>5. e.kind # "packet" /\ recvQueue' = Append(recvQueue, e)
    BY <2>1, <2>4
  <2>6. QED
    BY <2>1, <2>2, <2>5, QueuesReceived
<1>8. CASE UNCHANGED vars
  BY <1>1, <1>8 DEF vars, clientVars, workerVars, logicVars, queues, Made
<1>9. QED
  BY <1>2, <1>3, <1>4, <1>5, <1>6, <1>7, <1>8, QueuesHandled, QueuesNotified, QueuesSentHeader,
     QueuesSentBody, QueuesWorked DEF Next

-----------------------------------------------------------------------------
(* Headers and bodies                                                      *)

\* SentInOrder of one connection
Bodied(units) ==
  \A i \in 1 .. Len(units) : IsFirst(units[i]) =>
    /\ (\A j \in i + 1 .. Len(units) : ~ IsFirst(units[j]))
         => Len(units) - i + 1 \in {HeaderSize, Size(units[i])}
    /\ \A j \in i + 1 .. Len(units) : IsFirst(units[j]) => j - i >= Size(units[i])
Ordered(units) ==
  \A i \in 1 .. Len(units) : IsFirst(units[i]) =>
    \A j \in i + 1 .. Len(units) : IsFirst(units[j]) => units[i].for <= units[j].for

\* They say what HeadersHaveBodies and StrangersFirst say of a connection.
LEMMA SentToOne ==
  ASSUME NEW units \in Seq(Unit)
  PROVE  /\ Bodied(units) <=>
              \A i \in DOMAIN units :
                IsFirst(units[i]) =>
                  IF NextFirsts(units, i) = {} THEN Len(units) - i + 1 \in {HeaderSize, Size(units[i])}
                  ELSE \A j \in NextFirsts(units, i) : j - i >= Size(units[i])
         /\ Ordered(units) <=>
              \A i \in DOMAIN units : IsFirst(units[i]) =>
                \A j \in NextFirsts(units, i) : units[i].for <= units[j].for
<1>1. DOMAIN units = 1 .. Len(units)
  BY LenProperties
<1>2. ASSUME NEW i
      PROVE  /\ NextFirsts(units, i) = {} <=> \A j \in i + 1 .. Len(units) : ~ IsFirst(units[j])
             /\ \A j : j \in NextFirsts(units, i) <=> j \in i + 1 .. Len(units) /\ IsFirst(units[j])
  BY DEF NextFirsts
<1>3. QED
  BY <1>1, <1>2, Zenon DEF Bodied, Ordered

\* And SentInOrder says it of all.
LEMMA SentToAll ==
  /\ Typed => (SentInOrder <=>
                 \A k \in Made : Bodied(down[k].data) /\ Ordered(down[k].data))
  /\ Typed' => (SentInOrder' <=>
                  \A k \in Made' : Bodied(down'[k].data) /\ Ordered(down'[k].data))
<1>1. ASSUME Typed
      PROVE  SentInOrder <=> \A k \in Made : Bodied(down[k].data) /\ Ordered(down[k].data)
  <2>1. DOMAIN down = Made /\ \A k \in Made : down[k].data \in Seq(Unit)
    BY <1>1, Elements
  <2>2. QED
    BY <2>1, SentToOne, Zenon DEF SentInOrder, HeadersHaveBodies, StrangersFirst
<1>2. ASSUME Typed'
      PROVE  SentInOrder' <=> \A k \in Made' : Bodied(down'[k].data) /\ Ordered(down'[k].data)
  <2>1. down' \in Seq(Stream) /\ Len(down') = Len(socket')
    BY <1>2 DEF Typed
  <2>2. DOMAIN down' = Made' /\ \A k \in Made' : down'[k].data \in Seq(Unit)
    BY <2>1, StreamAt, LenProperties DEF Made
  <2>3. QED
    BY <2>2, SentToOne, Zenon DEF SentInOrder, HeadersHaveBodies, StrangersFirst
<1>3. QED
  BY <1>1, <1>2

\* A header may follow whole packets.
LEMMA HeaderFollows ==
  ASSUME NEW u \in Seq(Unit), NEW v \in Seq(Unit), NEW p \in Unit, NEW l \in Nat,
         l = Len(u), Len(v) = l + HeaderSize, \A i \in 1 .. l : v[i] = u[i],
         v[l + 1] = p, \A i \in l + 2 .. l + HeaderSize : ~ IsFirst(v[i]), p.for # 0,
         Whole(u), Bodied(u), Ordered(u),
         \A i \in 1 .. l : IsFirst(u[i]) => u[i].for <= p.for
  PROVE  Bodied(v) /\ Ordered(v) /\ EndsWithHeader(v, p)
<1>1. HeaderSize \in Nat \ {0} /\ IsFirst(p)
  BY Sizes DEF IsFirst
<1>2. \A i \in 1 .. l + HeaderSize : i \in 1 .. l \/ i = l + 1 \/ i \in l + 2 .. l + HeaderSize
  BY <1>1
<1>3. l + 1 \in 1 .. l + HeaderSize /\ l + 2 = l + 1 + 1
  BY <1>1
<1>4. EndsWithHeader(v, p)
  <2>1. \A j \in l + 1 + 1 .. Len(v) : ~ IsFirst(v[j])
    BY <1>3
  <2>2. Len(v) = l + 1 + HeaderSize - 1
    BY <1>1
  <2>3. QED
    BY <1>3, <2>1, <2>2 DEF EndsWithHeader
<1>5. ASSUME NEW i \in 1 .. l, IsFirst(v[i])
      PROVE  /\ ~ \A j \in i + 1 .. l + HeaderSize : ~ IsFirst(v[j])
             /\ \A j \in i + 1 .. l + HeaderSize : IsFirst(v[j]) =>
                  j - i >= Size(v[i]) /\ v[i].for <= v[j].for
  <2>1. v[i] = u[i] /\ IsFirst(u[i])
    BY <1>5
  <2>2. PICK s \in Nat : s = Size(u[i])
    BY UnitAt
  <2>3. i + s <= l + 1
    BY <2>1, <2>2 DEF Whole
  <2>4. l + 1 \in i + 1 .. l + HeaderSize
    BY <1>1
  <2>5. ASSUME NEW j \in i + 1 .. l + HeaderSize, IsFirst(v[j])
        PROVE  j - i >= s /\ v[i].for <= v[j].for
    <3>1. CASE j \in 1 .. l
      <4>1. j \in i + 1 .. l /\ v[j] = u[j]
        BY <3>1
      <4>2. QED
        BY <2>1, <2>2, <2>5, <4>1 DEF Bodied, Ordered
    <3>2. CASE j = l + 1
      <4>1. j - i >= s
        BY <2>3, <3>2
      <4>2. QED
        BY <2>1, <3>2, <4>1
    <3>3. j \in 1 .. l + HeaderSize
      OBVIOUS
    <3>4. QED
      BY <1>2, <2>5, <3>1, <3>2, <3>3
  <2>6. QED
    BY <1>1, <2>1, <2>2, <2>4, <2>5
<1>6. \A j \in l + 1 + 1 .. l + HeaderSize : ~ IsFirst(v[j])
  BY <1>3
<1>7. Bodied(v)
  <2>1. (l + HeaderSize) - (l + 1) + 1 = HeaderSize
    BY <1>1
  <2>2. QED
    BY <1>2, <1>5, <1>6, <2>1 DEF Bodied
<1>8. Ordered(v)
  BY <1>2, <1>5, <1>6 DEF Ordered
<1>9. QED
  BY <1>4, <1>7, <1>8

\* The body of the header at the end makes all packets whole.
LEMMA BodyFollows ==
  ASSUME NEW u \in Seq(Unit), NEW v \in Seq(Unit), NEW p \in Unit, NEW l \in Nat,
         l = Len(u), Len(v) = l + p.body, \A i \in 1 .. l : v[i] = u[i],
         \A i \in l + 1 .. l + p.body : ~ IsFirst(v[i]), p.for # 0,
         u = <<>> \/ EndsWithHeader(u, p), Bodied(u), Ordered(u)
  PROVE  Bodied(v) /\ Ordered(v) /\ Whole(v)
<1>1. /\ HeaderSize \in Nat \ {0} /\ IsFirst(p) /\ p.body \in Nat
      /\ Size(p) = HeaderSize + p.body
  BY Sizes DEF IsFirst
<1>2. \A i \in 1 .. l + p.body : i \in 1 .. l \/ i \in l + 1 .. l + p.body
  BY <1>1
<1>3. CASE l = 0
  <2>1. \A i \in 1 .. Len(v) : ~ IsFirst(v[i])
    BY <1>2, <1>3
  <2>2. QED
    BY <2>1 DEF Bodied, Ordered, Whole
<1>4. CASE l # 0
  <2>1. PICK e \in 1 .. l : /\ u[e] = p /\ l = e + HeaderSize - 1
                            /\ \A j \in e + 1 .. l : ~ IsFirst(u[j])
    BY <1>4, EmptySeq DEF EndsWithHeader
  <2>2. ASSUME NEW j \in e + 1 .. l + p.body PROVE ~ IsFirst(v[j])
    <3>1. j \in 1 .. l + p.body
      OBVIOUS
    <3>2. CASE j \in 1 .. l
      <4>1. j \in e + 1 .. l
        BY <3>2
      <4>2. QED
        BY <2>1, <3>2, <4>1
    <3>3. QED
      BY <1>2, <3>1, <3>2
  <2>3. \A i \in 1 .. l + p.body : i \in 1 .. e - 1 \/ i = e \/ i \in e + 1 .. l + p.body
    OBVIOUS
  <2>4. /\ v[e] = p /\ e \in 1 .. l + p.body
        /\ (l + p.body) - e + 1 = Size(p) /\ e + Size(p) = l + p.body + 1
    BY <1>1, <2>1
  <2>5. ASSUME NEW i \in 1 .. e - 1, IsFirst(v[i])
        PROVE  /\ ~ \A j \in i + 1 .. l + p.body : ~ IsFirst(v[j])
               /\ \A j \in i + 1 .. l + p.body : IsFirst(v[j]) =>
                    j - i >= Size(v[i]) /\ v[i].for <= v[j].for
               /\ i + Size(v[i]) <= l + p.body + 1
    <3>1. i \in 1 .. l /\ v[i] = u[i] /\ IsFirst(u[i])
      BY <2>5
    <3>2. PICK s \in Nat : s = Size(u[i])
      BY <3>1, UnitAt
    <3>3. e \in i + 1 .. l /\ e \in i + 1 .. l + p.body
      BY <1>1
    <3>4. ASSUME NEW j \in i + 1 .. l + p.body, IsFirst(v[j])
          PROVE  j - i >= s /\ v[i].for <= v[j].for
      <4>1. j \in 1 .. l + p.body
        OBVIOUS
      <4>2. j \in 1 .. e
        BY <2>2, <2>3, <3>4, <4>1
      <4>3. j \in i + 1 .. l /\ j \in 1 .. l
        BY <4>2
      <4>4. IsFirst(u[j]) /\ v[j] = u[j]
        BY <3>4, <4>3
      <4>5. QED
        BY <3>1, <3>2, <4>3, <4>4 DEF Bodied, Ordered
    <3>5. e - i >= s
      BY <1>1, <2>4, <3>3, <3>4
    <3>6. i + s <= l + p.body + 1
      BY <1>1, <3>5, SMTT(30)
    <3>7. QED
      BY <1>1, <2>4, <3>1, <3>2, <3>3, <3>4, <3>6
  <2>6. Bodied(v)
    BY <2>2, <2>3, <2>4, <2>5 DEF Bodied
  <2>7. Ordered(v)
    BY <2>2, <2>3, <2>5 DEF Ordered
  <2>8. Whole(v)
    <3>1. ASSUME NEW i \in 1 .. l + p.body, IsFirst(v[i])
          PROVE  i + Size(v[i]) <= l + p.body + 1
      <4>1. CASE i \in 1 .. e - 1
        BY <2>5, <3>1, <4>1
      <4>2. CASE i = e
        BY <1>1, <2>4, <4>2, SMTT(30)
      <4>3. QED
        BY <2>2, <2>3, <3>1, <4>1, <4>2
    <3>2. QED
      BY <3>1 DEF Whole
  <2>9. QED
    BY <2>6, <2>7, <2>8
<1>5. QED
  BY <1>3, <1>4

\* What the clients got stays in order while nothing is sent to them.
LEMMA SentKept ==
  ASSUME Typed, Typed', DownOK, SentInOrder, Made' = Made,
         \A k \in Made : down'[k].data = down[k].data,
         accepted' = accepted, headerSent' = headerSent,
         headerSent => sendQueue' # <<>> /\ Head(sendQueue') = Head(sendQueue),
         IsOpen(session)' => session' = session /\ IsOpen(session)
  PROVE  DownOK' /\ SentInOrder'
<1>1. SentInOrder'
  BY SentToAll
<1>2. DownOK'
  <2>1. ASSUME IsOpen(session)'
        PROVE  LET units == down'[session'].data IN
                 /\ ~ headerSent' => Whole(units)
                 /\ headerSent' => units = <<>> \/ EndsWithHeader(units, Head(sendQueue'))
    <3>1. session' = session /\ IsOpen(session)
      BY <2>1
    <3>2. session \in Made
      BY <3>1, Elements DEF Typed, IsOpen, Made
    <3>3. down'[session'].data = down[session].data
      BY <3>1, <3>2
    <3>4. QED
      BY <3>1, <3>3 DEF DownOK
  <2>2. QED
    BY <2>1 DEF DownOK
<1>3. QED
  BY <1>1, <1>2

\* The header goes to a client that has got whole packets, of no later players.
LEMMA SentHeader ==
  ASSUME Typed, Typed', QueuesOK, DownOK, SentInOrder, SendHeader
  PROVE  DownOK' /\ SentInOrder'
<1>1. /\ UNCHANGED <<socket, accepted, session, sendQueue>> /\ Made' = Made
      /\ ~ headerSent /\ headerSent' = TRUE /\ sendQueue # <<>>
  BY DEF SendHeader, clientVars, workerVars, Made
<1>2. CASE ~ IsOpen(session)
  <2>1. down' = down /\ ~ IsOpen(session)'
    BY <1>1, <1>2 DEF SendHeader, SentTo, IsOpen
  <2>2. SentInOrder'
    BY <1>1, <2>1, SentToAll
  <2>3. DownOK'
    BY <1>1, <2>1 DEF DownOK
  <2>4. QED
    BY <2>2, <2>3
<1>3. CASE IsOpen(session)
  <2>1. /\ session \in Made
        /\ \A k \in Made : k # session => down'[k] = down[k]
        /\ down'[session].data \in Seq(Unit)
    BY <1>3, HeaderEffect
  <2>2. PICK p \in Unit, l \in Nat :
          /\ p = sendQueue[1] /\ p = Head(sendQueue) /\ Len(sendQueue) \in Nat \ {0}
          /\ l = Len(down[session].data) /\ Len(down'[session].data) = l + HeaderSize
          /\ \A i \in 1 .. l : down'[session].data[i] = down[session].data[i]
          /\ down'[session].data[l + 1] = p
          /\ \A i \in l + 2 .. l + HeaderSize : ~ IsFirst(down'[session].data[i])
    BY <1>3, HeaderEffect
  <2>3. down[session].data \in Seq(Unit)
    BY <2>1, Elements
  <2>4. Whole(down[session].data) /\ Bodied(down[session].data) /\ Ordered(down[session].data)
    BY <1>1, <1>3, <2>1, SentToAll DEF DownOK
  <2>5. p.for # 0 /\ \A i \in 1 .. l : IsFirst(down[session].data[i]) =>
                       down[session].data[i].for <= p.for
    <3>1. 1 \in 1 .. Len(sendQueue)
      BY <2>2
    <3>2. QED
      BY <2>1, <2>2, <3>1 DEF QueuesOK, SendOrdered, DownAhead, AheadOfQueue
  <2>6. /\ Bodied(down'[session].data) /\ Ordered(down'[session].data)
        /\ EndsWithHeader(down'[session].data, p)
    BY <2>1, <2>2, <2>3, <2>4, <2>5, HeaderFollows, ZenonT(40)
  <2>7. SentInOrder'
    <3>1. \A k \in Made : Bodied(down'[k].data) /\ Ordered(down'[k].data)
      BY <2>1, <2>6, SentToAll
    <3>2. QED
      BY <1>1, <3>1, SentToAll
  <2>8. session <= accepted /\ accepted \in Nat
    BY Elements DEF Typed
  <2>9. DownOK'
    <3>1. \A k \in Made : k > accepted => k # session /\ down[k].data = <<>>
      BY <2>8, Elements DEF DownOK
    <3>2. \A k \in Made : k > accepted => down'[k].data = <<>>
      BY <2>1, <3>1
    <3>3. QED
      BY <1>1, <2>2, <2>6, <3>2 DEF DownOK
  <2>10. QED
    BY <2>7, <2>9
<1>4. QED
  BY <1>2, <1>3

\* The body goes to the client that has just got the header, or to a new one.
LEMMA SentBody ==
  ASSUME Typed, Typed', QueuesOK, DownOK, SentInOrder, SendBody
  PROVE  DownOK' /\ SentInOrder'
<1>1. /\ UNCHANGED <<socket, accepted, session>> /\ Made' = Made
      /\ headerSent /\ headerSent' = FALSE
  BY DEF SendBody, clientVars, workerVars, Made
<1>2. CASE ~ IsOpen(session)
  <2>1. down' = down /\ ~ IsOpen(session)'
    BY <1>1, <1>2 DEF SendBody, SentTo, IsOpen
  <2>2. SentInOrder'
    BY <1>1, <2>1, SentToAll
  <2>3. DownOK'
    BY <1>1, <2>1 DEF DownOK
  <2>4. QED
    BY <2>2, <2>3
<1>3. CASE IsOpen(session)
  <2>1. /\ session \in Made
        /\ \A k \in Made : k # session => down'[k] = down[k]
        /\ down'[session].data \in Seq(Unit)
    BY <1>3, BodyEffect
  <2>2. PICK p \in Unit, l \in Nat :
          /\ p = sendQueue[1] /\ p = Head(sendQueue) /\ Len(sendQueue) \in Nat \ {0}
          /\ l = Len(down[session].data) /\ Len(down'[session].data) = l + p.body
          /\ \A i \in 1 .. l : down'[session].data[i] = down[session].data[i]
          /\ \A i \in l + 1 .. l + p.body : ~ IsFirst(down'[session].data[i])
    BY <1>3, BodyEffect
  <2>3. down[session].data \in Seq(Unit)
    BY <2>1, Elements
  <2>4. /\ down[session].data = <<>> \/ EndsWithHeader(down[session].data, p)
        /\ Bodied(down[session].data) /\ Ordered(down[session].data)
    BY <1>1, <1>3, <2>1, <2>2, SentToAll DEF DownOK
  <2>5. p.for # 0
    <3>1. 1 \in 1 .. Len(sendQueue)
      BY <2>2
    <3>2. QED
      BY <2>2, <3>1 DEF QueuesOK, SendOrdered
  <2>6. /\ Bodied(down'[session].data) /\ Ordered(down'[session].data)
        /\ Whole(down'[session].data)
    <3>1. PICK u \in Seq(Unit), v \in Seq(Unit) :
            u = down[session].data /\ v = down'[session].data
      BY <2>1, <2>3
    <3>2. /\ l = Len(u) /\ Len(v) = l + p.body /\ \A i \in 1 .. l : v[i] = u[i]
          /\ \A i \in l + 1 .. l + p.body : ~ IsFirst(v[i])
      BY <2>2, <3>1
    <3>3. (u = <<>> \/ EndsWithHeader(u, p)) /\ Bodied(u) /\ Ordered(u)
      BY <2>4, <3>1
    <3>4. Bodied(v) /\ Ordered(v) /\ Whole(v)
      BY <2>5, <3>2, <3>3, BodyFollows
    <3>5. QED
      BY <3>1, <3>4
  <2>7. SentInOrder'
    <3>1. \A k \in Made : Bodied(down'[k].data) /\ Ordered(down'[k].data)
      BY <2>1, <2>6, SentToAll
    <3>2. QED
      BY <1>1, <3>1, SentToAll
  <2>8. session <= accepted /\ accepted \in Nat
    BY Elements DEF Typed
  <2>9. DownOK'
    <3>1. \A k \in Made : k > accepted => k # session /\ down[k].data = <<>>
      BY <2>8, Elements DEF DownOK
    <3>2. \A k \in Made : k > accepted => down'[k].data = <<>>
      BY <2>1, <3>1
    <3>3. QED
      BY <1>1, <2>6, <3>2 DEF DownOK
  <2>10. QED
    BY <2>7, <2>9
<1>4. QED
  BY <1>2, <1>3

\* A new connection has got nothing, and those before it are closed.
LEMMA SentConnected ==
  ASSUME Typed, Typed', DownOK, SentInOrder, connectTcp
  PROVE  DownOK' /\ SentInOrder'
<1>1. UNCHANGED <<accepted, session, sendQueue, headerSent>>
  BY DEF connectTcp, logicVars, queues
<1>2. PICK n \in Nat : /\ n = Len(socket) + 1 /\ Len(socket') = n
                       /\ down'[n] = NoData /\ \A k \in Made : down'[k] = down[k]
                       /\ \A k \in Made : socket'[k] # "open"
  BY Elements, ConnectEffect
<1>3. Made' = Made \cup {n}
  BY <1>2, Elements DEF Made
<1>4. down'[n].data = <<>> /\ Bodied(<<>>) /\ Ordered(<<>>)
  BY <1>2 DEF NoData, Bodied, Ordered
<1>5. SentInOrder'
  <2>1. \A k \in Made' : Bodied(down'[k].data) /\ Ordered(down'[k].data)
    BY <1>2, <1>3, <1>4, SentToAll
  <2>2. QED
    BY <2>1, SentToAll
<1>6. ~ IsOpen(session)'
  <2>1. session = 0 \/ session \in Made
    BY Elements DEF Typed, Made
  <2>2. QED
    BY <1>1, <1>2, <2>1 DEF IsOpen
<1>7. DownOK'
  BY <1>1, <1>2, <1>3, <1>4, <1>6 DEF DownOK
<1>8. QED
  BY <1>5, <1>7

\* A new session's client has got nothing.
LEMMA SentAccepted ==
  ASSUME Typed, Typed', DownOK, SentInOrder, Accept
  PROVE  DownOK' /\ SentInOrder'
<1>1. /\ accepted' = accepted + 1 /\ session' \in {0, accepted + 1}
      /\ accepted < Len(socket)
      /\ UNCHANGED <<socket, down, sendQueue, headerSent>> /\ Made' = Made
  BY DEF Accept, clientVars, logicVars, queues, Made
<1>2. accepted \in Nat /\ Len(socket) \in Nat
  BY Elements DEF Typed
<1>3. SentInOrder'
  BY <1>1, SentToAll
<1>4. accepted + 1 \in Made /\ accepted + 1 > accepted
  BY <1>1, <1>2 DEF Made
<1>5. down[accepted + 1].data = <<>> /\ Whole(<<>>)
  BY <1>4 DEF DownOK, Whole
<1>6. \A k \in Made : k > accepted + 1 => k > accepted
  BY <1>2, Elements
<1>7. DownOK'
  BY <1>1, <1>5, <1>6 DEF DownOK, IsOpen
<1>8. QED
  BY <1>3, <1>7

\* No client gets a torn packet, or one of a later player before one of its own.
LEMMA SentStep ==
  ASSUME Typed, Typed', QueuesOK, DownOK, SentInOrder, [Next]_vars
  PROVE  DownOK' /\ SentInOrder'
<1>1. CASE disconnectTcp
  <2>1. /\ Made' = Made /\ UNCHANGED <<down, accepted, headerSent, sendQueue, session>>
        /\ \A k \in Made : socket'[k] # "open"
    BY <1>1, SocketsAfterClose DEF disconnectTcp, workerVars, logicVars, queues, Made
  <2>2. ~ IsOpen(session)'
    <3>1. session = 0 \/ session \in Made
      BY Elements DEF Typed, Made
    <3>2. QED
      BY <2>1, <3>1 DEF IsOpen
  <2>3. QED
    BY <2>1, <2>2, SentKept DEF DownOK
<1>2. CASE \E b \in Bodies : sendPacket(b)
  <2>1. UNCHANGED <<socket, down, accepted, session, headerSent, sendQueue>> /\ Made' = Made
    BY <1>2 DEF sendPacket, clientVars, workerVars, logicVars, queues, Made
  <2>2. QED
    BY <2>1, SentKept DEF IsOpen, DownOK
<1>3. CASE ReaderStep
  <2>1. PICK r \in Made : Recv(r) \/ RecvNothing(r) \/ Dispatch(r) \/ RecvNext(r)
    BY <1>3, Elements DEF ReaderStep
  <2>2. UNCHANGED <<socket, accepted, session, headerSent, sendQueue>> /\ Made' = Made
    BY <2>1 DEF Recv, RecvNothing, Dispatch, RecvNext, workerVars, logicVars, queues, Made
  <2>3. \A k \in Made : down'[k].data = down[k].data
    <3>1. CASE Recv(r)
      BY <3>1, RecvEffect
    <3>2. CASE RecvNothing(r) \/ Dispatch(r) \/ RecvNext(r)
      BY <3>2 DEF RecvNothing, Dispatch, RecvNext
    <3>3. QED
      BY <2>1, <3>1, <3>2
  <2>4. QED
    BY <2>2, <2>3, SentKept DEF IsOpen, DownOK
<1>4. CASE WorkerThread \/ PushClose
  <2>1. UNCHANGED <<socket, down, accepted, session, headerSent, sendQueue>> /\ Made' = Made
    BY <1>4 DEF WorkerThread, PushClose, clientVars, Made
  <2>2. QED
    BY <2>1, SentKept DEF IsOpen, DownOK
<1>5. CASE CloseSession
  <2>1. /\ UNCHANGED <<socket, down, accepted, headerSent, sendQueue>> /\ Made' = Made
        /\ session' = 0
    BY <1>5 DEF CloseSession, clientVars, logicVars, queues, Made
  <2>2. QED
    BY <2>1, SentKept DEF IsOpen, DownOK
<1>6. CASE HandlePacket \/ Notify
  <2>1. UNCHANGED <<socket, down, accepted, session, headerSent>> /\ Made' = Made
    BY <1>6 DEF HandlePacket, Notify, clientVars, workerVars, Made
  <2>2. sendQueue' = sendQueue \/ \E p \in Unit : Longer(sendQueue, p)
    <3>1. CASE HandlePacket
      BY <3>1, HandleEffect
    <3>2. CASE Notify
      <4>1. member \in 0 .. MaxConnections
        <5>1. member \in 0 .. Len(socket) /\ Len(socket) \in Nat /\ MaxConnections \in Nat
              /\ Len(socket) <= MaxConnections
          BY Elements, Sizes DEF Typed
        <5>2. QED
          BY <5>1
      <4>2. QED
        BY <3>2, <4>1, PushedEffect DEF Notify
    <3>3. QED
      BY <1>6, <3>1, <3>2
  <2>3. headerSent => sendQueue' # <<>> /\ Head(sendQueue') = Head(sendQueue)
    <3>1. CASE sendQueue' = sendQueue
      BY <3>1 DEF DownOK
    <3>2. ASSUME headerSent, \E p \in Unit : Longer(sendQueue, p)
          PROVE  sendQueue' # <<>> /\ Head(sendQueue') = Head(sendQueue)
      <4>1. sendQueue # <<>>
        BY <3>2 DEF DownOK
      <4>2. Len(sendQueue) \in Nat \ {0} /\ Head(sendQueue) = sendQueue[1]
        BY <4>1, FrontOfQueue
      <4>3. /\ sendQueue' \in Seq(Unit) /\ Len(sendQueue') # 0
            /\ sendQueue'[1] = sendQueue[1]
        BY <3>2, <4>2 DEF Longer
      <4>4. QED
        BY <4>2, <4>3, EmptySeq
    <3>3. QED
      BY <2>2, <3>1, <3>2
  <2>4. QED
    BY <2>1, <2>3, SentKept DEF IsOpen
<1>7. CASE UNCHANGED vars
  <2>1. UNCHANGED <<socket, down, accepted, session, headerSent, sendQueue>> /\ Made' = Made
    BY <1>7 DEF vars, clientVars, workerVars, logicVars, queues, Made
  <2>2. QED
    BY <2>1, SentKept DEF IsOpen, DownOK
<1>8. QED
  BY <1>1, <1>2, <1>3, <1>4, <1>5, <1>6, <1>7, SentConnected, SentAccepted, SentHeader, SentBody
     DEF Next

-----------------------------------------------------------------------------
(* The client's readers                                                    *)

\* CallbackInOrder of one connection
CallbackOf(k) ==
  readers[k].on = k /\ readers[k].pc # "gone" /\ ~ garbled
    => AllPackets(seen[k], down[k].data, down[k].taken - readers[k].left)

\* CallbackInOrder says it of all.
LEMMA CallbackOfAll ==
  /\ Typed => (CallbackInOrder <=> \A k \in Made : CallbackOf(k))
  /\ Typed' => (CallbackInOrder' <=> \A k \in Made' : CallbackOf(k)')
<1>1. Typed => DOMAIN readers = Made
  BY Elements
<1>2. Typed' => DOMAIN readers' = Made'
  BY LenProperties DEF Typed, Made
<1>3. QED
  BY <1>1, <1>2, Zenon DEF CallbackInOrder, CallbackOf

\* ClientOK of one reader
ReaderOK(r) ==
  /\ readers[r].left <= down[readers[r].on].taken
  /\ readers[r].on # r /\ readers[r].left > 0 => readers[readers[r].on].pc = "gone"

\* What a reader's state is made of.
LEMMA ReaderTypes ==
  ASSUME Typed, NEW r \in Made
  PROVE  /\ readers[r].on \in Made /\ readers[r].left \in Nat
         /\ readers[r].on \in r .. sock /\ readers[r].on \in Nat
         /\ down[readers[r].on].taken \in Nat
<1>1. readers[r].on \in r .. Len(socket) /\ r \in Nat \ {0} /\ Len(socket) \in Nat
      /\ sock = Len(socket)
  BY Elements DEF Typed
<1>2. readers[r].on \in Made
  BY <1>1 DEF Made
<1>3. readers[r].left \in Nat
  <2>1. readers[r] \in ReaderState
    BY Elements
  <2>2. QED
    BY <2>1 DEF ReaderState
<1>4. QED
  BY <1>1, <1>2, <1>3, Elements

\* It matters neither what else is sent nor that a reader ends.
LEMMA ClientKept ==
  ASSUME Typed, Typed', ClientOK, CallbackInOrder, Made' = Made,
         UNCHANGED <<garbled, seen>>,
         \A k \in Made : /\ down'[k].taken = down[k].taken
                         /\ Len(down'[k].data) \in Nat
                         /\ Len(down'[k].data) >= Len(down[k].data)
                         /\ \A i \in 1 .. Len(down[k].data) : down'[k].data[i] = down[k].data[i],
         \A k \in Made : /\ readers'[k].on = readers[k].on
                         /\ readers'[k].left = readers[k].left
                         /\ readers[k].pc = "gone" => readers'[k].pc = "gone"
  PROVE  ClientOK' /\ CallbackInOrder'
<1>1. \A k \in Made : down'[k].taken <= Len(down'[k].data)
  <2>1. ASSUME NEW k \in Made PROVE down'[k].taken <= Len(down'[k].data)
    <3>1. /\ down[k].taken <= Len(down[k].data) /\ down[k].taken \in Nat
          /\ Len(down[k].data) \in Nat /\ Len(down'[k].data) \in Nat
      BY Elements DEF ClientOK
    <3>2. QED
      BY <3>1
  <2>2. QED
    BY <2>1
<1>2. ASSUME ~ garbled, NEW r \in Made PROVE ReaderOK(r)'
  <2>1. ReaderOK(r) /\ readers[r].on \in Made
    BY <1>2, ReaderTypes DEF ClientOK, ReaderOK
  <2>2. QED
    BY <2>1 DEF ReaderOK
<1>3. ClientOK'
  BY <1>1, <1>2 DEF ClientOK, ReaderOK
<1>4. ASSUME NEW k \in Made PROVE CallbackOf(k)'
  <2>1. SUFFICES ASSUME readers'[k].on = k, readers'[k].pc # "gone", ~ garbled'
                 PROVE  AllPackets(seen'[k], down'[k].data, down'[k].taken - readers'[k].left)
    BY DEF CallbackOf
  <2>2. readers[k].on = k /\ readers[k].pc # "gone" /\ ~ garbled
    BY <2>1
  <2>3. AllPackets(seen[k], down[k].data, down[k].taken - readers[k].left)
    BY <2>2, CallbackOfAll DEF CallbackOf
  <2>4. /\ readers[k].left <= down[k].taken /\ down[k].taken <= Len(down[k].data)
        /\ readers[k].left \in Nat /\ down[k].taken \in Nat /\ Len(down[k].data) \in Nat
    BY <2>2, Elements, ReaderTypes DEF ClientOK
  <2>5. down[k].taken - readers[k].left \in 0 .. Len(down[k].data)
    BY <2>4
  <2>6. AllPackets(seen[k], down'[k].data, down[k].taken - readers[k].left)
    <3>1. \A i \in 1 .. Len(down[k].data) : down'[k].data[i] = down[k].data[i]
      OBVIOUS
    <3>2. PICK m \in Nat : m = Len(down[k].data)
      BY <2>4
    <3>3. PICK n \in 0 .. m : n = down[k].taken - readers[k].left
      BY <2>5, <3>2
    <3>4. AllPackets(seen[k], down[k].data, n) /\ \A i \in 1 .. m : down'[k].data[i] = down[k].data[i]
      BY <2>3, <3>1, <3>2, <3>3
    <3>5. AllPackets(seen[k], down'[k].data, n)
      BY <3>4, PlacesKept
    <3>6. QED
      BY <3>3, <3>5
  <2>7. QED
    BY <2>6
<1>5. CallbackInOrder'
  BY <1>4, CallbackOfAll
<1>6. QED
  BY <1>3, <1>5

\* A reader that receives while it is the only one goes on where it was.
LEMMA ClientReceives ==
  ASSUME Typed, Typed', ClientOK, CallbackInOrder, NEW r \in Made, Recv(r)
  PROVE  ClientOK' /\ CallbackInOrder'
<1>1. PICK n \in Nat \ {0}, k \in Made :
           /\ k = readers[r].on /\ readers[r].pc = "recv"
           /\ n <= Len(down[k].data) - down[k].taken
           /\ \A j \in Made : j # k => down'[j] = down[j]
           /\ \A j \in Made : down'[j].data = down[j].data
           /\ down'[k].taken = down[k].taken + n
           /\ Only(r, "parse", k, readers[r].left + n)
           /\ garbled' <=> garbled \/ readers[r].left + n > ClientBuffer \/ ~ OnlyReader(r)
  BY RecvEffect
<1>2. UNCHANGED <<socket, seen>> /\ Made' = Made
  BY DEF Recv, Made
<1>3. /\ readers'[r].pc = "parse" /\ readers'[r].on = k /\ readers'[r].left = readers[r].left + n
      /\ \A j \in Made : j # r => readers'[j] = readers[j]
  BY <1>1 DEF Only
<1>4. \A j \in Made : down'[j].taken <= Len(down'[j].data) /\ down'[j].taken >= down[j].taken
                      /\ down'[j].taken \in Nat
  <2>1. ASSUME NEW j \in Made
        PROVE  /\ down'[j].taken <= Len(down'[j].data) /\ down'[j].taken >= down[j].taken
               /\ down'[j].taken \in Nat
    <3>1. /\ down[j].taken <= Len(down[j].data) /\ down'[j].data = down[j].data
          /\ down[j].taken \in Nat /\ Len(down[j].data) \in Nat
      BY <1>1, Elements DEF ClientOK
    <3>2. CASE j = k
      BY <1>1, <3>1, <3>2
    <3>3. CASE j # k
      BY <1>1, <3>1, <3>3
    <3>4. QED
      BY <3>2, <3>3
  <2>2. QED
    BY <2>1
<1>5. ASSUME ~ garbled' PROVE ~ garbled /\ \A j \in Made : j # r => readers[j].pc = "gone"
  BY <1>1, <1>5, Elements DEF OnlyReader
<1>6. ASSUME ~ garbled', NEW j \in Made PROVE ReaderOK(j)'
  <2>1. ReaderOK(j) /\ ~ garbled /\ readers[j].on \in Made /\ readers[j].left \in Nat
        /\ down[readers[j].on].taken \in Nat
    BY <1>5, <1>6, ReaderTypes DEF ClientOK, ReaderOK
  <2>2. CASE j = r
    <3>1. readers[r].left <= down[k].taken /\ readers[r].left \in Nat /\ down[k].taken \in Nat
      BY <1>1, <2>1, <2>2 DEF ReaderOK
    <3>2. readers'[r].left <= down'[k].taken
      BY <1>1, <1>3, <3>1
    <3>3. k # r => readers'[k].pc = "gone"
      BY <1>3, <1>5, <1>6
    <3>4. QED
      BY <1>3, <2>2, <3>2, <3>3 DEF ReaderOK
  <2>3. CASE j # r
    <3>1. readers'[j] = readers[j]
      BY <1>3, <2>3
    <3>2. readers[j].left <= down'[readers[j].on].taken
      BY <1>4, <2>1 DEF ReaderOK
    <3>3. ASSUME readers[j].on # j, readers[j].left > 0
          PROVE  readers'[readers[j].on].pc = "gone"
      <4>1. readers[readers[j].on].pc = "gone"
        BY <2>1, <3>3 DEF ReaderOK
      <4>2. readers[j].on # r
        BY <1>1, <4>1
      <4>3. QED
        BY <1>3, <2>1, <4>1, <4>2
    <3>4. QED
      BY <3>1, <3>2, <3>3 DEF ReaderOK
  <2>4. QED
    BY <2>2, <2>3
<1>7. ClientOK'
  BY <1>2, <1>4, <1>6 DEF ClientOK, ReaderOK
<1>8. ASSUME NEW j \in Made PROVE CallbackOf(j)'
  <2>1. SUFFICES ASSUME readers'[j].on = j, readers'[j].pc # "gone", ~ garbled'
                 PROVE  AllPackets(seen'[j], down'[j].data, down'[j].taken - readers'[j].left)
    BY DEF CallbackOf
  <2>2. j = r /\ k = r /\ ~ garbled
    BY <1>3, <1>5, <2>1
  <2>3. AllPackets(seen[r], down[r].data, down[r].taken - readers[r].left)
    BY <1>1, <2>2, CallbackOfAll DEF CallbackOf
  <2>4. down'[r].taken - readers'[r].left = down[r].taken - readers[r].left
    BY <1>1, <1>3, <2>2, Elements, ReaderTypes
  <2>5. QED
    BY <1>1, <1>2, <2>2, <2>3, <2>4
<1>9. CallbackInOrder'
  BY <1>2, <1>8, CallbackOfAll
<1>10. QED
  BY <1>7, <1>9

\* A reader gives its callback the next packet.
LEMMA ClientDispatches ==
  ASSUME Typed, Typed', ClientOK, CallbackInOrder, SentInOrder, NEW r \in Made, Dispatch(r)
  PROVE  ClientOK' /\ CallbackInOrder'
<1>1. PICK k, q :
        /\ k \in Made /\ q \in 1 .. Len(down[k].data)
        /\ k = readers[r].on /\ readers[r].pc = "parse" /\ ~ garbled
        /\ q = down[k].taken - readers[r].left + 1
        /\ readers[r].left > 0 /\ readers[r].left <= down[k].taken
        /\ down[k].taken <= Len(down[k].data)
        /\ IsFirst(down[k].data[q])
        /\ Size(down[k].data[q]) <= readers[r].left
        /\ seen'[k] = Append(seen[k], q)
        /\ \A j \in Made : j # k => seen'[j] = seen[j]
        /\ Only(r, "parse", k, readers[r].left - Size(down[k].data[q]))
  BY DispatchEffect
<1>2. UNCHANGED <<socket, down, garbled>> /\ Made' = Made
  BY DEF Dispatch, Made
<1>3. PICK s \in Nat \ {0}, left \in Nat, t \in Nat :
        /\ s = Size(down[k].data[q]) /\ left = readers[r].left /\ t = down[k].taken
  <2>1. Size(down[k].data[q]) \in Nat \ {0} /\ readers[r].left \in Nat /\ down[k].taken \in Nat
    BY <1>1, Elements, UnitAt, ReaderTypes
  <2>2. QED
    BY <2>1
<1>4. /\ readers'[r].pc = "parse" /\ readers'[r].on = k /\ readers'[r].left = left - s
      /\ \A j \in Made : j # r => readers'[j] = readers[j]
      /\ s <= left /\ left <= t
  BY <1>1, <1>3 DEF Only
<1>5. ASSUME NEW j \in Made PROVE ReaderOK(j)'
  <2>1. ReaderOK(j) /\ readers[j].on \in Made
    BY <1>1, ReaderTypes DEF ClientOK, ReaderOK
  <2>2. CASE j = r
    <3>1. readers'[r].left <= down'[k].taken
      BY <1>2, <1>3, <1>4
    <3>2. k # r => readers'[k].pc = "gone"
      BY <1>1, <1>4, <2>1, <2>2 DEF ReaderOK
    <3>3. QED
      BY <1>4, <2>2, <3>1, <3>2 DEF ReaderOK
  <2>3. CASE j # r
    <3>1. readers'[j] = readers[j]
      BY <1>4, <2>3
    <3>2. ASSUME readers[j].on # j, readers[j].left > 0
          PROVE  readers'[readers[j].on].pc = "gone"
      <4>1. readers[readers[j].on].pc = "gone"
        BY <2>1, <3>2 DEF ReaderOK
      <4>2. readers[j].on # r
        BY <1>1, <4>1
      <4>3. QED
        BY <1>4, <2>1, <4>1, <4>2
    <3>3. QED
      BY <1>2, <2>1, <3>1, <3>2 DEF ReaderOK
  <2>4. QED
    BY <2>2, <2>3
<1>6. ClientOK'
  BY <1>2, <1>5 DEF ClientOK, ReaderOK
<1>7. ASSUME NEW j \in Made PROVE CallbackOf(j)'
  <2>1. SUFFICES ASSUME readers'[j].on = j, readers'[j].pc # "gone", ~ garbled'
                 PROVE  AllPackets(seen'[j], down'[j].data, down'[j].taken - readers'[j].left)
    BY DEF CallbackOf
  <2>2. CASE j # r
    <3>1. readers'[j] = readers[j]
      BY <1>4, <2>2
    <3>2. AllPackets(seen[j], down[j].data, down[j].taken - readers[j].left)
      BY <1>1, <2>1, <3>1, CallbackOfAll DEF CallbackOf
    <3>3. j # k
      <4>1. k # r => readers[k].pc = "gone"
        BY <1>1 DEF ClientOK
      <4>2. QED
        BY <2>1, <2>2, <3>1, <4>1
    <3>4. seen'[j] = seen[j]
      BY <1>1, <3>3
    <3>5. QED
      BY <1>2, <3>1, <3>2, <3>4
  <2>3. CASE j = r
    <3>1. k = r
      BY <1>4, <2>1, <2>3
    <3>2. PICK m \in Nat, units \in Seq(Unit), places \in Seq(Nat) :
            m = t - left /\ units = down[k].data /\ places = seen[k]
      <4>1. t - left \in Nat
        BY <1>4
      <4>2. QED
        BY <1>1, <4>1, Elements
    <3>3. q = m + 1 /\ IsFirst(units[q]) /\ q \in 1 .. Len(units)
      BY <1>1, <1>3, <3>2
    <3>4. AllPackets(places, units, m)
      BY <1>1, <1>3, <3>1, <3>2, CallbackOfAll DEF CallbackOf
    <3>5. \A i \in m + 2 .. m + s : ~ IsFirst(units[i])
      <4>1. m + s <= Len(units)
        <5>1. m + s <= t
          BY <1>4, <3>2
        <5>2. t <= Len(units) /\ Len(units) \in Nat
          BY <1>1, <1>3, <3>2, Elements
        <5>3. QED
          BY <5>1, <5>2
      <4>2. \A i \in q + 1 .. Len(units) : IsFirst(units[i]) => i - q >= s
        <5>1. Bodied(units)
          BY <1>1, <3>2, SentToAll
        <5>2. Size(units[q]) = s
          BY <1>3, <3>2
        <5>3. QED
          BY <3>3, <5>1, <5>2 DEF Bodied
      <4>3. \A i \in m + 2 .. m + s : i \in q + 1 .. Len(units) /\ ~ (i - q >= s)
        <5>1. Len(units) \in Nat
          BY LenProperties
        <5>2. q = m + 1
          BY <3>3
        <5>3. QED
          BY <4>1, <5>1, <5>2
      <4>4. QED
        BY <4>2, <4>3
    <3>6. AllPackets(Append(places, m + 1), units, m + s)
      <4>1. m + s \in Nat /\ m + 1 <= m + s /\ IsFirst(units[m + 1])
        BY <3>3
      <4>2. QED
        BY <3>4, <3>5, <4>1, NextPlace
    <3>7. /\ seen'[r] = Append(places, m + 1) /\ down'[r].data = units
          /\ down'[r].taken - readers'[r].left = m + s
      <4>1. seen'[r] = Append(places, m + 1) /\ down'[r].data = units
        BY <1>1, <1>2, <3>1, <3>2, <3>3
      <4>2. down'[r].taken = t /\ readers'[r].left = left - s
        BY <1>2, <1>3, <1>4, <3>1
      <4>3. t - (left - s) = m + s
        BY <3>2
      <4>4. QED
        BY <4>1, <4>2, <4>3
    <3>8. QED
      BY <2>3, <3>6, <3>7
  <2>4. QED
    BY <2>2, <2>3
<1>8. CallbackInOrder'
  BY <1>2, <1>7, CallbackOfAll
<1>9. QED
  BY <1>6, <1>8

\* A reader goes on with another connection: what it has left of the old one makes
\* the buffer garbled.
LEMMA ClientMovesOn ==
  ASSUME Typed, Typed', ClientOK, CallbackInOrder, NEW r \in Made, RecvNext(r)
  PROVE  ClientOK' /\ CallbackInOrder'
<1>1. PICK pc \in {"recv", "gone"} :
        /\ readers[r].pc = "parse" /\ ~ garbled /\ sock \in Made
        /\ Only(r, pc, sock, readers[r].left)
        /\ garbled' <=> readers[r].left > 0 /\ readers[r].on # sock
  BY RecvNextEffect
<1>2. UNCHANGED <<socket, down, seen, sock>> /\ Made' = Made
  BY DEF RecvNext, Made
<1>3. /\ readers'[r].on = sock /\ readers'[r].left = readers[r].left
      /\ \A j \in Made : j # r => readers'[j] = readers[j]
  BY <1>1 DEF Only
<1>4. ASSUME ~ garbled', NEW j \in Made PROVE ReaderOK(j)'
  <2>1. ReaderOK(j) /\ readers[j].on \in Made
    BY <1>1, ReaderTypes DEF ClientOK, ReaderOK
  <2>2. CASE j = r
    <3>1. CASE readers[r].left = 0
      <4>1. down[sock].taken \in Nat
        BY <1>1, Elements
      <4>2. QED
        BY <1>2, <1>3, <2>2, <3>1, <4>1 DEF ReaderOK
    <3>2. CASE readers[r].on = sock
      <4>1. sock # r /\ readers[r].left > 0 => readers'[sock].pc = "gone"
        BY <1>1, <1>3, <2>1, <2>2, <3>2 DEF ReaderOK
      <4>2. QED
        BY <1>2, <1>3, <2>1, <2>2, <3>2, <4>1 DEF ReaderOK
    <3>3. readers[r].left = 0 \/ readers[r].left > 0
      BY ReaderTypes
    <3>4. QED
      BY <1>1, <1>4, <3>1, <3>2, <3>3
  <2>3. CASE j # r
    <3>1. readers'[j] = readers[j]
      BY <1>3, <2>3
    <3>2. ASSUME readers[j].on # j, readers[j].left > 0
          PROVE  readers'[readers[j].on].pc = "gone"
      <4>1. readers[readers[j].on].pc = "gone"
        BY <2>1, <3>2 DEF ReaderOK
      <4>2. readers[j].on # r
        BY <1>1, <4>1
      <4>3. QED
        BY <1>3, <2>1, <4>1, <4>2
    <3>3. QED
      BY <1>2, <2>1, <3>1, <3>2 DEF ReaderOK
  <2>4. QED
    BY <2>2, <2>3
<1>5. ClientOK'
  BY <1>2, <1>4 DEF ClientOK, ReaderOK
<1>6. ASSUME NEW j \in Made PROVE CallbackOf(j)'
  <2>1. SUFFICES ASSUME readers'[j].on = j, readers'[j].pc # "gone", ~ garbled'
                 PROVE  AllPackets(seen'[j], down'[j].data, down'[j].taken - readers'[j].left)
    BY DEF CallbackOf
  <2>2. readers[j].on = j /\ readers[j].pc # "gone" /\ readers'[j].left = readers[j].left
    <3>1. CASE j # r
      BY <1>3, <2>1, <3>1
    <3>2. CASE j = r
      <4>1. readers[r].on \in r .. sock /\ sock = r
        BY <1>3, <2>1, <3>2, ReaderTypes
      <4>2. readers[r].on = r
        BY <4>1, Elements
      <4>3. QED
        BY <1>1, <1>3, <3>2, <4>2
    <3>3. QED
      BY <3>1, <3>2
  <2>3. AllPackets(seen[j], down[j].data, down[j].taken - readers[j].left)
    BY <1>1, <2>2, CallbackOfAll DEF CallbackOf
  <2>4. QED
    BY <1>2, <2>2, <2>3
<1>7. CallbackInOrder'
  BY <1>2, <1>6, CallbackOfAll
<1>8. QED
  BY <1>5, <1>7

\* A new reader begins with an empty buffer.
LEMMA ClientConnects ==
  ASSUME Typed, Typed', ClientOK, CallbackInOrder, connectTcp
  PROVE  ClientOK' /\ CallbackInOrder'
<1>1. PICK n \in Nat :
        /\ n = Len(socket) + 1 /\ Len(socket') = n
        /\ down'[n] = NoData /\ \A k \in Made : down'[k] = down[k]
        /\ seen'[n] = <<>> /\ \A k \in Made : seen'[k] = seen[k]
        /\ readers'[n].on = n /\ readers'[n].left = 0
        /\ \A k \in Made : /\ readers'[k].on = readers[k].on
                           /\ readers'[k].left = readers[k].left
                           /\ readers'[k].pc \in {readers[k].pc, "gone"}
  BY Elements, ConnectEffect, SMTT(30)
<1>2. garbled' = garbled
  BY DEF connectTcp
<1>3. Made' = Made \cup {n}
  BY <1>1, Elements DEF Made
<1>4. \A k \in Made' : down'[k].taken <= Len(down'[k].data)
  BY <1>1, <1>3 DEF ClientOK, NoData
<1>5. ASSUME ~ garbled, NEW r \in Made PROVE ReaderOK(r)'
  <2>1. ReaderOK(r) /\ readers[r].on \in Made
    BY <1>5, ReaderTypes DEF ClientOK, ReaderOK
  <2>2. QED
    BY <1>1, <2>1 DEF ReaderOK
<1>6. ReaderOK(n)'
  BY <1>1 DEF ReaderOK, NoData
<1>7. ClientOK'
  BY <1>2, <1>3, <1>4, <1>5, <1>6 DEF ClientOK, ReaderOK
<1>8. \A k \in Made : CallbackOf(k)'
  BY <1>1, <1>2, CallbackOfAll DEF CallbackOf
<1>9. CallbackOf(n)'
  BY <1>1, NoPlaces DEF CallbackOf, NoData
<1>10. CallbackInOrder'
  BY <1>3, <1>8, <1>9, CallbackOfAll
<1>11. QED
  BY <1>7, <1>10

\* A callback gets the packets of its connection, whatever is cut, sent or closed.
LEMMA ClientStep ==
  ASSUME Typed, Typed', DownOK, ClientOK, SentInOrder, CallbackInOrder, [Next]_vars
  PROVE  ClientOK' /\ CallbackInOrder'
<1>1. \A k \in Made : Len(down[k].data) \in Nat /\ down[k].taken \in Nat
  BY Elements
<1>2. CASE disconnectTcp
  <2>1. UNCHANGED <<down, garbled, seen>> /\ Made' = Made
    BY <1>2, SocketsAfterClose DEF disconnectTcp, Made
  <2>2. \A k \in Made : /\ readers'[k].on = readers[k].on
                        /\ readers'[k].left = readers[k].left
                        /\ readers[k].pc = "gone" => readers'[k].pc = "gone"
    BY <1>2, ReadersAfterClose DEF disconnectTcp
  <2>3. QED
    BY <1>1, <2>1, <2>2, ClientKept
<1>3. CASE (\E b \in Bodies : sendPacket(b)) \/ Accept \/ WorkerThread \/ CloseSession
           \/ PushClose \/ HandlePacket \/ Notify \/ UNCHANGED vars
  <2>1. UNCHANGED <<socket, down, readers, garbled, seen>> /\ Made' = Made
    BY <1>3 DEF sendPacket, Accept, WorkerThread, CloseSession, PushClose, HandlePacket, Notify,
                vars, clientVars, Made
  <2>2. QED
    BY <1>1, <2>1, ClientKept
<1>4. CASE SendHeader \/ SendBody
  <2>1. UNCHANGED <<socket, readers, garbled, seen>> /\ Made' = Made
    BY <1>4 DEF SendHeader, SendBody, clientVars, Made
  <2>2. ASSUME NEW k \in Made
        PROVE  /\ down'[k].taken = down[k].taken /\ Len(down'[k].data) \in Nat
               /\ Len(down'[k].data) >= Len(down[k].data)
               /\ \A i \in 1 .. Len(down[k].data) : down'[k].data[i] = down[k].data[i]
    <3>1. CASE ~ IsOpen(session)
      BY <1>1, <1>4, <3>1 DEF SendHeader, SendBody, SentTo
    <3>2. CASE IsOpen(session)
      <4>1. PICK m \in Nat :
              /\ \A j \in Made : j # session => down'[j] = down[j]
              /\ down'[session].taken = down[session].taken
              /\ Len(down'[session].data) = Len(down[session].data) + m
              /\ \A i \in 1 .. Len(down[session].data) :
                   down'[session].data[i] = down[session].data[i]
        <5>1. CASE SendHeader
          BY <3>2, <5>1, HeaderEffect, Sizes
        <5>2. CASE SendBody
          BY <3>2, <5>2, BodyEffect, Sizes
        <5>3. QED
          BY <1>4, <5>1, <5>2
      <4>2. CASE k = session
        BY <1>1, <4>1, <4>2
      <4>3. CASE k # session
        BY <1>1, <4>1, <4>3
      <4>4. QED
        BY <4>2, <4>3
    <3>3. QED
      BY <3>1, <3>2
  <2>3. QED
    BY <2>1, <2>2, ClientKept
<1>5. ASSUME NEW r \in Made, RecvNothing(r) PROVE ClientOK' /\ CallbackInOrder'
  <2>1. UNCHANGED <<socket, down, garbled, seen>> /\ Made' = Made
    BY <1>5 DEF RecvNothing, Made
  <2>2. PICK pc \in {"parse", "gone"} :
          readers[r].pc = "recv" /\ Only(r, pc, readers[r].on, readers[r].left)
    BY <1>5, RecvNothingEffect
  <2>3. \A k \in Made : /\ readers'[k].on = readers[k].on
                        /\ readers'[k].left = readers[k].left
                        /\ readers[k].pc = "gone" => readers'[k].pc = "gone"
    BY <2>2 DEF Only
  <2>4. QED
    BY <1>1, <2>1, <2>3, ClientKept
<1>6. DOMAIN readers = Made
  BY Elements
<1>7. QED
  BY <1>2, <1>3, <1>4, <1>5, <1>6, ClientConnects, ClientReceives, ClientDispatches, ClientMovesOn
     DEF Next, ReaderStep

-----------------------------------------------------------------------------
(* The invariant                                                           *)

\* Nothing is connected at first.
LEMMA InitInv == Init => Inv
<1> SUFFICES ASSUME Init PROVE Inv
  OBVIOUS
<1>1. Len(socket) = 0 /\ Made = {} /\ socket = <<>>
  BY DEF Init, Made
<1>2. Typed
  <2>1. /\ 0 \in Nat /\ 0 <= MaxConnections /\ 0 \in 0 .. ServerBuffer /\ 0 \in 0 .. MaxPushed
    BY Sizes
  <2>2. QED
    <3>1. /\ <<>> \in Seq({"open", "closed", "failed"}) /\ <<>> \in Seq(Stream)
          /\ <<>> \in Seq(ReaderState) /\ <<>> \in Seq(Seq(Nat)) /\ <<>> \in Seq(Unit)
          /\ <<>> \in Seq(RecvPacketInfo) /\ Len(<<>>) = 0
      BY EmptySeq
    <3>2. QED
      <4>1. /\ up = <<>> /\ down = <<>> /\ readers = <<>> /\ seen = <<>> /\ handed = <<>>
            /\ recvQueue = <<>> /\ sendQueue = <<>>
            /\ sock = 0 /\ accepted = 0 /\ session = 0 /\ member = 0 /\ closing = 0
            /\ buffered = 0 /\ pushed = 0
            /\ garbled = FALSE /\ ended = FALSE /\ headerSent = FALSE
        BY DEF Init
      <4>2. garbled \in BOOLEAN /\ ended \in BOOLEAN /\ headerSent \in BOOLEAN
        BY <4>1, Zenon
      <4>3. 0 \in 0 .. Len(socket)
        BY <1>1
      <4>4. \A k \in Made : readers[k].on \in k .. Len(socket)
        BY <1>1
      <4>5. QED
        BY <1>1, <2>1, <3>1, <4>1, <4>2, <4>3, <4>4, Zenon DEF Typed
<1>3. UpOK /\ DownOK /\ ClientOK
  BY <1>1 DEF Init, UpOK, DownOK, ClientOK, IsOpen
<1>4. QueuesOK
  BY <1>1 DEF Init, QueuesOK, RecvOrdered, SendOrdered, DownAhead, Later
<1>5. SentInOrder /\ CallbackInOrder
  BY <1>1, <1>2, SentToAll, CallbackOfAll
<1>6. QED
  BY <1>2, <1>3, <1>4, <1>5 DEF Inv

\* Every step keeps what the streams, the queues and the readers are.
LEMMA InvStep == Inv /\ [Next]_vars => Inv'
<1> SUFFICES ASSUME Inv, [Next]_vars PROVE Inv'
  OBVIOUS
<1>1. Typed /\ UpOK /\ QueuesOK /\ DownOK /\ ClientOK /\ SentInOrder /\ CallbackInOrder
  BY DEF Inv
<1>2. Typed'
  BY <1>1, TypedStep
<1>3. UpOK' /\ QueuesOK'
  BY <1>1, UpStep, QueuesStep
<1>4. DownOK' /\ SentInOrder'
  BY <1>1, <1>2, SentStep
<1>5. ClientOK' /\ CallbackInOrder'
  BY <1>1, <1>2, ClientStep
<1>6. QED
  BY <1>2, <1>3, <1>4, <1>5 DEF Inv

\* The invariant holds always.
LEMMA Invariance == Spec => []Inv
BY InitInv, InvStep, PTL DEF Spec

\* The variables have their types: no place of a stream, no connection and no
\* buffer of the server is ever out of range.
THEOREM StreamTypeCorrect == Spec => []TypeOK
<1>1. Inv => TypeOK
  <2> SUFFICES ASSUME Inv PROVE TypeOK
    OBVIOUS
  <2>1. Typed /\ UpOK /\ ClientOK
    BY DEF Inv
  <2>2. Len(socket) \in Nat /\ MaxConnections \in Nat /\ DOMAIN socket = Made
    BY <2>1, Elements, Sizes
  <2>3. ASSUME NEW k \in Made
        PROVE  /\ socket[k] \in {"open", "closed", "failed"}
               /\ readers[k] \in [pc : {"recv", "parse", "gone"}, on : Connection, left : Nat]
               /\ up[k].taken \in 0 .. Len(up[k].data)
               /\ down[k].taken \in 0 .. Len(down[k].data)
               /\ \A unit \in ToSet(up[k].data \o down[k].data) : unit \in Unit
    <3>1. socket[k] \in {"open", "closed", "failed"}
      BY <2>1, Elements
    <3>2. readers[k] \in [pc : {"recv", "parse", "gone"}, on : Connection, left : Nat]
      <4>1. readers[k].on \in Made
        BY <2>1, ReaderTypes
      <4>2. readers[k].on \in Connection
        BY <2>1, <2>2, <4>1, SMTT(30) DEF Made, Connection, Typed
      <4>3. readers[k] \in ReaderState
        BY <2>1, Elements
      <4>4. QED
        BY <4>2, <4>3 DEF ReaderState
    <3>3. up[k].taken \in 0 .. Len(up[k].data) /\ down[k].taken \in 0 .. Len(down[k].data)
      BY <2>1, Elements DEF UpOK, ClientOK
    <3>4. \A unit \in ToSet(up[k].data \o down[k].data) : unit \in Unit
      <4>1. PICK u \in Seq(Unit), d \in Seq(Unit) : u = up[k].data /\ d = down[k].data
        BY <2>1, Elements
      <4>2. u \o d \in Seq(Unit)
        BY ConcatProperties
      <4>3. \A i \in DOMAIN (u \o d) : (u \o d)[i] \in Unit
        BY <4>2, ElementOfSeq, LenProperties
      <4>4. QED
        BY <4>1, <4>3 DEF ToSet
    <3>5. QED
      BY <3>1, <3>2, <3>3, <3>4
  <2>4. {sock, accepted, session, member} \subseteq 0 .. Len(socket)
    BY <2>1, <2>2 DEF Typed
  <2>5. QED
    BY <2>1, <2>2, <2>3, <2>4 DEF TypeOK, Typed
<1>2. QED
  BY <1>1, Invariance, PTL

\* Through all receives, closes and reuses of a session's buffer, a worker thread
\* makes of a client's stream the packets that were sent, in order and once
\* (IOCPManager.cpp:58-98).
THEOREM PacketsHandedInOrder == Spec => []HandedInOrder
<1>1. Inv => HandedInOrder
  BY DEF Inv, UpOK, HandedInOrder
<1>2. QED
  BY <1>1, Invariance, PTL

\* Whoever owns the session's index when the send thread gets to a packet, no
\* client gets a header that another packet follows before its body, or another
\* client's packet after one of its own (IOCPManager.cpp:49, 171-176).
THEOREM PacketsSentInOrder == Spec => []SentInOrder
<1>1. Inv => SentInOrder
  BY DEF Inv
<1>2. QED
  BY <1>1, Invariance, PTL

\* As long as a client's buffer is not overrun and one thread fills it, its
\* callback gets the packets of the connection in order and once
\* (NetworkManager.cpp:47-95).
THEOREM CallbacksInOrder == Spec => []CallbackInOrder
<1>1. Inv => CallbackInOrder
  BY DEF Inv
<1>2. QED
  BY <1>1, Invariance, PTL
=============================================================================
