----------------------------- MODULE PacketStream -----------------------------
(***************************************************************************)
(* Packets in TCP streams: the worker and send threads of IOCPManager for  *)
(* one session index, and NetworkManager of a client that connects again   *)
(* and again.  TCP keeps the order of bytes and nothing else: whatever one *)
(* side has sent arrives in pieces of any size.                            *)
(*                                                                         *)
(* A packet is its first unit, which tells who it is for and how long its  *)
(* body is; the other units are all alike.                                 *)
(***************************************************************************)
EXTENDS Naturals, SequencesExt

CONSTANTS
  HeaderSize,      \* PACKET_HEADER_SIZE
  Bodies,          \* lengths of bodies
  ServerBuffer,    \* MAX_SESSION_RECV_BUFFER_SIZE
  ClientBuffer,    \* sizeof(_recvBuffer)
  MaxConnections,  \* bound: calls of connectTcp
  MaxRequests,     \* bound: packets the client sends
  MaxPushed        \* bound: packets the game server sends

ASSUME SizesAssumption ==
  /\ HeaderSize \in Nat \ {0} /\ Bodies \subseteq Nat
  /\ {ServerBuffer, ClientBuffer, MaxConnections, MaxRequests, MaxPushed} \subseteq Nat
  /\ \A b \in Bodies : HeaderSize + b <= ServerBuffer /\ HeaderSize + b <= ClientBuffer

VARIABLES
  socket,    \* socket[k]: the client's end of its k-th connection
  up, down,  \* up[k], down[k]: what was sent to and by the server, and how much of it was received
  sock,      \* the connection of _sock
  readers,   \* readers[k]: the receive thread that the k-th connectTcp started
  garbled,   \* the client's buffer is overrun or written by two threads
  seen,      \* auxiliary: where the packets given to the callback began, by connection
  accepted,  \* the listen thread's last connection
  session,   \* the connection of the session, 0: the index is free
  closing,   \* connections whose NTF_SYS_CLOSE_SESSION is still to be pushed
  buffered,  \* units in the session's _recvBuffer
  ended,     \* the server's process ended
  handed,    \* auxiliary: where those put together by the server began
  recvQueue, sendQueue,
  headerSent,  \* the send thread is between its two calls of send
  member,    \* the connection whose user the logic thread sends notifications
  pushed     \* packets pushed to sendQueue so far

clientVars == <<socket, sock, readers, garbled, seen>>
workerVars == <<accepted, session, closing, buffered, ended, handed>>
queues == <<recvQueue, sendQueue>>
logicVars == <<queues, headerSent, member, pushed>>
vars == <<clientVars, up, down, workerVars, logicVars>>

More == [for |-> 0, body |-> 0]
IsFirst(unit) == unit.for # 0
Firsts(units) == SelectSeq(units, IsFirst)

\* PacketHeader and the body behind it
Header(p) == <<p>> \o [i \in 1 .. HeaderSize - 1 |-> More]
Body(p) == [i \in 1 .. p.body |-> More]
Size(p) == HeaderSize + p.body

NoData == [data |-> <<>>, taken |-> 0]
InTransit(stream) == Len(stream.data) - stream.taken

\* The first of the last n units that were received.
FrontPlace(stream, n) == stream.taken - n + 1
FrontUnit(stream, n) == stream.data[FrontPlace(stream, n)]

Init ==
  /\ socket = <<>> /\ up = <<>> /\ down = <<>>
  /\ sock = 0
  /\ readers = <<>>
  /\ garbled = FALSE
  /\ seen = <<>>
  /\ accepted = 0 /\ session = 0 /\ closing = 0 /\ buffered = 0
  /\ ended = FALSE
  /\ handed = <<>>
  /\ recvQueue = <<>> /\ sendQueue = <<>>
  /\ headerSent = FALSE
  /\ member = 0 /\ pushed = 0

-----------------------------------------------------------------------------
(* NetworkManager                                                          *)

Reader(pc) == [pc |-> pc, on |-> Len(socket) + 1, left |-> 0]

\* closesocket: a recv that waits on the socket fails and ends its thread.
Closed(threads) ==
  [k \in DOMAIN threads |->
    IF threads[k].pc = "recv" /\ threads[k].on = sock THEN [threads[k] EXCEPT !.pc = "gone"]
    ELSE threads[k]]

SocketsClosed == [k \in DOMAIN socket |-> IF socket[k] = "open" THEN "closed" ELSE socket[k]]
IsOpen(k) == k # 0 /\ socket[k] = "open"

\* initTcp makes a socket, whether or not it can then be connected.
initTcp(state) == Append(SocketsClosed, state)

disconnectTcp ==
  /\ IsOpen(sock)
  /\ socket' = SocketsClosed
  /\ readers' = Closed(readers)
  /\ UNCHANGED <<up, down, sock, garbled, seen, workerVars, logicVars>>

\* A thread that still works on what it has received reads the new _sock next.
connectTcp ==
  /\ Len(socket) < MaxConnections
  /\ sock' = Len(socket) + 1
  /\ \/ /\ ~ ended
        /\ socket' = initTcp("open")
        /\ readers' = Append(Closed(readers), Reader("recv"))
     \/ /\ socket' = initTcp("failed")
        /\ readers' = Append(Closed(readers), Reader("gone"))
  /\ up' = Append(up, NoData) /\ down' = Append(down, NoData)
  /\ seen' = Append(seen, <<>>) /\ handed' = Append(handed, <<>>)
  /\ UNCHANGED <<garbled, accepted, session, closing, buffered, ended, logicVars>>

sendPacket(b) ==
  LET p == [for |-> sock, body |-> b] IN
  /\ IsOpen(sock) /\ ~ ended
  /\ Len(Firsts(FlattenSeq([k \in DOMAIN up |-> up[k].data]))) < MaxRequests
  /\ up' = [up EXCEPT ![sock].data = @ \o Header(p) \o Body(p)]
  /\ UNCHANGED <<clientVars, down, workerVars, logicVars>>

OnlyReader(r) == \A k \in DOMAIN readers \ {r} : readers[k].pc = "gone"

\* recv may fill the whole length of the buffer behind what is left in it.
Recv(r) ==
  LET k == readers[r].on IN
  /\ readers[r].pc = "recv" /\ IsOpen(k)
  /\ \E n \in 1 .. ClientBuffer :
       /\ n <= InTransit(down[k])
       /\ down' = [down EXCEPT ![k].taken = @ + n]
       /\ readers' = [readers EXCEPT ![r].pc = "parse", ![r].left = @ + n]
       /\ garbled' = (garbled \/ readers[r].left + n > ClientBuffer \/ ~ OnlyReader(r))
  /\ UNCHANGED <<socket, up, sock, seen, workerVars, logicVars>>

\* The server has closed the connection: recv returns 0, again and again, or
\* fails.
RecvNothing(r) ==
  LET k == readers[r].on IN
  /\ readers[r].pc = "recv" /\ IsOpen(k)
  /\ ended \/ (accepted >= k /\ session # k)
  /\ \/ InTransit(down[k]) = 0 /\ readers' = [readers EXCEPT ![r].pc = "parse"]
     \/ readers' = [readers EXCEPT ![r].pc = "gone"]
  /\ UNCHANGED <<socket, up, down, sock, garbled, seen, workerVars, logicVars>>

\* A body without its header is taken for one; what the client then does is
\* left open.
Torn(r) == readers[r].left > 0 /\ ~ IsFirst(FrontUnit(down[readers[r].on], readers[r].left))

PacketThere(r) ==
  LET t == readers[r] IN t.left >= HeaderSize /\ t.left >= Size(FrontUnit(down[t.on], t.left))

\* Mutant: what is left is moved to the front without its header
LeftWithoutHeader(left, size) == IF left > size THEN left - size - 1 ELSE 0

LeftAfter(left, size) == left - size

\* The callback runs in the scene's thread, which the reader waits for.
Dispatch(r) ==
  LET k == readers[r].on
      p == FrontUnit(down[k], readers[r].left)
  IN
  /\ readers[r].pc = "parse" /\ ~ garbled /\ ~ Torn(r)
  /\ PacketThere(r)
  /\ seen' = [seen EXCEPT ![k] = Append(@, FrontPlace(down[k], readers[r].left))]
  /\ readers' = [readers EXCEPT ![r].left = LeftAfter(@, Size(p))]
  /\ UNCHANGED <<socket, up, down, sock, garbled, workerVars, logicVars>>

\* The socket is read anew from _sock, that it was closed shows in recv only, and
\* what is left of the old connection goes on in the new one.
RecvNext(r) ==
  /\ readers[r].pc = "parse" /\ ~ garbled /\ ~ Torn(r)
  /\ ~ PacketThere(r)
  /\ readers' = [readers EXCEPT ![r].pc = IF IsOpen(sock) THEN "recv" ELSE "gone", ![r].on = sock]
  /\ garbled' = (readers[r].left > 0 /\ readers[r].on # sock)
  /\ UNCHANGED <<socket, up, down, sock, seen, workerVars, logicVars>>

-----------------------------------------------------------------------------
(* IOCPManager                                                             *)

Accept ==
  /\ session = 0 /\ ~ ended /\ accepted < Len(socket)
  /\ accepted' = accepted + 1
  /\ session' = IF socket[accepted + 1] = "failed" THEN 0 ELSE accepted + 1
  /\ buffered' = 0
  /\ UNCHANGED <<clientVars, up, down, closing, ended, handed, logicVars>>

Received(kind, p) == recvQueue' = Append(recvQueue, [kind |-> kind, packet |-> p])

\* Mutant: only bodies that exceed what is there count as complete
Exceeds(p, n) == Size(p) > n

\* "When one packet can be made as a whole": the test of the code
TakenForWhole(p, n) == Size(p) >= n

\* Mutant: bytes are received at the start of the buffer
AtStart(n) == n

There(n) == buffered + n

\* A completed WSARecv: at most one packet is made of it, and if that lacks a
\* part, a negative length is copied, which ends the process.
WorkerThread ==
  LET k == session IN
  /\ k # 0 /\ ~ ended
  /\ \E n \in 1 .. InTransit(up[k]) :
       LET there == There(n)
           stream == [up[k] EXCEPT !.taken = @ + n]
           p == FrontUnit(stream, there)
           made == there >= HeaderSize /\ TakenForWhole(p, there)
       IN
       /\ there <= ServerBuffer
       /\ up' = [up EXCEPT ![k] = stream]
       /\ \/ /\ made
             /\ Received("packet", p)
             /\ handed' = [handed EXCEPT ![k] = Append(@, FrontPlace(stream, there))]
             /\ buffered' = 0
             /\ ended' = (Size(p) > there)
          \/ /\ ~ made
             /\ buffered' = there
             /\ UNCHANGED <<recvQueue, handed, ended>>
  /\ UNCHANGED <<clientVars, down, accepted, session, closing, sendQueue, headerSent, member, pushed>>

\* No byte was transferred: the connection is closed (what it sent last may be
\* lost), or there was no room in the buffer.
CloseSession ==
  /\ session # 0 /\ ~ ended
  /\ \/ ~ IsOpen(session)
     \/ buffered = ServerBuffer /\ InTransit(up[session]) > 0
  /\ session' = 0
  /\ closing' = closing + 1
  /\ UNCHANGED <<clientVars, up, down, accepted, buffered, ended, handed, logicVars>>

\* The packet that says so is pushed after the index was given back.
PushClose ==
  /\ closing > 0 /\ ~ ended
  /\ closing' = closing - 1
  /\ Received("close", More)
  /\ UNCHANGED <<clientVars, up, down, accepted, session, buffered, ended, handed,
                 sendQueue, headerSent, member, pushed>>

\* Mutant: a packet is put in front of those that wait
PushFront(p) == <<p>> \o sendQueue

PushBack(p) == Append(sendQueue, p)

Pushed(k) ==
  \E b \in Bodies :
    /\ pushed < MaxPushed
    /\ pushed' = pushed + 1
    /\ sendQueue' = PushBack([for |-> k, body |-> b])

\* The logic thread answers a packet and counts its sender as a player.
HandlePacket ==
  LET front == Head(recvQueue) IN
  /\ recvQueue # <<>> /\ ~ ended
  /\ recvQueue' = Tail(recvQueue)
  /\ \/ front.kind = "packet" /\ Pushed(front.packet.for) /\ member' = front.packet.for
     \/ front.kind = "close" /\ member' = 0 /\ UNCHANGED <<sendQueue, pushed>>
  /\ UNCHANGED <<clientVars, up, down, workerVars, headerSent>>

Notify ==
  /\ member # 0 /\ ~ ended
  /\ Pushed(member)
  /\ UNCHANGED <<clientVars, up, down, workerVars, recvQueue, headerSent, member>>

\* What is sent goes to the connection the session has at that moment.
SentTo(units) ==
  down' = IF IsOpen(session) THEN [down EXCEPT ![session].data = @ \o units]
          ELSE down

SendHeader ==
  /\ sendQueue # <<>> /\ ~ headerSent /\ ~ ended
  /\ SentTo(Header(Head(sendQueue)))
  /\ headerSent' = TRUE
  /\ UNCHANGED <<clientVars, up, workerVars, recvQueue, sendQueue, member, pushed>>

BodyOfFront == Body(Head(sendQueue))

SendBody ==
  /\ headerSent /\ ~ ended
  /\ SentTo(BodyOfFront)
  /\ headerSent' = FALSE
  /\ sendQueue' = Tail(sendQueue)
  /\ UNCHANGED <<clientVars, up, workerVars, recvQueue, member, pushed>>

-----------------------------------------------------------------------------
ReaderStep == \E r \in DOMAIN readers : Recv(r) \/ RecvNothing(r) \/ Dispatch(r) \/ RecvNext(r)

Next ==
  \/ connectTcp \/ disconnectTcp \/ (\E b \in Bodies : sendPacket(b)) \/ ReaderStep
  \/ Accept \/ WorkerThread \/ CloseSession \/ PushClose
  \/ HandlePacket \/ Notify \/ SendHeader \/ SendBody

\* Bytes that were sent arrive, and the server's threads run.
Fairness == WF_vars(Accept) /\ WF_vars(WorkerThread) /\ WF_vars(CloseSession)

Spec == Init /\ [][Next]_vars /\ Fairness

-----------------------------------------------------------------------------
(* Properties                                                              *)

Connection == 1 .. MaxConnections
Unit == [for : 0 .. MaxConnections, body : Bodies \cup {0}]

TypeOK ==
  /\ Len(socket) <= MaxConnections
  /\ \A k \in DOMAIN socket :
       /\ socket[k] \in {"open", "closed", "failed"}
       /\ readers[k] \in [pc : {"recv", "parse", "gone"}, on : Connection, left : Nat]
       /\ up[k].taken \in 0 .. Len(up[k].data) /\ down[k].taken \in 0 .. Len(down[k].data)
       /\ \A unit \in ToSet(up[k].data \o down[k].data) : unit \in Unit
  /\ {sock, accepted, session, member} \subseteq 0 .. Len(socket)
  /\ buffered \in 0 .. ServerBuffer
  /\ pushed \in 0 .. MaxPushed

\* The places name the packets that begin in the first n units, in order and once.
AllPackets(places, units, n) ==
  /\ \A a, b \in DOMAIN places : a < b => places[a] < places[b]
  /\ ToSet(places) = {i \in 1 .. n : IsFirst(units[i])}

\* Through all receives, closes and reuses of a session's buffer: the packets
\* made for a connection are those whose first byte it no longer waits for, in
\* order and once (IOCPManager.cpp:58-98).
HandedInOrder ==
  session # 0 /\ ~ ended
    => AllPackets(handed[session], up[session].data, up[session].taken - buffered)

Wedged(k) ==
  /\ session = k /\ buffered >= HeaderSize
  /\ buffered > Size(FrontUnit(up[k], buffered))

SentBy(k, n) == k \in DOMAIN up /\ Len(Firsts(up[k].data)) >= n

Over(k) == socket[k] # "open" \/ (accepted >= k /\ session # k)

\* "When one packet can be made as a whole" (IOCPManager.cpp:71): every packet a
\* client sends is put together in the end, unless two came together, one came
\* in parts, or the connection is over.
PacketsArrive ==
  \A k \in Connection, n \in 1 .. MaxRequests :
    SentBy(k, n) ~> SentBy(k, n) /\ (Len(handed[k]) >= n \/ Wedged(k) \/ ended \/ Over(k))

NextFirsts(units, i) == {j \in i + 1 .. Len(units) : IsFirst(units[j])}

\* The send thread looks up the socket for the header and again for the body
\* (IOCPManager.cpp:174-175): however connections and closes come between, each
\* header is followed by its body or is the last thing its client gets.
HeadersHaveBodies ==
  \A k \in DOMAIN down :
    LET units == down[k].data IN
    \A i \in DOMAIN units :
      IsFirst(units[i]) =>
        IF NextFirsts(units, i) = {} THEN Len(units) - i + 1 \in {HeaderSize, Size(units[i])}
        ELSE \A j \in NextFirsts(units, i) : j - i >= Size(units[i])

\* Packets for the last owner of a session index may reach the next one, but
\* none after the first packet that is its own (IOCPManager.cpp:49, 171-176).
StrangersFirst ==
  \A k \in DOMAIN down :
    LET units == down[k].data IN
    \A i \in DOMAIN units : IsFirst(units[i]) =>
      \A j \in NextFirsts(units, i) : units[i].for <= units[j].for

\* Whoever owns a session index when the send thread gets to a packet, its clients
\* get headers with their bodies, and their own packets last.
SentInOrder == HeadersHaveBodies /\ StrangersFirst

\* As long as a client's buffer is not overrun and one thread fills it, its
\* callback gets the packets of the connection in order and once, however they
\* are cut into pieces (NetworkManager.cpp:47-95).
CallbackInOrder ==
  \A k \in DOMAIN readers :
    readers[k].on = k /\ readers[k].pc # "gone" /\ ~ garbled
      => AllPackets(seen[k], down[k].data, down[k].taken - readers[k].left)
=============================================================================
