------------------------------- MODULE Sessions -------------------------------
(***************************************************************************)
(* How a connection becomes a seated player and stops being one: the       *)
(* session indices of IOCPManager, the queue of received packets, the User *)
(* objects of UserManager, the login queries and the rooms of RoomManager. *)
(*                                                                         *)
(* Network threads run between any two steps of the logic thread.  A query *)
(* may take any time; those of one session are answered in order.  Every   *)
(* account has money to play with, so that a room kicks nobody (GameRoom). *)
(***************************************************************************)
EXTENDS Naturals, Sequences, FiniteSets

CONSTANTS
  Clients,      \* connections; each is made once
  NoClient,
  NumSessions,  \* MAX_USERCOUNT_PER_CHANNEL + ExtraClientCount
  NumUsers,     \* MAX_USERCOUNT_PER_CHANNEL
  NumRooms,     \* MAX_ROOMCOUNT
  NumSeats      \* MAX_USERCOUNT_PER_ROOM

SessionIndex == 0 .. (NumSessions - 1)
Users == 0 .. (NumUsers - 1)
Rooms == 0 .. (NumRooms - 1)
Seats == 0 .. (NumSeats - 1)
None == 100000                   \* -1, nullptr: no session, user or room

ASSUME ClientsAssumption == NoClient \notin Clients
ASSUME SizesAssumption ==
  \A n \in {NumSessions, NumUsers, NumRooms, NumSeats} : n \in 1 .. None

VARIABLES
  indexPool,  \* _sessionIndexPool
  owner,      \* whose socket _sessionPool[i] holds
  phase,      \* what each client has done
  closing,    \* how many CLOSE_SESSION packets of an index are still to be pushed
  packets,    \* the queue of received packets
  session,    \* m_sessionIndex of each User
  inRoom,     \* m_curDomain is ROOM
  room,       \* m_currentRoomIdx
  queries,    \* clients whose login query runs, by session
  seats,      \* m_userList of each room
  count,      \* m_currentUserCount of each room
  answered,   \* auxiliary: clients whose request to enter got an answer
  turnedAway, \* auxiliary: clients whose result found every seat taken
  astray      \* auxiliary: Users logged in after their client had gone, or again

auxVars == <<answered, turnedAway, astray>>
vars == <<indexPool, owner, phase, closing, packets, session, inRoom, room,
          queries, seats, count, auxVars>>

RecvPacketInfo ==
  [kind : {"enter", "close"}, index : SessionIndex, from : Clients \cup {NoClient}]

networkVars == <<indexPool, owner, phase, closing>>
userVars == <<session, inRoom, room, queries>>
roomVars == <<seats, count>>
logicVars == <<userVars, roomVars, auxVars>>

\* Room::Init
NobodySeated == [s \in Seats |-> None]

Init ==
  /\ indexPool = [i \in 1 .. NumSessions |-> i - 1]
  /\ owner = [i \in SessionIndex |-> NoClient]
  /\ phase = [c \in Clients |-> "new"]
  /\ closing = [i \in SessionIndex |-> 0]
  /\ packets = <<>>
  /\ session = [u \in Users |-> None]
  /\ inRoom = [u \in Users |-> FALSE]
  /\ room = [u \in Users |-> None]
  /\ queries = [i \in SessionIndex |-> <<>>]
  /\ seats = [r \in Rooms |-> NobodySeated]
  /\ count = [r \in Rooms |-> 0]
  /\ answered = {} /\ turnedAway = {}
  /\ astray = {}

-----------------------------------------------------------------------------
(* Listen thread and worker threads                                        *)

IsConnected(i) == owner[i] # NoClient

FrontIndexTaken == Tail(indexPool)

Accept(c) ==
  /\ phase[c] = "new"
  /\ indexPool # <<>>
  /\ owner' = [owner EXCEPT ![Head(indexPool)] = c]
  /\ indexPool' = FrontIndexTaken
  /\ phase' = [phase EXCEPT ![c] = "connected"]
  /\ UNCHANGED <<closing, packets, logicVars>>

Received(kind, i, c) == packets' = Append(packets, [kind |-> kind, index |-> i, from |-> c])

\* The client asks to enter once, when it has connected.
SendEnter(i) ==
  /\ IsConnected(i)
  /\ phase[owner[i]] = "connected"
  /\ phase' = [phase EXCEPT ![owner[i]] = "entering"]
  /\ Received("enter", i, owner[i])
  /\ UNCHANGED <<indexPool, owner, closing, logicVars>>

\* The index is given back ...
Disconnect(i) ==
  /\ IsConnected(i)
  /\ phase' = [phase EXCEPT ![owner[i]] = "gone"]
  /\ owner' = [owner EXCEPT ![i] = NoClient]
  /\ indexPool' = Append(indexPool, i)
  /\ closing' = [closing EXCEPT ![i] = @ + 1]
  /\ UNCHANGED <<packets, logicVars>>

\* ... before the logic thread is told.
PushClose(i) ==
  /\ closing[i] > 0
  /\ closing' = [closing EXCEPT ![i] = @ - 1]
  /\ Received("close", i, NoClient)
  /\ UNCHANGED <<indexPool, owner, phase, logicVars>>

-----------------------------------------------------------------------------
(* The logic thread                                                        *)

First(S) == CHOOSE x \in S : \A y \in S : x <= y

\* IsAvailableFromPool
Available == {u \in Users : session[u] = None}

\* GetUserBySessionIndex and GetUserBySessionId
Holders(i) == {u \in Users : session[u] = i}

NextPacket(kind) == packets # <<>> /\ Head(packets).kind = kind

\* RoomEnter and LoginUser: without a User object left nothing is done or sent.
HandleEnter ==
  LET packet == Head(packets) IN
  /\ NextPacket("enter")
  /\ packets' = Tail(packets)
  /\ \/ /\ Available # {}
        /\ session' = [session EXCEPT ![First(Available)] = packet.index]
        /\ queries' = [queries EXCEPT ![packet.index] = Append(@, packet.from)]
     \/ /\ Available = {}
        /\ UNCHANGED <<session, queries>>
  /\ UNCHANGED <<networkVars, inRoom, room, seats, count, auxVars>>

\* Mutant: a room counts as full when one seat is left
OneSeatKept == {r \in Rooms : count[r] > 0 /\ count[r] < NumSeats - 1}

OpenRooms == {r \in Rooms : count[r] > 0 /\ count[r] < NumSeats}
EmptyRooms == {r \in Rooms : count[r] = 0}

GetAvailableRoom == IF OpenRooms # {} THEN First(OpenRooms) ELSE First(EmptyRooms)

\* What is sent to a session nobody owns is lost.
Answer(i) == answered' = answered \cup ({owner[i]} \ {NoClient})

Sitting(u) == \E r \in Rooms, s \in Seats : seats[r][s] = u

\* A login of a User that still sits: it is seated twice, or forgets its seat.
Again(u) == IF Sitting(u) THEN astray \cup {u} ELSE astray

\* RoomManager::EnterUser and Room::EnterUser for the client who asked: it is
\* answered when there is a room, and not when all of them are full.
EnterUser(i, u, client) ==
  LET r == GetAvailableRoom
      s == First({t \in Seats : seats[r][t] = None})
  IN
  \/ /\ OpenRooms \cup EmptyRooms # {}
     /\ seats' = [seats EXCEPT ![r][s] = u]
     /\ count' = [count EXCEPT ![r] = @ + 1]
     /\ room' = [room EXCEPT ![u] = r]
     /\ inRoom' = [inRoom EXCEPT ![u] = TRUE]
     /\ Answer(i)
     /\ astray' = IF phase[client] = "gone" THEN astray \cup {u} ELSE Again(u)
     /\ UNCHANGED turnedAway
  \/ /\ OpenRooms \cup EmptyRooms = {}
     /\ inRoom' = [inRoom EXCEPT ![u] = FALSE]
     /\ turnedAway' = IF \A q \in Rooms, t \in Seats : seats[q][t] # None
                       THEN turnedAway \cup {client} ELSE turnedAway
     /\ astray' = Again(u)
     /\ UNCHANGED <<room, seats, count, answered>>

\* GetUserByAuthProcess.  A token that is not valid is answered.
HandleResult(i) ==
  /\ queries[i] # <<>>
  /\ Holders(i) # {}
  /\ queries' = [queries EXCEPT ![i] = Tail(@)]
  /\ \/ /\ Answer(i)
        /\ UNCHANGED <<inRoom, room, seats, count, turnedAway, astray>>
     \/ EnterUser(i, First(Holders(i)), Head(queries[i]))
  /\ UNCHANGED <<networkVars, packets, session>>

BackInLogin(u) == [inRoom EXCEPT ![u] = FALSE]

HeldBy(u) == {s \in Seats : seats[room[u]][s] = u}

\* Mutant: every seat of the user becomes free
AllSeatsLeft(u) == [s \in Seats |-> IF s \in HeldBy(u) THEN None ELSE seats[room[u]][s]]

\* Mutant: the user leaves and its seat stays taken
SeatKept(u) == seats[room[u]]

\* LeaveRoom empties the first seat it finds.
FirstSeatLeft(u) == [seats[room[u]] EXCEPT ![First(HeldBy(u))] = None]

\* Room::LeaveRoom
LeaveRoom(u) ==
  IF HeldBy(u) # {}
  THEN /\ seats' = [seats EXCEPT ![room[u]] = FirstSeatLeft(u)]
       /\ count' = [count EXCEPT ![room[u]] = @ - 1]
       /\ room' = [room EXCEPT ![u] = None]
       /\ inRoom' = BackInLogin(u)
  ELSE UNCHANGED <<seats, count, room, inRoom>>

\* Mutant: the User object is cleared when its session closes (Clear is
\* commented out in the code)
ClearedAtClose(i) == [u \in Users |-> IF u \in Holders(i) THEN None ELSE session[u]]

SessionAfterClose(i) == session

\* NtfSysCloseSesson
HandleClose ==
  LET i == Head(packets).index
      u == First(Holders(i))
  IN
  /\ NextPacket("close")
  /\ packets' = Tail(packets)
  /\ session' = SessionAfterClose(i)
  /\ IF Holders(i) # {} /\ inRoom[u]
     THEN LeaveRoom(u)
     ELSE UNCHANGED <<seats, count, room, inRoom>>
  /\ UNCHANGED <<networkVars, queries, auxVars>>

-----------------------------------------------------------------------------
Next ==
  \/ \E c \in Clients : Accept(c)
  \/ \E i \in SessionIndex : SendEnter(i) \/ Disconnect(i) \/ PushClose(i) \/ HandleResult(i)
  \/ HandleEnter \/ HandleClose

Spec == Init /\ [][Next]_vars

-----------------------------------------------------------------------------
(* Properties                                                              *)

TypeOK ==
  /\ indexPool \in Seq(SessionIndex)
  /\ owner \in [SessionIndex -> Clients \cup {NoClient}]
  /\ phase \in [Clients -> {"new", "connected", "entering", "gone"}]
  /\ closing \in [SessionIndex -> Nat]
  /\ packets \in Seq(RecvPacketInfo)
  /\ session \in [Users -> SessionIndex \cup {None}]
  /\ inRoom \in [Users -> BOOLEAN]
  /\ room \in [Users -> Rooms \cup {None}]
  /\ queries \in [SessionIndex -> Seq(Clients)]
  /\ seats \in [Rooms -> [Seats -> Users \cup {None}]]
  /\ count \in [Rooms -> 0 .. NumSeats]
  /\ answered \subseteq Clients /\ turnedAway \subseteq Clients
  /\ astray \subseteq Users

\* GetUserByAuthProcess uses the User of the session without a test
\* (DBProcess.cpp:71, 86): whatever was closed meanwhile, there is one.
ResultFindsUser == \A i \in SessionIndex : queries[i] # <<>> => Holders(i) # {}

\* LeavUserFromRoom indexes the list of rooms without a test (RoomManager.cpp:174):
\* a user in the domain of rooms has a room and a seat in it, however often its
\* session was closed and used again.
LeaverHasRoom ==
  \A u \in Users :
    inRoom[u] => /\ room[u] \in Rooms
                 /\ \E s \in Seats : seats[room[u]][s] = u

\* A handler of the logic thread finds the User and the room it looks up and uses
\* without a test.
LookupsSucceed == ResultFindsUser /\ LeaverHasRoom

\* m_currentUserCount decides which room has a seat left; Room::EnterUser then
\* finds one, also when a User object is seated twice.
CountFindsSeat ==
  \A r \in Rooms : count[r] = Cardinality({s \in Seats : seats[r][s] # None})

\* Nothing about session i is under way.
Idle(i) == /\ owner[i] = NoClient /\ closing[i] = 0 /\ queries[i] = <<>>
           /\ \A n \in DOMAIN packets : packets[n].index # i

\* A new connection takes its session "from the sessions that are idle"
\* (IOCPManager.cpp:128).  A player may sit in a room under such a session, for
\* ever, but only as a User that was once logged in when its client had gone, or
\* when it still sat for the client before: nobody else's leaving goes unnoticed.
GhostsWentAstray ==
  \A i \in SessionIndex : Idle(i) => \A u \in Holders(i) : Sitting(u) => u \in astray

\* There are more sessions than users "to let them know it is full"
\* (ServerConfig.h:19).  Whoever asked to enter and is not told anything found
\* every User object taken, or every seat in every room.
SilentOnlyWhenFull ==
  \A i \in SessionIndex :
    owner[i] # NoClient /\ phase[owner[i]] = "entering" /\ queries[i] = <<>>
      /\ (\A n \in DOMAIN packets : packets[n].index # i)
      => \/ owner[i] \in answered \cup turnedAway
         \/ \A u \in Users : session[u] # None
=============================================================================
