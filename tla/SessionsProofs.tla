---------------------------- MODULE SessionsProofs ----------------------------
(***************************************************************************)
(* What Sessions promises, proved for every number of clients, session     *)
(* indices, User objects, rooms and seats: the tables of the three         *)
(* managers stay consistent whatever closes while it is being served.      *)
(***************************************************************************)
EXTENDS Sessions, FiniteSetTheorems, WellFoundedInduction, SequenceTheorems, TLAPS

\* What a queue holds.
Elements(s) == {s[n] : n \in 1 .. Len(s)}
NoRepeat(s) == \A m, n \in 1 .. Len(s) : s[m] = s[n] => m = n

\* TypeOK without the bound of the counters, which follows from the seats.
Typed ==
  /\ indexPool \in Seq(SessionIndex)
  /\ owner \in [SessionIndex -> Clients \cup {NoClient}]
  /\ phase \in [Clients -> {"new", "connected", "entering", "gone"}]
  /\ closing \in [SessionIndex -> Nat]
  /\ packets \in Seq(RecvPacketInfo)
  /\ session \in [Users -> SessionIndex \cup {None}]
  /\ inRoom \in [Users -> BOOLEAN]
  /\ room \in [Users -> Rooms \cup {None}]
  /\ queries \in [SessionIndex -> Seq(Clients)]
  /\ seats \in [Rooms -> [Seats -> Users \cup {None}]]
  /\ count \in [Rooms -> Nat]
  /\ answered \subseteq Clients /\ turnedAway \subseteq Clients
  /\ astray \subseteq Users

\* An index in the pool is there once, and nobody's.
PoolOK == /\ NoRepeat(indexPool)
          /\ \A i \in Elements(indexPool) : owner[i] = NoClient

\* A client holds at most one session, and is connected while it does.
OwnersOK ==
  /\ \A i \in SessionIndex : owner[i] # NoClient => phase[owner[i]] \in {"connected", "entering"}
  /\ \A i, j \in SessionIndex : owner[i] = owner[j] /\ owner[i] # NoClient => i = j

\* Whoever asked under session i still holds it, or has gone.
StillOwns(c, i) == phase[c] = "gone" \/ owner[i] = c

AskersOK ==
  /\ \A p \in Elements(packets) :
       p.kind = "enter" => p.from \in Clients /\ StillOwns(p.from, p.index)
  /\ \A i \in SessionIndex : \A c \in Elements(queries[i]) : StillOwns(c, i)

\* The pool of User objects is used up from the front.
UsersInOrder == \A u, v \in Users : u < v /\ session[v] # None => session[u] # None

\* Of the User objects of one session only the one that is looked up sits.
SittersLookedUp ==
  \A u \in Users : Sitting(u) => session[u] # None /\ u = First(Holders(session[u]))

\* A user who is not astray has one seat, in the room it thinks it is in.
OneSeat ==
  \A u \in Users \ astray, r \in Rooms, s \in Seats :
    seats[r][s] = u => /\ inRoom[u] /\ room[u] = r
                       /\ \A t \in Seats : seats[r][t] = u => t = s

\* Whoever sits and is not astray is connected, or will be seen to leave.
CloseQueued(i) == \E p \in Elements(packets) : p.kind = "close" /\ p.index = i
LeavingSeen ==
  \A u \in Users \ astray : Sitting(u) =>
    \/ owner[session[u]] # NoClient
    \/ closing[session[u]] > 0
    \/ CloseQueued(session[u])

\* Whoever asked to enter has its request under way, or got what it gets.
EnterQueued(i, c) == \E p \in Elements(packets) : p.kind = "enter" /\ p.index = i /\ p.from = c
AskingSeen ==
  \A i \in SessionIndex :
    owner[i] # NoClient /\ phase[owner[i]] = "entering" =>
      \/ EnterQueued(i, owner[i])
      \/ owner[i] \in Elements(queries[i])
      \/ owner[i] \in answered \cup turnedAway
      \/ Available = {}

Inv == /\ Typed
       /\ PoolOK /\ OwnersOK /\ AskersOK
       /\ ResultFindsUser /\ UsersInOrder /\ SittersLookedUp
       /\ LeaverHasRoom /\ CountFindsSeat /\ OneSeat
       /\ LeavingSeen /\ AskingSeen

-----------------------------------------------------------------------------
(* Sizes and sequences                                                     *)

\* The four sizes, and what follows for the tables.
LEMMA Sizes ==
  /\ NumSessions \in Nat \ {0} /\ NumUsers \in Nat \ {0}
  /\ NumRooms \in Nat \ {0} /\ NumSeats \in Nat \ {0}
  /\ None \in Nat /\ None \notin Users /\ None \notin SessionIndex /\ None \notin Rooms
  /\ Users \subseteq Nat /\ Rooms \subseteq Nat /\ Seats \subseteq Nat
  /\ IsFiniteSet(Users) /\ IsFiniteSet(Rooms) /\ IsFiniteSet(Seats)
  /\ Cardinality(Seats) = NumSeats
<1>1. /\ NumSessions \in 1 .. None /\ NumUsers \in 1 .. None
      /\ NumRooms \in 1 .. None /\ NumSeats \in 1 .. None
  BY SizesAssumption
<1>2. /\ NumSessions \in Nat \ {0} /\ NumUsers \in Nat \ {0}
      /\ NumRooms \in Nat \ {0} /\ NumSeats \in Nat \ {0} /\ None \in Nat
  <2>1. None \in Nat
    BY DEF None
  <2>2. QED
    BY <1>1, <2>1
<1>3. None \notin Users /\ None \notin SessionIndex /\ None \notin Rooms
  BY <1>1, <1>2 DEF Users, SessionIndex, Rooms
<1>4. Users \subseteq Nat /\ Rooms \subseteq Nat /\ Seats \subseteq Nat
  BY <1>2 DEF Users, Rooms, Seats
<1>5. IsFiniteSet(Users) /\ IsFiniteSet(Rooms) /\ IsFiniteSet(Seats)
  BY <1>2, FS_Interval DEF Users, Rooms, Seats
<1>6. Cardinality(Seats) = NumSeats
  BY <1>2, FS_Interval DEF Seats
<1>7. QED
  BY <1>2, <1>3, <1>4, <1>5, <1>6

\* What a queue holds when something was added at its end.
LEMMA ElementsOfAppend ==
  ASSUME NEW S, NEW s \in Seq(S), NEW x \in S
  PROVE  /\ Append(s, x) \in Seq(S)
         /\ Elements(Append(s, x)) = Elements(s) \cup {x}
         /\ NoRepeat(s) /\ x \notin Elements(s) => NoRepeat(Append(s, x))
<1>1. /\ Append(s, x) \in Seq(S) /\ Len(s) \in Nat /\ Len(Append(s, x)) = Len(s) + 1
      /\ \A n \in 1 .. Len(s) : Append(s, x)[n] = s[n]
      /\ Append(s, x)[Len(s) + 1] = x
  BY AppendProperties, LenProperties
<1>2. QED
  BY <1>1 DEF Elements, NoRepeat

\* What is left of a queue without its first element.
LEMMA ElementsOfTail ==
  ASSUME NEW S, NEW s \in Seq(S), s # <<>>
  PROVE  /\ Tail(s) \in Seq(S) /\ Head(s) \in S /\ Elements(s) \subseteq S
         /\ Elements(s) = {Head(s)} \cup Elements(Tail(s))
         /\ NoRepeat(s) => NoRepeat(Tail(s)) /\ Head(s) \notin Elements(Tail(s))
<1>1. /\ Tail(s) \in Seq(S) /\ Head(s) \in S /\ Head(s) = s[1]
      /\ Len(s) \in Nat \ {0} /\ Len(Tail(s)) = Len(s) - 1
      /\ \A n \in 1 .. Len(Tail(s)) : Tail(s)[n] = s[n + 1]
  BY HeadTailProperties, LenProperties, EmptySeq
<1>2. \A n \in 1 .. Len(s) : s[n] \in S
  BY ElementOfSeq
<1>3. Elements(s) \subseteq S
  BY <1>2 DEF Elements
<1>4. Elements(s) = {Head(s)} \cup Elements(Tail(s))
  <2>1. ASSUME NEW n \in 1 .. Len(s), n # 1 PROVE s[n] \in Elements(Tail(s))
    <3>1. n - 1 \in 1 .. Len(Tail(s)) /\ Tail(s)[n - 1] = s[n]
      BY <1>1, <2>1
    <3>2. QED
      BY <3>1 DEF Elements
  <2>2. ASSUME NEW n \in 1 .. Len(Tail(s)) PROVE Tail(s)[n] \in Elements(s)
    <3>1. n + 1 \in 1 .. Len(s) /\ Tail(s)[n] = s[n + 1]
      BY <1>1
    <3>2. QED
      BY <3>1 DEF Elements
  <2>3. Head(s) \in Elements(s)
    BY <1>1 DEF Elements
  <2>4. QED
    BY <1>1, <2>1, <2>2, <2>3 DEF Elements
<1>5. ASSUME NoRepeat(s) PROVE NoRepeat(Tail(s)) /\ Head(s) \notin Elements(Tail(s))
  <2>1. \A n \in 1 .. Len(Tail(s)) : n + 1 \in 1 .. Len(s) /\ n + 1 # 1
    BY <1>1
  <2>2. NoRepeat(Tail(s))
    BY <1>1, <1>5, <2>1 DEF NoRepeat
  <2>3. 1 \in 1 .. Len(s)
    BY <1>1
  <2>4. Head(s) \notin Elements(Tail(s))
    BY <1>1, <1>5, <2>1, <2>3 DEF NoRepeat, Elements
  <2>5. QED
    BY <2>2, <2>4
<1>6. QED
  BY <1>1, <1>3, <1>4, <1>5

-----------------------------------------------------------------------------
(* Look-ups: the first of a set, the user of a session, a seat             *)

\* The smallest of a finite set of numbers is in the set, and below the others.
\* The sets of what lies below each member are finite; one of them has no other
\* as a strict subset.
LEMMA FirstIsSmallest ==
  ASSUME NEW S, S \subseteq Nat, IsFiniteSet(S), S # {}
  PROVE  First(S) \in S /\ \A y \in S : First(S) <= y
<1> DEFINE Below(x) == {y \in S : y < x}
           Family   == {Below(x) : x \in S}
<1>1. FiniteSubsetsOf(S) = SUBSET S
  BY FS_FiniteSubsetsOfFinite
<1>2. Family \subseteq FiniteSubsetsOf(S) /\ Family # {}
  <2>1. ASSUME NEW A \in Family PROVE A \in SUBSET S
    OBVIOUS
  <2>2. \A x \in S : Below(x) \in Family
    OBVIOUS
  <2>3. Family # {}
    <3> HIDE DEF Family
    <3> QED
      BY <2>2
  <2>4. QED
    BY <1>1, <2>1, <2>3
<1>3. IsWellFoundedOn(StrictSubsetOrdering(S), FiniteSubsetsOf(S))
  BY FS_StrictSubsetOrderingWellFounded
<1>4. PICK A \in Family : \A B \in Family : ~ (<<B, A>> \in StrictSubsetOrdering(S))
  <2> HIDE DEF Family
  <2> QED
    BY <1>2, <1>3, WFMin
<1>5. PICK x \in S : A = Below(x)
  OBVIOUS
<1>6. ASSUME NEW y \in S PROVE x <= y
  <2>1. SUFFICES ASSUME y < x PROVE FALSE
    OBVIOUS
  <2>2. Below(y) \in Family /\ <<Below(y), A>> \in (SUBSET S) \X (SUBSET S)
    BY <1>5
  <2>3. y \in A /\ y \notin Below(y) /\ \A z \in Below(y) : z \in A
    BY <1>5, <2>1
  <2>4. <<Below(y), A>> \in StrictSubsetOrdering(S)
    BY <2>2, <2>3 DEF StrictSubsetOrdering
  <2>5. QED
    BY <1>4, <2>2, <2>4
<1>7. QED
  BY <1>6 DEF First

\* The User object a new login takes.
LEMMA FirstAvailable ==
  ASSUME Typed, UsersInOrder, Available # {}
  PROVE  /\ First(Available) \in Users /\ session[First(Available)] = None
         /\ \A u \in Users : session[u] # None => u < First(Available)
         /\ \A u \in Users : session[u] = None => First(Available) <= u
<1>1. Available \subseteq Nat /\ IsFiniteSet(Available) /\ Available \subseteq Users
  BY Sizes, FS_Subset DEF Available
<1>2. First(Available) \in Available /\ \A y \in Available : First(Available) <= y
  BY <1>1, FirstIsSmallest
<1>3. First(Available) \in Users /\ session[First(Available)] = None
  BY <1>2 DEF Available
<1>4. ASSUME NEW u \in Users, session[u] # None PROVE u < First(Available)
  <2>1. u \in Nat /\ First(Available) \in Nat /\ u # First(Available)
    BY <1>3, <1>4, Sizes
  <2>2. ~ (First(Available) < u)
    BY <1>3, <1>4 DEF UsersInOrder
  <2>3. QED
    BY <2>1, <2>2
<1>5. ASSUME NEW u \in Users, session[u] = None PROVE First(Available) <= u
  BY <1>2, <1>5 DEF Available
<1>6. QED
  BY <1>3, <1>4, <1>5

\* The User object a session index is looked up to.
LEMMA FirstHolder ==
  ASSUME NEW i, Holders(i) # {}
  PROVE  /\ First(Holders(i)) \in Users /\ session[First(Holders(i))] = i
         /\ \A u \in Users : session[u] = i => First(Holders(i)) <= u
<1>1. Holders(i) \subseteq Nat /\ IsFiniteSet(Holders(i))
  BY Sizes, FS_Subset DEF Holders
<1>2. First(Holders(i)) \in Holders(i) /\ \A y \in Holders(i) : First(Holders(i)) <= y
  BY <1>1, FirstIsSmallest
<1>3. QED
  BY <1>2 DEF Holders

\* The first of some seats.
LEMMA FirstSeat ==
  ASSUME NEW S, S \subseteq Seats, S # {}
  PROVE  First(S) \in S
BY Sizes, FS_Subset, FirstIsSmallest

\* The taken seats of a row.
Taken(row) == {s \in Seats : row[s] # None}

LEMMA TakenFinite ==
  ASSUME NEW row
  PROVE  /\ IsFiniteSet(Taken(row)) /\ Cardinality(Taken(row)) \in 0 .. NumSeats
         /\ Cardinality(Taken(row)) < NumSeats => Taken(row) # Seats
         /\ Cardinality(Taken(row)) = NumSeats => Taken(row) = Seats
<1>1. Taken(row) \subseteq Seats
  BY DEF Taken
<1>2. /\ IsFiniteSet(Taken(row)) /\ Cardinality(Taken(row)) <= Cardinality(Seats)
      /\ Cardinality(Taken(row)) = Cardinality(Seats) => Taken(row) = Seats
  BY <1>1, Sizes, FS_Subset
<1>3. QED
  BY <1>2, Sizes, FS_CardinalityType

\* The room and the seat that are given out: the room's counter is below its
\* seats, and the seat is free.
LEMMA RoomHasSeat ==
  ASSUME Typed, CountFindsSeat, OpenRooms \cup EmptyRooms # {}
  PROVE  LET r == GetAvailableRoom
             s == First({t \in Seats : seats[r][t] = None})
         IN r \in Rooms /\ count[r] < NumSeats /\ s \in Seats /\ seats[r][s] = None
<1> DEFINE r == GetAvailableRoom
           free == {t \in Seats : seats[r][t] = None}
<1>1. OpenRooms \subseteq Rooms /\ EmptyRooms \subseteq Rooms
  BY DEF OpenRooms, EmptyRooms
<1>2. /\ OpenRooms # {} => First(OpenRooms) \in OpenRooms
      /\ EmptyRooms # {} => First(EmptyRooms) \in EmptyRooms
  BY <1>1, Sizes, FS_Subset, FirstIsSmallest
<1>3. r \in Rooms /\ count[r] < NumSeats
  BY <1>2, Sizes DEF GetAvailableRoom, OpenRooms, EmptyRooms
<1>4. Cardinality(Taken(seats[r])) < NumSeats
  BY <1>3 DEF CountFindsSeat, Taken
<1>5. free # {}
  BY <1>4, TakenFinite DEF Taken
<1>6. First(free) \in free
  BY <1>5, FirstSeat
<1>7. QED
  BY <1>3, <1>6

\* When no room is given out every seat is taken.
LEMMA EverySeatTaken ==
  ASSUME Typed, CountFindsSeat, OpenRooms \cup EmptyRooms = {}
  PROVE  \A q \in Rooms, t \in Seats : seats[q][t] # None
<1> SUFFICES ASSUME NEW q \in Rooms PROVE \A t \in Seats : seats[q][t] # None
  OBVIOUS
<1>1. count[q] \in Nat /\ count[q] # 0 /\ ~ (count[q] > 0 /\ count[q] < NumSeats)
  BY DEF OpenRooms, EmptyRooms, Typed
<1>2. count[q] = Cardinality(Taken(seats[q]))
  BY DEF CountFindsSeat, Taken
<1>3. Taken(seats[q]) = Seats
  BY <1>1, <1>2, TakenFinite, Sizes
<1>4. QED
  BY <1>3 DEF Taken

-----------------------------------------------------------------------------
(* What the two handlers that seat and unseat users do                     *)

\* User u is given seat s of room r.
Gives(u, r, s) ==
  /\ r \in Rooms /\ s \in Seats /\ seats[r][s] = None
  /\ seats' = [seats EXCEPT ![r][s] = u]
  /\ count' = [count EXCEPT ![r] = @ + 1]
  /\ room' = [room EXCEPT ![u] = r]
  /\ inRoom' = [inRoom EXCEPT ![u] = TRUE]

\* User u gives up seat s of room r.
Frees(u, r, s) ==
  /\ r \in Rooms /\ s \in Seats /\ seats[r][s] = u /\ room[u] = r
  /\ seats' = [seats EXCEPT ![r][s] = None]
  /\ count' = [count EXCEPT ![r] = @ - 1]
  /\ room' = [room EXCEPT ![u] = None]
  /\ inRoom' = [inRoom EXCEPT ![u] = FALSE]

\* GetUserByAuthProcess: the user of the session was found; the client who asked
\* longest ago is answered and perhaps seated, or every seat is taken.
LEMMA ResultSteps ==
  ASSUME Inv, NEW i \in SessionIndex, HandleResult(i)
  PROVE  LET u == First(Holders(i))
             c == Head(queries[i])
         IN /\ u \in Users /\ session[u] = i
            /\ c \in Clients /\ queries[i] \in Seq(Clients)
            /\ Elements(queries[i]) = {c} \cup Elements(Tail(queries[i]))
            /\ \/ /\ Answer(i)
                  /\ UNCHANGED <<inRoom, room, seats, count, turnedAway, astray>>
               \/ /\ Answer(i) /\ UNCHANGED turnedAway
                  /\ \E r \in Rooms, s \in Seats : Gives(u, r, s)
                  /\ astray' = IF phase[c] = "gone" THEN astray \cup {u} ELSE Again(u)
               \/ /\ turnedAway' = turnedAway \cup {c}
                  /\ inRoom' = [inRoom EXCEPT ![u] = FALSE]
                  /\ astray' = Again(u)
                  /\ UNCHANGED <<room, seats, count, answered>>
<1> DEFINE u == First(Holders(i))
           c == Head(queries[i])
<1>1. u \in Users /\ session[u] = i
  BY FirstHolder DEF HandleResult
<1>2. queries[i] \in Seq(Clients) /\ queries[i] # <<>>
  BY DEF Inv, Typed, HandleResult
<1>3. c \in Clients /\ Elements(queries[i]) = {c} \cup Elements(Tail(queries[i]))
  BY <1>2, ElementsOfTail
<1>4. CASE EnterUser(i, u, c)
  <2>1. CASE OpenRooms \cup EmptyRooms # {}
    <3> DEFINE r == GetAvailableRoom
               s == First({t \in Seats : seats[r][t] = None})
    <3>1. r \in Rooms /\ s \in Seats /\ seats[r][s] = None
      BY <2>1, RoomHasSeat DEF Inv
    <3>2. /\ seats' = [seats EXCEPT ![r][s] = u]
          /\ count' = [count EXCEPT ![r] = @ + 1]
          /\ room' = [room EXCEPT ![u] = r]
          /\ inRoom' = [inRoom EXCEPT ![u] = TRUE]
          /\ Answer(i) /\ UNCHANGED turnedAway
          /\ astray' = IF phase[c] = "gone" THEN astray \cup {u} ELSE Again(u)
      BY <1>4, <2>1 DEF EnterUser
    <3> HIDE DEF r, s
    <3>3. Gives(u, r, s)
      BY <3>1, <3>2 DEF Gives
    <3>4. QED
      BY <1>1, <1>2, <1>3, <3>1, <3>2, <3>3
  <2>2. CASE OpenRooms \cup EmptyRooms = {}
    <3>1. \A q \in Rooms, t \in Seats : seats[q][t] # None
      BY <2>2, EverySeatTaken DEF Inv
    <3>2. QED
      BY <1>1, <1>2, <1>3, <1>4, <2>2, <3>1 DEF EnterUser
  <2>3. QED
    BY <2>1, <2>2
<1>5. QED
  BY <1>1, <1>2, <1>3, <1>4 DEF HandleResult

\* NtfSysCloseSesson: the user of the session, if it is in a room, loses a seat of
\* that room.
LEMMA CloseSteps ==
  ASSUME Inv, HandleClose
  PROVE  LET i == Head(packets).index
             u == First(Holders(i))
         IN /\ i \in SessionIndex /\ packets # <<>> /\ Head(packets).kind = "close"
            /\ packets' = Tail(packets) /\ session' = session
            /\ \/ /\ u \in Users /\ session[u] = i /\ inRoom[u]
                  /\ \E s \in Seats : Frees(u, room[u], s)
               \/ /\ Holders(i) = {} \/ (u \in Users /\ session[u] = i /\ ~ inRoom[u])
                  /\ UNCHANGED <<seats, count, room, inRoom>>
<1> DEFINE i == Head(packets).index
           u == First(Holders(i))
<1>1. packets # <<>> /\ Head(packets).kind = "close" /\ packets' = Tail(packets) /\ session' = session
  BY DEF HandleClose, NextPacket, SessionAfterClose
<1>2. Head(packets) \in RecvPacketInfo
  BY <1>1, ElementsOfTail DEF Inv, Typed
<1>3. i \in SessionIndex
  BY <1>2 DEF RecvPacketInfo
<1>4. Holders(i) # {} => u \in Users /\ session[u] = i
  BY FirstHolder
<1>5. CASE Holders(i) # {} /\ inRoom[u]
  <2>1. u \in Users /\ room[u] \in Rooms /\ \E s \in Seats : seats[room[u]][s] = u
    BY <1>4, <1>5 DEF Inv, LeaverHasRoom
  <2>2. HeldBy(u) # {} /\ HeldBy(u) \subseteq Seats
    BY <2>1 DEF HeldBy
  <2> DEFINE s == First(HeldBy(u))
  <2>3. s \in HeldBy(u)
    BY <2>2, FirstSeat
  <2>4. s \in Seats /\ seats[room[u]][s] = u
    BY <2>3 DEF HeldBy
  <2>5. LeaveRoom(u)
    BY <1>5 DEF HandleClose
  <2>6. /\ seats' = [seats EXCEPT ![room[u]] = [seats[room[u]] EXCEPT ![s] = None]]
        /\ count' = [count EXCEPT ![room[u]] = @ - 1]
        /\ room' = [room EXCEPT ![u] = None]
        /\ inRoom' = [inRoom EXCEPT ![u] = FALSE]
    BY <2>2, <2>5 DEF LeaveRoom, FirstSeatLeft, BackInLogin
  <2> HIDE DEF s
  <2>7. seats' = [seats EXCEPT ![room[u]][s] = None]
    BY <2>1, <2>4, <2>6 DEF Inv, Typed
  <2>8. Frees(u, room[u], s)
    BY <2>1, <2>4, <2>6, <2>7 DEF Frees
  <2>9. QED
    BY <1>1, <1>3, <1>4, <1>5, <2>4, <2>8
<1>6. CASE ~ (Holders(i) # {} /\ inRoom[u])
  <2>1. UNCHANGED <<seats, count, room, inRoom>>
    BY <1>6 DEF HandleClose
  <2>2. QED
    BY <1>1, <1>3, <1>4, <1>6, <2>1
<1>7. QED
  BY <1>5, <1>6

-----------------------------------------------------------------------------
(* Seats, rooms and counters                                               *)

\* One more seat of a row is taken, or one fewer.
LEMMA RowChanges ==
  ASSUME NEW row \in [Seats -> Users \cup {None}], NEW s \in Seats, NEW u \in Users
  PROVE  /\ row[s] = None
              => Cardinality(Taken([row EXCEPT ![s] = u])) = Cardinality(Taken(row)) + 1
         /\ row[s] = u
              => Cardinality(Taken([row EXCEPT ![s] = None])) = Cardinality(Taken(row)) - 1
<1>1. u # None
  BY Sizes
<1>2. IsFiniteSet(Taken(row)) /\ Cardinality(Taken(row)) \in Nat
  BY TakenFinite
<1>3. ASSUME row[s] = None
      PROVE  Cardinality(Taken([row EXCEPT ![s] = u])) = Cardinality(Taken(row)) + 1
  <2>1. Taken([row EXCEPT ![s] = u]) = Taken(row) \cup {s} /\ s \notin Taken(row)
    BY <1>1, <1>3 DEF Taken
  <2>2. QED
    BY <1>2, <2>1, FS_AddElement
<1>4. ASSUME row[s] = u
      PROVE  Cardinality(Taken([row EXCEPT ![s] = None])) = Cardinality(Taken(row)) - 1
  <2>1. Taken([row EXCEPT ![s] = None]) = Taken(row) \ {s} /\ s \in Taken(row)
    BY <1>1, <1>4 DEF Taken
  <2>2. QED
    BY <1>2, <2>1, FS_RemoveElement, ZenonT(40)
<1>5. QED
  BY <1>3, <1>4

\* The tables of the rooms are typed, their counters right, and everybody in a
\* room is on a seat of it.
SeatsOK ==
  /\ inRoom \in [Users -> BOOLEAN] /\ room \in [Users -> Rooms \cup {None}]
  /\ seats \in [Rooms -> [Seats -> Users \cup {None}]] /\ count \in [Rooms -> Nat]
  /\ CountFindsSeat /\ LeaverHasRoom

\* Giving a seat keeps all that.
LEMMA GivesKeepsSeats ==
  ASSUME Inv, NEW u \in Users, NEW r, NEW s, Gives(u, r, s)
  PROVE  SeatsOK'
<1>1. /\ inRoom' \in [Users -> BOOLEAN] /\ room' \in [Users -> Rooms \cup {None}]
      /\ seats' \in [Rooms -> [Seats -> Users \cup {None}]] /\ count' \in [Rooms -> Nat]
  BY DEF Inv, Typed, Gives
<1>2. CountFindsSeat'
  <2> SUFFICES ASSUME NEW q \in Rooms PROVE count'[q] = Cardinality(Taken(seats'[q]))
    BY DEF CountFindsSeat, Taken
  <2>1. count[q] = Cardinality(Taken(seats[q]))
    BY DEF Inv, CountFindsSeat, Taken
  <2>2. CASE q = r
    <3>1. seats[r] \in [Seats -> Users \cup {None}] /\ seats[r][s] = None
      BY DEF Inv, Typed, Gives
    <3>2. seats'[r] = [seats[r] EXCEPT ![s] = u] /\ count'[r] = count[r] + 1
      BY DEF Inv, Typed, Gives
    <3>3. QED
      BY <2>1, <2>2, <3>1, <3>2, RowChanges DEF Gives
  <2>3. CASE q # r
    BY <2>1, <2>3 DEF Gives, Inv, Typed
  <2>4. QED
    BY <2>2, <2>3
<1>3. LeaverHasRoom'
  <2> SUFFICES ASSUME NEW v \in Users, inRoom'[v]
               PROVE  room'[v] \in Rooms /\ \E t \in Seats : seats'[room'[v]][t] = v
    BY DEF LeaverHasRoom
  <2>1. CASE v = u
    BY <2>1 DEF Gives, Inv, Typed
  <2>2. CASE v # u
    <3>1. inRoom[v] /\ room'[v] = room[v]
      BY <2>2 DEF Gives, Inv, Typed
    <3>2. PICK t \in Seats : room[v] \in Rooms /\ seats[room[v]][t] = v
      BY <3>1 DEF Inv, LeaverHasRoom
    <3>3. seats'[room[v]][t] = v
      BY <3>2, Sizes DEF Gives, Inv, Typed
    <3>4. QED
      BY <3>1, <3>2, <3>3
  <2>3. QED
    BY <2>1, <2>2
<1>4. QED
  BY <1>1, <1>2, <1>3 DEF SeatsOK

\* So does giving a seat up.
LEMMA FreesKeepsSeats ==
  ASSUME Inv, NEW u \in Users, NEW r, NEW s, Frees(u, r, s)
  PROVE  SeatsOK'
<1>1. CountFindsSeat' /\ count' \in [Rooms -> Nat]
  <2>1. \A q \in Rooms : count[q] = Cardinality(Taken(seats[q]))
    BY DEF Inv, CountFindsSeat, Taken
  <2>2. seats[r] \in [Seats -> Users \cup {None}] /\ seats[r][s] = u
    BY DEF Inv, Typed, Frees
  <2>3. seats'[r] = [seats[r] EXCEPT ![s] = None] /\ count'[r] = count[r] - 1
    BY DEF Inv, Typed, Frees
  <2>4. count'[r] = Cardinality(Taken(seats'[r])) /\ count'[r] \in Nat
    BY <2>1, <2>2, <2>3, RowChanges, TakenFinite DEF Frees
  <2>5. \A q \in Rooms \ {r} : count'[q] = count[q] /\ seats'[q] = seats[q]
    BY DEF Frees, Inv, Typed
  <2>6. CountFindsSeat'
    BY <2>1, <2>4, <2>5 DEF CountFindsSeat, Taken
  <2>7. count' = [q \in Rooms |-> count'[q]]
    BY DEF Frees, Inv, Typed
  <2>8. \A q \in Rooms : count'[q] \in Nat
    BY <2>4, <2>5 DEF Inv, Typed
  <2>9. QED
    BY <2>6, <2>7, <2>8
<1>2. /\ inRoom' \in [Users -> BOOLEAN] /\ room' \in [Users -> Rooms \cup {None}]
      /\ seats' \in [Rooms -> [Seats -> Users \cup {None}]]
  BY DEF Inv, Typed, Frees
<1>3. LeaverHasRoom'
  <2> SUFFICES ASSUME NEW v \in Users, inRoom'[v]
               PROVE  room'[v] \in Rooms /\ \E t \in Seats : seats'[room'[v]][t] = v
    BY DEF LeaverHasRoom
  <2>1. v # u
    BY DEF Frees, Inv, Typed
  <2>2. inRoom[v] /\ room'[v] = room[v]
    BY <2>1 DEF Frees, Inv, Typed
  <2>3. PICK t \in Seats : room[v] \in Rooms /\ seats[room[v]][t] = v
    BY <2>2 DEF Inv, LeaverHasRoom
  <2>4. seats'[room[v]][t] = v
    BY <2>1, <2>3 DEF Frees, Inv, Typed
  <2>5. QED
    BY <2>2, <2>3, <2>4
<1>4. QED
  BY <1>1, <1>2, <1>3 DEF SeatsOK

\* A seat counted once stays counted once, whatever is handled.
LEMMA SeatsStep ==
  ASSUME Inv, [Next]_vars
  PROVE  SeatsOK'
<1>1. ASSUME UNCHANGED <<inRoom, room, seats, count>> PROVE SeatsOK'
  BY <1>1 DEF Inv, Typed, SeatsOK, CountFindsSeat, LeaverHasRoom
<1>2. ASSUME NEW c \in Clients, Accept(c) PROVE UNCHANGED <<inRoom, room, seats, count>>
  BY <1>2 DEF Accept, logicVars, userVars, roomVars
<1>3. ASSUME NEW i \in SessionIndex, SendEnter(i) \/ Disconnect(i) \/ PushClose(i)
      PROVE  UNCHANGED <<inRoom, room, seats, count>>
  BY <1>3 DEF SendEnter, Disconnect, PushClose, logicVars, userVars, roomVars
<1>4. ASSUME HandleEnter PROVE UNCHANGED <<inRoom, room, seats, count>>
  BY <1>4 DEF HandleEnter
<1>5. ASSUME NEW i \in SessionIndex, HandleResult(i)
      PROVE  SeatsOK'
  <2> DEFINE u == First(Holders(i))
  <2>1. u \in Users /\
        \/ UNCHANGED <<inRoom, room, seats, count>>
        \/ \E r \in Rooms, s \in Seats : Gives(u, r, s)
        \/ inRoom' = [inRoom EXCEPT ![u] = FALSE] /\ UNCHANGED <<room, seats, count>>
    BY <1>5, ResultSteps
  <2> HIDE DEF u
  <2>2. ASSUME inRoom' = [inRoom EXCEPT ![u] = FALSE], UNCHANGED <<room, seats, count>>
        PROVE  SeatsOK'
    <3>1. LeaverHasRoom' /\ inRoom' \in [Users -> BOOLEAN]
      BY <2>2 DEF Inv, Typed, LeaverHasRoom
    <3>2. QED
      BY <2>2, <3>1 DEF Inv, Typed, SeatsOK, CountFindsSeat
  <2>3. QED
    BY <1>1, <2>1, <2>2, GivesKeepsSeats
<1>6. ASSUME HandleClose PROVE SeatsOK'
  BY <1>1, <1>6, CloseSteps, FreesKeepsSeats
<1>7. CASE UNCHANGED vars
  BY <1>1, <1>7 DEF vars
<1>8. QED
  BY <1>1, <1>2, <1>3, <1>4, <1>5, <1>6, <1>7 DEF Next

-----------------------------------------------------------------------------
(* Sessions, clients and requests                                          *)

\* Every step keeps the tables typed.
LEMMA TypedStep ==
  ASSUME Inv, [Next]_vars
  PROVE  Typed'
<1>1. /\ inRoom' \in [Users -> BOOLEAN] /\ room' \in [Users -> Rooms \cup {None}]
      /\ seats' \in [Rooms -> [Seats -> Users \cup {None}]] /\ count' \in [Rooms -> Nat]
  BY SeatsStep DEF SeatsOK
<1>2. ASSUME NEW c \in Clients, Accept(c) PROVE Typed'
  <2>1. Tail(indexPool) \in Seq(SessionIndex) /\ Head(indexPool) \in SessionIndex
    BY <1>2, ElementsOfTail DEF Accept, Inv, Typed
  <2>2. QED
    BY <1>1, <1>2, <2>1
    DEF Inv, Typed, Accept, FrontIndexTaken, logicVars, userVars, roomVars, auxVars
<1>3. ASSUME NEW i \in SessionIndex, SendEnter(i) PROVE Typed'
  <2>1. owner[i] \in Clients
    BY <1>3 DEF Inv, Typed, SendEnter, IsConnected
  <2>2. [kind |-> "enter", index |-> i, from |-> owner[i]] \in RecvPacketInfo
    BY <2>1 DEF RecvPacketInfo
  <2>3. packets' \in Seq(RecvPacketInfo)
    BY <1>3, <2>2, ElementsOfAppend DEF Inv, Typed, SendEnter, Received
  <2>4. QED
    BY <1>1, <1>3, <2>1, <2>3
    DEF Inv, Typed, SendEnter, logicVars, userVars, roomVars, auxVars
<1>4. ASSUME NEW i \in SessionIndex, Disconnect(i) PROVE Typed'
  <2>1. owner[i] \in Clients
    BY <1>4 DEF Inv, Typed, Disconnect, IsConnected
  <2>2. indexPool' \in Seq(SessionIndex)
    BY <1>4, ElementsOfAppend DEF Inv, Typed, Disconnect
  <2>3. QED
    BY <1>1, <1>4, <2>1, <2>2
    DEF Inv, Typed, Disconnect, logicVars, userVars, roomVars, auxVars
<1>5. ASSUME NEW i \in SessionIndex, PushClose(i) PROVE Typed'
  <2>1. [kind |-> "close", index |-> i, from |-> NoClient] \in RecvPacketInfo
    BY DEF RecvPacketInfo
  <2>2. packets' \in Seq(RecvPacketInfo)
    BY <1>5, <2>1, ElementsOfAppend DEF Inv, Typed, PushClose, Received
  <2>3. QED
    BY <1>1, <1>5, <2>2
    DEF Inv, Typed, PushClose, logicVars, userVars, roomVars, auxVars
<1>6. ASSUME HandleEnter PROVE Typed'
  <2> DEFINE packet == Head(packets)
  <2>1. packets' \in Seq(RecvPacketInfo) /\ packet \in RecvPacketInfo /\ packet \in Elements(packets)
    BY <1>6, ElementsOfTail DEF Inv, Typed, HandleEnter, NextPacket
  <2>2. packet.index \in SessionIndex /\ packet.from \in Clients
    BY <1>6, <2>1 DEF Inv, AskersOK, RecvPacketInfo, HandleEnter, NextPacket
  <2>3. Append(queries[packet.index], packet.from) \in Seq(Clients)
    BY <2>2, ElementsOfAppend DEF Inv, Typed
  <2>4. queries' \in [SessionIndex -> Seq(Clients)]
    BY <1>6, <2>2, <2>3 DEF Inv, Typed, HandleEnter
  <2>5. session' \in [Users -> SessionIndex \cup {None}]
    BY <1>6, <2>2 DEF Inv, Typed, HandleEnter
  <2>6. QED
    BY <1>1, <1>6, <2>1, <2>4, <2>5 DEF Inv, Typed, HandleEnter, networkVars, auxVars
<1>7. ASSUME NEW i \in SessionIndex, HandleResult(i) PROVE Typed'
  <2> DEFINE u == First(Holders(i))
             c == Head(queries[i])
  <2>1. u \in Users /\ c \in Clients
    BY <1>7, ResultSteps
  <2>2. /\ answered' = answered \cup ({owner[i]} \ {NoClient}) \/ answered' = answered
        /\ turnedAway' = turnedAway \/ turnedAway' = turnedAway \cup {c}
        /\ astray' = astray \/ astray' = astray \cup {u}
    <3> HIDE DEF u, c
    <3>1. \/ Answer(i) /\ UNCHANGED <<turnedAway, astray>>
          \/ /\ Answer(i) /\ UNCHANGED turnedAway
             /\ astray' = IF phase[c] = "gone" THEN astray \cup {u} ELSE Again(u)
          \/ /\ turnedAway' = turnedAway \cup {c} /\ astray' = Again(u)
             /\ UNCHANGED answered
      BY <1>7, ResultSteps DEF u, c
    <3>2. QED
      BY <3>1 DEF Answer, Again
  <2>3. Tail(queries[i]) \in Seq(Clients)
    BY <1>7, ElementsOfTail DEF Inv, Typed, HandleResult
  <2>4. queries' \in [SessionIndex -> Seq(Clients)]
    BY <1>7, <2>3 DEF Inv, Typed, HandleResult
  <2>5. answered' \subseteq Clients /\ turnedAway' \subseteq Clients /\ astray' \subseteq Users
    <3> HIDE DEF u, c
    <3>1. owner[i] \in Clients \cup {NoClient} /\ answered \subseteq Clients
          /\ turnedAway \subseteq Clients /\ astray \subseteq Users
      BY DEF Inv, Typed
    <3>2. QED
      BY <2>1, <2>2, <3>1
  <2>6. QED
    BY <1>1, <1>7, <2>4, <2>5 DEF Inv, Typed, HandleResult, networkVars
<1>8. ASSUME HandleClose PROVE Typed'
  <2>1. packets' \in Seq(RecvPacketInfo) /\ session' = session
    BY <1>8, ElementsOfTail DEF Inv, Typed, HandleClose, NextPacket, SessionAfterClose
  <2>2. QED
    BY <1>1, <1>8, <2>1 DEF Inv, Typed, HandleClose, networkVars, auxVars
<1>9. CASE UNCHANGED vars
  BY <1>9 DEF Inv, Typed, vars, auxVars
<1>10. QED
  BY <1>2, <1>3, <1>4, <1>5, <1>6, <1>7, <1>8, <1>9 DEF Next

\* The handlers of the logic thread leave pool, sockets and clients alone.
LEMMA LogicLeavesNetwork ==
  ASSUME Inv, HandleEnter \/ HandleClose \/ (\E i \in SessionIndex : HandleResult(i))
  PROVE  UNCHANGED networkVars
BY DEF HandleEnter, HandleClose, HandleResult

\* Every step keeps the index pool and the owners right.
LEMMA NetworkStep ==
  ASSUME Inv, [Next]_vars
  PROVE  PoolOK' /\ OwnersOK'
<1>1. ASSUME UNCHANGED <<indexPool, owner, phase>> PROVE PoolOK' /\ OwnersOK'
  BY <1>1 DEF Inv, PoolOK, OwnersOK, NoRepeat, Elements
<1>2. ASSUME NEW c \in Clients, Accept(c) PROVE PoolOK' /\ OwnersOK'
  <2> DEFINE i == Head(indexPool)
  <2>1. /\ i \in SessionIndex /\ i \in Elements(indexPool)
        /\ Elements(Tail(indexPool)) \subseteq Elements(indexPool)
        /\ Elements(indexPool) \subseteq SessionIndex
        /\ NoRepeat(Tail(indexPool)) /\ i \notin Elements(Tail(indexPool))
    BY <1>2, ElementsOfTail DEF Accept, Inv, Typed, PoolOK
  <2>2. owner' = [owner EXCEPT ![i] = c] /\ indexPool' = Tail(indexPool)
        /\ phase' = [phase EXCEPT ![c] = "connected"] /\ phase[c] = "new"
    BY <1>2 DEF Accept, FrontIndexTaken
  <2> HIDE DEF i
  <2>3. \A j \in SessionIndex \ {i} : owner'[j] = owner[j]
    BY <2>2 DEF Inv, Typed
  <2>4. PoolOK'
    <3>1. NoRepeat(indexPool')
      BY <2>1, <2>2
    <3>2. \A j \in Elements(indexPool') : owner'[j] = NoClient
      BY <2>1, <2>2, <2>3 DEF Inv, PoolOK
    <3>3. QED
      BY <3>1, <3>2 DEF PoolOK, NoRepeat, Elements
  <2>5. \A j \in SessionIndex : owner[j] # c
    BY <2>2, ClientsAssumption DEF Inv, OwnersOK
  <2>6. owner'[i] = c /\ phase'[c] = "connected" /\ c # NoClient
    BY <2>1, <2>2, ClientsAssumption DEF Inv, Typed
  <2>7. \A j \in SessionIndex \ {i} : owner[j] # NoClient => phase'[owner[j]] = phase[owner[j]]
    BY <2>2, <2>5 DEF Inv, Typed
  <2>8. OwnersOK'
    BY <2>3, <2>5, <2>6, <2>7 DEF Inv, OwnersOK
  <2>9. QED
    BY <2>4, <2>8
<1>3. ASSUME NEW i \in SessionIndex, SendEnter(i) PROVE PoolOK' /\ OwnersOK'
  <2>1. /\ UNCHANGED <<indexPool, owner>> /\ owner[i] \in Clients
        /\ phase' = [phase EXCEPT ![owner[i]] = "entering"]
    BY <1>3 DEF SendEnter, IsConnected, Inv, Typed
  <2>2. OwnersOK'
    BY <2>1 DEF Inv, Typed, OwnersOK
  <2>3. QED
    BY <2>1, <2>2 DEF Inv, PoolOK, NoRepeat, Elements
<1>4. ASSUME NEW i \in SessionIndex, Disconnect(i) PROVE PoolOK' /\ OwnersOK'
  <2>1. /\ owner[i] \in Clients /\ owner[i] # NoClient
        /\ phase' = [phase EXCEPT ![owner[i]] = "gone"]
        /\ owner' = [owner EXCEPT ![i] = NoClient]
        /\ indexPool' = Append(indexPool, i)
    BY <1>4 DEF Disconnect, IsConnected, Inv, Typed
  <2>2. i \notin Elements(indexPool)
    BY <2>1 DEF Inv, PoolOK
  <2>3. Elements(indexPool') = Elements(indexPool) \cup {i} /\ NoRepeat(indexPool')
    BY <2>1, <2>2, ElementsOfAppend DEF Inv, Typed, PoolOK
  <2>4. \A j \in SessionIndex : owner'[j] = IF j = i THEN NoClient ELSE owner[j]
    BY <2>1 DEF Inv, Typed
  <2>5. Elements(indexPool) \subseteq SessionIndex
    BY ElementOfSeq DEF Inv, Typed, Elements
  <2>6. \A j \in Elements(indexPool') : owner'[j] = NoClient
    BY <2>3, <2>4, <2>5 DEF Inv, PoolOK
  <2>7. PoolOK'
    BY <2>3, <2>6 DEF PoolOK, NoRepeat, Elements
  <2>8. \A j \in SessionIndex \ {i} : owner[j] # owner[i]
    BY <2>1 DEF Inv, OwnersOK
  <2>9. \A j \in SessionIndex \ {i} : owner[j] # NoClient => phase'[owner[j]] = phase[owner[j]]
    BY <2>1, <2>8 DEF Inv, Typed
  <2>10. OwnersOK'
    BY <2>4, <2>9 DEF Inv, OwnersOK
  <2>11. QED
    BY <2>7, <2>10
<1>5. ASSUME NEW i \in SessionIndex, PushClose(i) PROVE UNCHANGED <<indexPool, owner, phase>>
  BY <1>5 DEF PushClose
<1>6. ASSUME HandleEnter \/ HandleClose \/ (\E i \in SessionIndex : HandleResult(i))
      PROVE  UNCHANGED <<indexPool, owner, phase>>
  BY <1>6, LogicLeavesNetwork DEF networkVars
<1>7. CASE UNCHANGED vars
  BY <1>1, <1>7 DEF vars
<1>8. QED
  BY <1>1, <1>2, <1>3, <1>4, <1>5, <1>6, <1>7 DEF Next

\* What a handler takes from the queue of packets, and what the network adds.
LEMMA PacketTaken ==
  ASSUME Inv, HandleEnter \/ HandleClose
  PROVE  /\ Head(packets) \in RecvPacketInfo
         /\ Elements(packets) = {Head(packets)} \cup Elements(packets')
         /\ Head(packets).kind = IF HandleEnter THEN "enter" ELSE "close"
<1>1. packets # <<>> /\ packets' = Tail(packets) /\ packets \in Seq(RecvPacketInfo)
  BY DEF HandleEnter, HandleClose, NextPacket, Inv, Typed
<1>2. QED
  BY <1>1, ElementsOfTail DEF HandleEnter, HandleClose, NextPacket

LEMMA PacketPushed ==
  ASSUME Inv, NEW i \in SessionIndex, SendEnter(i) \/ PushClose(i)
  PROVE  /\ SendEnter(i) => Elements(packets')
              = Elements(packets) \cup {[kind |-> "enter", index |-> i, from |-> owner[i]]}
         /\ PushClose(i) => Elements(packets')
              = Elements(packets) \cup {[kind |-> "close", index |-> i, from |-> NoClient]}
<1>1. owner[i] \in Clients \cup {NoClient} /\ packets \in Seq(RecvPacketInfo)
  BY DEF Inv, Typed
<1>2. /\ [kind |-> "enter", index |-> i, from |-> owner[i]] \in RecvPacketInfo
      /\ [kind |-> "close", index |-> i, from |-> NoClient] \in RecvPacketInfo
  BY <1>1 DEF RecvPacketInfo
<1>3. SendEnter(i) => packets' = Append(packets, [kind |-> "enter", index |-> i, from |-> owner[i]])
  BY DEF SendEnter, Received
<1>4. PushClose(i) => packets' = Append(packets, [kind |-> "close", index |-> i, from |-> NoClient])
  BY DEF PushClose, Received
<1>5. ASSUME NEW p \in RecvPacketInfo PROVE Elements(Append(packets, p)) = Elements(packets) \cup {p}
  BY <1>1, ElementsOfAppend
<1>6. QED
  BY <1>2, <1>3, <1>4, <1>5

\* Whoever owns a session when it asks keeps it, or is gone for good.
LEMMA AskersStep ==
  ASSUME Inv, [Next]_vars
  PROVE  AskersOK'
<1> DEFINE Asks(c, i) == \/ \E p \in Elements(packets) : p.kind = "enter" /\ p.index = i /\ p.from = c
                         \/ c \in Elements(queries[i])
<1>1. /\ Elements(packets) \subseteq RecvPacketInfo
      /\ \A i \in SessionIndex : Elements(queries[i]) \subseteq Clients
  BY ElementOfSeq DEF Inv, Typed, Elements
<1>2. \A p \in RecvPacketInfo : p.index \in SessionIndex
  BY DEF RecvPacketInfo
<1>3. ASSUME UNCHANGED queries, Elements(packets') \subseteq Elements(packets),
             \A c \in Clients, i \in SessionIndex : StillOwns(c, i) => StillOwns(c, i)'
      PROVE  AskersOK'
  BY <1>1, <1>2, <1>3 DEF Inv, AskersOK
<1>4. ASSUME NEW d \in Clients, Accept(d) PROVE AskersOK'
  <2> DEFINE j == Head(indexPool)
  <2>1. j \in SessionIndex /\ j \in Elements(indexPool)
    BY <1>4, ElementsOfTail DEF Accept, Inv, Typed
  <2>2. owner[j] = NoClient /\ owner' = [owner EXCEPT ![j] = d]
        /\ phase' = [phase EXCEPT ![d] = "connected"] /\ phase[d] = "new"
    BY <1>4, <2>1 DEF Accept, Inv, PoolOK
  <2> HIDE DEF j
  <2>3. \A c \in Clients, i \in SessionIndex : StillOwns(c, i) => StillOwns(c, i)'
    BY <2>1, <2>2, ClientsAssumption DEF StillOwns, Inv, Typed
  <2>4. UNCHANGED <<queries, packets>>
    BY <1>4 DEF Accept, logicVars, userVars
  <2>5. Elements(packets') \subseteq Elements(packets)
    BY <2>4
  <2>6. QED
    BY <1>3, <2>3, <2>4, <2>5
<1>5. ASSUME NEW j \in SessionIndex, SendEnter(j) PROVE AskersOK'
  <2>1. /\ UNCHANGED <<queries, owner>> /\ owner[j] \in Clients
        /\ phase[owner[j]] = "connected" /\ phase' = [phase EXCEPT ![owner[j]] = "entering"]
    BY <1>5 DEF SendEnter, IsConnected, Inv, Typed, logicVars, userVars
  <2>2. \A c \in Clients, i \in SessionIndex : StillOwns(c, i) => StillOwns(c, i)'
    BY <2>1 DEF StillOwns, Inv, Typed
  <2>3. Elements(packets') = Elements(packets) \cup {[kind |-> "enter", index |-> j, from |-> owner[j]]}
    BY <1>5, PacketPushed
  <2>4. StillOwns(owner[j], j)'
    BY <2>1 DEF StillOwns
  <2>5. \A p \in Elements(packets) : p.kind = "enter" => p.from \in Clients /\ StillOwns(p.from, p.index)'
    BY <1>1, <1>2, <2>2 DEF Inv, AskersOK
  <2>6. \A i \in SessionIndex : \A c \in Elements(queries[i]) : StillOwns(c, i)'
    BY <1>1, <2>2 DEF Inv, AskersOK
  <2>7. QED
    BY <2>1, <2>3, <2>4, <2>5, <2>6 DEF AskersOK
<1>6. ASSUME NEW j \in SessionIndex, Disconnect(j) PROVE AskersOK'
  <2>1. /\ owner[j] \in Clients /\ phase' = [phase EXCEPT ![owner[j]] = "gone"]
        /\ owner' = [owner EXCEPT ![j] = NoClient]
    BY <1>6 DEF Disconnect, IsConnected, Inv, Typed
  <2>2. \A c \in Clients, i \in SessionIndex : StillOwns(c, i) => StillOwns(c, i)'
    BY <2>1 DEF StillOwns, Inv, Typed
  <2>3. UNCHANGED <<queries, packets>>
    BY <1>6 DEF Disconnect, logicVars, userVars
  <2>4. QED
    BY <1>3, <2>2, <2>3
<1>7. ASSUME NEW j \in SessionIndex, PushClose(j) PROVE AskersOK'
  <2>1. UNCHANGED <<queries, owner, phase>>
    BY <1>7 DEF PushClose, logicVars, userVars
  <2>2. Elements(packets') = Elements(packets) \cup {[kind |-> "close", index |-> j, from |-> NoClient]}
    BY <1>7, PacketPushed
  <2>3. QED
    BY <2>1, <2>2 DEF Inv, AskersOK, StillOwns
<1>8. ASSUME HandleEnter PROVE AskersOK'
  <2> DEFINE packet == Head(packets)
  <2>1. /\ packet \in RecvPacketInfo /\ packet.kind = "enter"
        /\ Elements(packets) = {packet} \cup Elements(packets')
    BY <1>8, PacketTaken
  <2>2. packet.from \in Clients /\ StillOwns(packet.from, packet.index) /\ packet.index \in SessionIndex
    BY <1>2, <2>1 DEF Inv, AskersOK
  <2>3. UNCHANGED <<owner, phase>>
    BY <1>8 DEF HandleEnter, networkVars
  <2>4. UNCHANGED queries \/ queries' = [queries EXCEPT ![packet.index] = Append(@, packet.from)]
    BY <1>8 DEF HandleEnter
  <2>5. Elements(Append(queries[packet.index], packet.from))
        = Elements(queries[packet.index]) \cup {packet.from}
    BY <2>2, ElementsOfAppend DEF Inv, Typed
  <2> HIDE DEF packet
  <2>6. \A i \in SessionIndex : \/ queries'[i] = queries[i]
                                \/ i = packet.index /\ queries'[i] = Append(queries[i], packet.from)
    BY <2>4 DEF Inv, Typed
  <2>7. \A i \in SessionIndex : \A c \in Elements(queries'[i]) : StillOwns(c, i)
    BY <2>2, <2>5, <2>6 DEF Inv, AskersOK
  <2>8. QED
    BY <2>1, <2>3, <2>7 DEF Inv, AskersOK, StillOwns
<1>9. ASSUME NEW j \in SessionIndex, HandleResult(j) PROVE AskersOK'
  <2>1. UNCHANGED <<owner, phase, packets>> /\ queries' = [queries EXCEPT ![j] = Tail(@)]
    BY <1>9 DEF HandleResult, networkVars
  <2>2. Elements(Tail(queries[j])) \subseteq Elements(queries[j])
    BY <1>9, ResultSteps
  <2>3. \A i \in SessionIndex : Elements(queries'[i]) \subseteq Elements(queries[i])
    BY <2>1, <2>2 DEF Inv, Typed
  <2>4. QED
    BY <2>1, <2>3 DEF Inv, AskersOK, StillOwns
<1>10. ASSUME HandleClose PROVE AskersOK'
  <2>1. UNCHANGED <<owner, phase, queries>>
    BY <1>10 DEF HandleClose, networkVars
  <2>2. Elements(packets') \subseteq Elements(packets)
    BY <1>10, PacketTaken
  <2>3. QED
    BY <2>1, <2>2 DEF Inv, AskersOK, StillOwns
<1>11. CASE UNCHANGED vars
  BY <1>11 DEF vars, Inv, AskersOK, StillOwns
<1>12. QED
  BY <1>4, <1>5, <1>6, <1>7, <1>8, <1>9, <1>10, <1>11 DEF Next

\* A session is given to the first User object that is left, or stays as it is.
LEMMA SessionsChange ==
  ASSUME Inv, [Next]_vars
  PROVE  \/ UNCHANGED session /\ \A i \in SessionIndex :
                                    queries'[i] # <<>> => queries[i] # <<>>
         \/ /\ HandleEnter /\ Available # {}
            /\ \E f \in Users, k \in SessionIndex :
                 /\ f = First(Available) /\ session[f] = None
                 /\ session' = [session EXCEPT ![f] = k]
                 /\ \A i \in SessionIndex : queries'[i] # queries[i] => i = k
<1>1. ASSUME HandleEnter, Available # {}
      PROVE  \E f \in Users, k \in SessionIndex :
               /\ f = First(Available) /\ session[f] = None
               /\ session' = [session EXCEPT ![f] = k]
               /\ \A i \in SessionIndex : queries'[i] # queries[i] => i = k
  <2>1. First(Available) \in Users /\ session[First(Available)] = None
    BY <1>1, FirstAvailable DEF Inv
  <2>2. Head(packets).index \in SessionIndex
    BY <1>1, PacketTaken DEF RecvPacketInfo
  <2>3. /\ session' = [session EXCEPT ![First(Available)] = Head(packets).index]
        /\ queries' = [queries EXCEPT ![Head(packets).index] = Append(@, Head(packets).from)]
    BY <1>1 DEF HandleEnter
  <2>4. QED
    BY <2>1, <2>2, <2>3 DEF Inv, Typed
<1>2. ASSUME HandleEnter, Available = {} PROVE UNCHANGED <<session, queries>>
  BY <1>2 DEF HandleEnter
<1>3. ASSUME NEW i \in SessionIndex, HandleResult(i)
      PROVE  UNCHANGED session /\ \A j \in SessionIndex : queries'[j] # <<>> => queries[j] # <<>>
  BY <1>3 DEF HandleResult, Inv, Typed
<1>4. ASSUME HandleClose PROVE UNCHANGED <<session, queries>>
  BY <1>4 DEF HandleClose, SessionAfterClose
<1>5. ASSUME NEW c \in Clients, Accept(c) PROVE UNCHANGED <<session, queries>>
  BY <1>5 DEF Accept, logicVars, userVars
<1>6. ASSUME NEW i \in SessionIndex, SendEnter(i) \/ Disconnect(i) \/ PushClose(i)
      PROVE  UNCHANGED <<session, queries>>
  BY <1>6 DEF SendEnter, Disconnect, PushClose, logicVars, userVars
<1>7. CASE UNCHANGED vars
  BY <1>7 DEF vars
<1>8. QED
  BY <1>1, <1>2, <1>3, <1>4, <1>5, <1>6, <1>7 DEF Next

\* A query has a User object, and the objects are taken in their order.
LEMMA UsersStep ==
  ASSUME Inv, [Next]_vars
  PROVE  ResultFindsUser' /\ UsersInOrder'
<1>1. CASE UNCHANGED session /\ \A i \in SessionIndex : queries'[i] # <<>> => queries[i] # <<>>
  <2>1. \A i \in SessionIndex : Holders(i)' = Holders(i)
    BY <1>1 DEF Holders
  <2>2. QED
    BY <1>1, <2>1 DEF Inv, ResultFindsUser, UsersInOrder
<1>2. CASE /\ HandleEnter /\ Available # {}
           /\ \E f \in Users, k \in SessionIndex :
                /\ f = First(Available) /\ session[f] = None
                /\ session' = [session EXCEPT ![f] = k]
                /\ \A i \in SessionIndex : queries'[i] # queries[i] => i = k
  <2>1. PICK f \in Users, k \in SessionIndex :
             /\ f = First(Available) /\ session[f] = None
             /\ session' = [session EXCEPT ![f] = k]
             /\ \A i \in SessionIndex : queries'[i] # queries[i] => i = k
    BY <1>2
  <2>2. \A u \in Users : session[u] = None => f <= u
    BY <1>2, <2>1, FirstAvailable DEF Inv
  <2>3. \A u \in Users : session'[u] = IF u = f THEN k ELSE session[u]
    BY <2>1 DEF Inv, Typed
  <2>4. \A i \in SessionIndex : Holders(i) \subseteq Holders(i)'
    BY <2>1, <2>3, Sizes DEF Holders
  <2>5. f \in Holders(k)'
    BY <2>1, <2>3 DEF Holders
  <2>6. ResultFindsUser'
    BY <2>1, <2>4, <2>5 DEF Inv, ResultFindsUser
  <2>7. ASSUME NEW u \in Users, NEW v \in Users, u < v, session'[v] # None, u # f
        PROVE  session[u] # None
    <3>1. u \in Nat /\ v \in Nat /\ f \in Nat
      BY <2>1, Sizes
    <3>2. CASE v = f
      BY <2>2, <2>7, <3>1, <3>2
    <3>3. CASE v # f
      BY <2>3, <2>7, <3>3 DEF Inv, UsersInOrder
    <3>4. QED
      BY <3>2, <3>3
  <2>8. k # None
    BY <2>1, Sizes
  <2>9. UsersInOrder'
    BY <2>3, <2>7, <2>8 DEF UsersInOrder
  <2>10. QED
    BY <2>6, <2>9
<1>3. QED
  BY <1>1, <1>2, SessionsChange

-----------------------------------------------------------------------------
(* Who sits                                                                *)

\* What a step does to the seats, and to the users who are astray.
SeatsKept == UNCHANGED <<inRoom, room, seats, count, astray>>

SeatGiven(u, c) ==
  /\ \E r \in Rooms, s \in Seats : Gives(u, r, s)
  /\ astray' = IF phase[c] = "gone" THEN astray \cup {u} ELSE Again(u)

SeatRefused(u) ==
  /\ inRoom' = [inRoom EXCEPT ![u] = FALSE] /\ astray' = Again(u)
  /\ UNCHANGED <<room, seats, count>>

SeatFreed(u) ==
  /\ inRoom[u] /\ UNCHANGED astray
  /\ \E s \in Seats : Frees(u, room[u], s)

LEMMA SeatsChange ==
  ASSUME Inv, [Next]_vars
  PROVE  \/ SeatsKept
         \/ /\ UNCHANGED session
            /\ \E i \in SessionIndex, u \in Users :
                 /\ session[u] = i /\ u = First(Holders(i))
                 /\ \/ HandleResult(i) /\ SeatGiven(u, Head(queries[i]))
                    \/ HandleResult(i) /\ SeatRefused(u)
                    \/ HandleClose /\ Head(packets).index = i /\ SeatFreed(u)
<1>1. ASSUME NEW c \in Clients, Accept(c) PROVE SeatsKept
  BY <1>1 DEF Accept, logicVars, userVars, roomVars, auxVars, SeatsKept
<1>2. ASSUME NEW i \in SessionIndex, SendEnter(i) \/ Disconnect(i) \/ PushClose(i)
      PROVE  SeatsKept
  BY <1>2 DEF SendEnter, Disconnect, PushClose, logicVars, userVars, roomVars, auxVars, SeatsKept
<1>3. ASSUME HandleEnter PROVE SeatsKept
  BY <1>3 DEF HandleEnter, auxVars, SeatsKept
<1>4. ASSUME NEW i \in SessionIndex, HandleResult(i)
      PROVE  \/ SeatsKept
             \/ /\ UNCHANGED session
                /\ \E u \in Users : /\ session[u] = i /\ u = First(Holders(i))
                                    /\ SeatGiven(u, Head(queries[i])) \/ SeatRefused(u)
  <2> DEFINE u == First(Holders(i))
             c == Head(queries[i])
  <2>1. /\ u \in Users /\ session[u] = i
        /\ \/ UNCHANGED <<inRoom, room, seats, count, turnedAway, astray>>
           \/ /\ \E r \in Rooms, s \in Seats : Gives(u, r, s)
              /\ astray' = IF phase[c] = "gone" THEN astray \cup {u} ELSE Again(u)
           \/ /\ inRoom' = [inRoom EXCEPT ![u] = FALSE]
              /\ astray' = Again(u)
              /\ UNCHANGED <<room, seats, count, answered>>
    BY <1>4, ResultSteps
  <2>2. UNCHANGED session
    BY <1>4 DEF HandleResult
  <2> HIDE DEF u, c
  <2>3. SeatsKept \/ SeatGiven(u, c) \/ SeatRefused(u)
    BY <2>1 DEF SeatsKept, SeatGiven, SeatRefused
  <2>4. QED
    BY <2>1, <2>2, <2>3 DEF u, c
<1>5. ASSUME HandleClose
      PROVE  \/ SeatsKept
             \/ /\ UNCHANGED session
                /\ \E u \in Users : /\ session[u] = Head(packets).index
                                    /\ Head(packets).index \in SessionIndex
                                    /\ u = First(Holders(Head(packets).index))
                                    /\ SeatFreed(u)
  <2> DEFINE i == Head(packets).index
             u == First(Holders(i))
  <2>1. /\ i \in SessionIndex /\ session' = session
        /\ \/ /\ u \in Users /\ session[u] = i /\ inRoom[u]
              /\ \E s \in Seats : Frees(u, room[u], s)
           \/ UNCHANGED <<seats, count, room, inRoom>>
    BY <1>5, CloseSteps
  <2>2. UNCHANGED astray
    BY <1>5 DEF HandleClose, auxVars
  <2> HIDE DEF i, u
  <2>3. SeatsKept \/ (u \in Users /\ session[u] = i /\ SeatFreed(u))
    BY <2>1, <2>2 DEF SeatsKept, SeatFreed
  <2>4. QED
    BY <2>1, <2>3 DEF i, u
<1>6. CASE UNCHANGED vars
  BY <1>6 DEF vars, auxVars, SeatsKept
<1>7. QED
  BY <1>1, <1>2, <1>3, <1>4, <1>5, <1>6 DEF Next

\* Who sits after a step sat before it or was given a seat.
LEMMA SittingChange ==
  ASSUME Inv, NEW u \in Users, NEW v \in Users, Sitting(u)'
  PROVE  /\ SeatsKept \/ SeatRefused(v) \/ SeatFreed(v) => Sitting(u)
         /\ \A c : SeatGiven(v, c) => Sitting(u) \/ u = v
<1>1. PICK q \in Rooms, t \in Seats : seats'[q][t] = u
  BY DEF Sitting
<1>2. u # None /\ seats \in [Rooms -> [Seats -> Users \cup {None}]]
  BY Sizes DEF Inv, Typed
<1>3. ASSUME NEW s \in Seats, Frees(v, room[v], s) PROVE seats[q][t] = u
  BY <1>1, <1>2, <1>3 DEF Frees
<1>4. ASSUME NEW r \in Rooms, NEW s \in Seats, Gives(v, r, s) PROVE seats[q][t] = u \/ u = v
  BY <1>1, <1>2, <1>4 DEF Gives
<1>5. seats[q][t] = u => Sitting(u)
  BY DEF Sitting
<1>6. QED
  BY <1>1, <1>3, <1>4, <1>5 DEF SeatsKept, SeatRefused, SeatFreed, SeatGiven

\* The user who sits stays the one that is looked up: a later login takes an
\* object further on.
LEMMA SittersStep ==
  ASSUME Inv, [Next]_vars
  PROVE  SittersLookedUp'
<1> SUFFICES ASSUME NEW u \in Users, Sitting(u)'
             PROVE  session'[u] # None /\ u = First({v \in Users : session'[v] = session'[u]})
  BY DEF SittersLookedUp, Holders
<1>1. ASSUME Sitting(u), UNCHANGED session
      PROVE  session'[u] # None /\ u = First({v \in Users : session'[v] = session'[u]})
  BY <1>1 DEF Inv, SittersLookedUp, Holders
<1>2. CASE SeatsKept /\ UNCHANGED session
  BY <1>1, <1>2, SittingChange
<1>3. CASE SeatsKept /\ session' # session
  <2>1. PICK f \in Users, k \in SessionIndex :
             /\ f = First(Available) /\ session[f] = None /\ Available # {}
             /\ session' = [session EXCEPT ![f] = k]
    BY <1>3, SessionsChange
  <2>2. Sitting(u)
    BY <1>3, SittingChange
  <2>3. session[u] # None /\ u = First(Holders(session[u]))
    BY <2>2 DEF Inv, SittersLookedUp
  <2>4. u < f
    BY <2>1, <2>3, FirstAvailable DEF Inv
  <2>5. \A v \in Users : session[v] = session[u] => u <= v
    <3>1. Holders(session[u]) # {}
      BY DEF Holders
    <3>2. QED
      BY <2>3, <3>1, FirstHolder
  <2>6. u # f /\ session'[u] = session[u]
    BY <2>1, <2>3 DEF Inv, Typed
  <2> DEFINE S == {v \in Users : session'[v] = session'[u]}
  <2>7. \A y \in S : u <= y
    <3>1. \A y \in Users : session'[y] = IF y = f THEN k ELSE session[y]
      BY <2>1 DEF Inv, Typed
    <3>2. u \in Nat /\ f \in Nat
      BY <2>1, Sizes
    <3>3. ASSUME NEW y \in Users, session'[y] = session'[u] PROVE u <= y
      <4>1. CASE y = f
        BY <2>4, <3>2, <4>1
      <4>2. CASE y # f
        BY <2>5, <2>6, <3>1, <3>3, <4>2
      <4>3. QED
        BY <4>1, <4>2
    <3>4. QED
      BY <3>3
  <2>8. First(S) \in S /\ \A y \in S : First(S) <= y
    <3>1. S \subseteq Users /\ u \in S
      OBVIOUS
    <3>2. S \subseteq Nat /\ IsFiniteSet(S) /\ S # {}
      BY <3>1, Sizes, FS_Subset
    <3>3. QED
      BY <3>2, FirstIsSmallest
  <2>9. First(S) \in Nat /\ u \in Nat /\ u \in S
    BY <2>8, Sizes
  <2>10. u = First(S)
    BY <2>7, <2>8, <2>9
  <2>11. QED
    BY <2>3, <2>6, <2>10
<1>4. CASE UNCHANGED session /\ \E i \in SessionIndex, v \in Users :
             /\ session[v] = i /\ v = First(Holders(i))
             /\ SeatGiven(v, Head(queries[i])) \/ SeatRefused(v) \/ SeatFreed(v)
  <2>1. PICK i \in SessionIndex, v \in Users :
             /\ session[v] = i /\ v = First(Holders(i))
             /\ SeatGiven(v, Head(queries[i])) \/ SeatRefused(v) \/ SeatFreed(v)
    BY <1>4
  <2>2. CASE Sitting(u)
    BY <1>1, <1>4, <2>2
  <2>3. CASE u = v
    BY <1>4, <2>1, <2>3, Sizes DEF Holders
  <2>4. QED
    BY <2>1, <2>2, <2>3, SittingChange
<1>5. QED
  BY <1>2, <1>3, <1>4, SeatsChange

\* A user who is not astray keeps to one seat: it is given one when it has none,
\* and none is left when it leaves.
LEMMA OneSeatStep ==
  ASSUME Inv, [Next]_vars
  PROVE  OneSeat'
<1> SUFFICES ASSUME NEW u \in Users, u \notin astray', NEW q \in Rooms, NEW t \in Seats,
                    seats'[q][t] = u
             PROVE  /\ inRoom'[u] /\ room'[u] = q
                    /\ \A x \in Seats : seats'[q][x] = u => x = t
  BY DEF OneSeat
<1>1. u # None /\ Typed
  BY Sizes DEF Inv
<1>2. CASE SeatsKept
  BY <1>2 DEF SeatsKept, Inv, OneSeat
<1>3. ASSUME NEW v \in Users, NEW c, SeatGiven(v, c)
      PROVE  /\ inRoom'[u] /\ room'[u] = q
             /\ \A x \in Seats : seats'[q][x] = u => x = t
  <2>1. PICK r \in Rooms, s \in Seats : Gives(v, r, s)
    BY <1>3 DEF SeatGiven
  <2>2. u \notin astray /\ (u = v => ~ Sitting(u))
    BY <1>3 DEF SeatGiven, Again
  <2>3. CASE u = v
    <3>1. \A p \in Rooms, x \in Seats : seats[p][x] # u
      BY <2>2, <2>3 DEF Sitting
    <3>2. \A p \in Rooms, x \in Seats : seats'[p][x] = u => p = r /\ x = s
      BY <1>1, <2>1, <3>1 DEF Gives, Typed
    <3>3. inRoom'[u] /\ room'[u] = r
      BY <1>1, <2>1, <2>3 DEF Gives, Typed
    <3>4. QED
      BY <3>2, <3>3
  <2>4. CASE u # v
    <3>1. \A p \in Rooms, x \in Seats : seats'[p][x] = u => seats[p][x] = u
      BY <1>1, <2>1, <2>4 DEF Gives, Typed
    <3>2. inRoom'[u] = inRoom[u] /\ room'[u] = room[u]
      BY <1>1, <2>1, <2>4 DEF Gives, Typed
    <3>3. QED
      BY <2>2, <3>1, <3>2 DEF Inv, OneSeat
  <2>5. QED
    BY <2>3, <2>4
<1>4. ASSUME NEW v \in Users, SeatRefused(v)
      PROVE  /\ inRoom'[u] /\ room'[u] = q
             /\ \A x \in Seats : seats'[q][x] = u => x = t
  <2>1. u \notin astray /\ (u = v => ~ Sitting(u)) /\ seats' = seats /\ room' = room
    BY <1>4 DEF SeatRefused, Again
  <2>2. u # v
    BY <2>1 DEF Sitting
  <2>3. inRoom'[u] = inRoom[u]
    BY <1>1, <1>4, <2>2 DEF SeatRefused, Typed
  <2>4. QED
    BY <2>1, <2>3 DEF Inv, OneSeat
<1>5. ASSUME NEW v \in Users, SeatFreed(v)
      PROVE  /\ inRoom'[u] /\ room'[u] = q
             /\ \A x \in Seats : seats'[q][x] = u => x = t
  <2>1. PICK s \in Seats : Frees(v, room[v], s)
    BY <1>5 DEF SeatFreed
  <2>2. u \notin astray
    BY <1>5 DEF SeatFreed
  <2>3. \A p \in Rooms, x \in Seats :
           seats'[p][x] = IF p = room[v] /\ x = s THEN None ELSE seats[p][x]
    BY <1>1, <2>1 DEF Frees, Typed
  <2>4. u # v
    BY <1>1, <2>1, <2>2, <2>3 DEF Inv, OneSeat, Frees
  <2>5. inRoom'[u] = inRoom[u] /\ room'[u] = room[u]
    BY <1>1, <2>1, <2>4 DEF Frees, Typed
  <2>6. QED
    BY <1>1, <2>2, <2>3, <2>5 DEF Inv, OneSeat
<1>6. QED
  BY <1>2, <1>3, <1>4, <1>5, SeatsChange

-----------------------------------------------------------------------------
(* Leaving and asking                                                      *)

\* While its user sits, a session is owned, or its closing is on the way: the
\* handler of the packet empties the seat.
LEMMA LeavingStep ==
  ASSUME Inv, [Next]_vars
  PROVE  LeavingSeen'
<1> DEFINE Seen(i) == owner[i] # NoClient \/ closing[i] > 0 \/ CloseQueued(i)
<1> SUFFICES ASSUME NEW u \in Users, u \notin astray', Sitting(u)'
             PROVE  \/ owner'[session'[u]] # NoClient
                    \/ closing'[session'[u]] > 0
                    \/ \E p \in Elements(packets') : p.kind = "close" /\ p.index = session'[u]
  BY DEF LeavingSeen, CloseQueued
<1>1. PICK i \in SessionIndex : session'[u] = i
  BY SittersStep, TypedStep DEF SittersLookedUp, Typed
<1>2. \A j \in SessionIndex : closing[j] \in Nat /\ owner[j] \in Clients \cup {NoClient}
  BY DEF Inv, Typed
<1>3. u \notin astray
  BY SeatsChange DEF SeatsKept, SeatGiven, SeatRefused, SeatFreed, Again
<1>4. Sitting(u) => session[u] = i /\ Seen(i)
  <2>1. ASSUME Sitting(u) PROVE session[u] = i
    BY <1>1, <2>1, SessionsChange DEF Inv, Typed, SittersLookedUp
  <2>2. QED
    BY <1>3, <2>1 DEF Inv, LeavingSeen
<1>5. ASSUME NEW c \in Clients, Accept(c)
      PROVE  owner'[i] # NoClient \/ closing'[i] > 0 \/ CloseQueued(i)'
  <2>1. Sitting(u)
    BY <1>5, SittingChange DEF SeatsKept, Accept, logicVars, userVars, roomVars, auxVars
  <2>2. owner[i] # NoClient => owner'[i] # NoClient
    BY <1>5, ClientsAssumption DEF Accept, Inv, Typed
  <2>3. QED
    BY <1>4, <1>5, <2>1, <2>2 DEF Accept, CloseQueued
<1>6. ASSUME NEW j \in SessionIndex, SendEnter(j)
      PROVE  owner'[i] # NoClient \/ closing'[i] > 0 \/ CloseQueued(i)'
  <2>1. Sitting(u)
    BY <1>6, SittingChange DEF SeatsKept, SendEnter, logicVars, userVars, roomVars, auxVars
  <2>2. UNCHANGED <<owner, closing>> /\ Elements(packets) \subseteq Elements(packets')
    BY <1>6, PacketPushed DEF SendEnter
  <2>3. QED
    BY <1>4, <2>1, <2>2 DEF CloseQueued
<1>7. ASSUME NEW j \in SessionIndex, Disconnect(j)
      PROVE  owner'[i] # NoClient \/ closing'[i] > 0 \/ CloseQueued(i)'
  <2>1. Sitting(u)
    BY <1>7, SittingChange DEF SeatsKept, Disconnect, logicVars, userVars, roomVars, auxVars
  <2>2. CASE i = j
    BY <1>2, <1>7, <2>2 DEF Disconnect, Inv, Typed
  <2>3. CASE i # j
    BY <1>4, <1>7, <2>1, <2>3 DEF Disconnect, Inv, Typed, CloseQueued
  <2>4. QED
    BY <2>2, <2>3
<1>8. ASSUME NEW j \in SessionIndex, PushClose(j)
      PROVE  owner'[i] # NoClient \/ closing'[i] > 0 \/ CloseQueued(i)'
  <2>1. Sitting(u)
    BY <1>8, SittingChange DEF SeatsKept, PushClose, logicVars, userVars, roomVars, auxVars
  <2>2. Elements(packets')
        = Elements(packets) \cup {[kind |-> "close", index |-> j, from |-> NoClient]}
    BY <1>8, PacketPushed
  <2>3. CASE i = j
    <3> DEFINE p == [kind |-> "close", index |-> j, from |-> NoClient]
    <3>1. p.kind = "close" /\ p.index = i
      BY <2>3
    <3>2. p \in Elements(packets')
      BY <2>2
    <3>3. QED
      BY <3>1, <3>2 DEF CloseQueued
  <2>4. CASE i # j
    <3>1. owner'[i] = owner[i] /\ closing'[i] = closing[i]
      BY <1>8, <2>4 DEF PushClose, Inv, Typed
    <3>2. CloseQueued(i) => CloseQueued(i)'
      BY <2>2 DEF CloseQueued
    <3>3. QED
      BY <1>4, <2>1, <3>1, <3>2
  <2>5. QED
    BY <2>3, <2>4
<1>9. ASSUME HandleEnter
      PROVE  owner'[i] # NoClient \/ closing'[i] > 0 \/ CloseQueued(i)'
  <2>1. Sitting(u)
    BY <1>9, SittingChange DEF SeatsKept, HandleEnter, auxVars
  <2>2. UNCHANGED <<owner, closing>>
    BY <1>9, LogicLeavesNetwork DEF networkVars
  <2>3. CloseQueued(i) => CloseQueued(i)'
    BY <1>9, PacketTaken DEF CloseQueued
  <2>4. QED
    BY <1>4, <2>1, <2>2, <2>3
<1>10. ASSUME NEW j \in SessionIndex, HandleResult(j)
       PROVE  owner'[i] # NoClient \/ closing'[i] > 0 \/ CloseQueued(i)'
  <2> DEFINE v == First(Holders(j))
             c == Head(queries[j])
  <2>1. UNCHANGED <<owner, closing, packets, session>>
    BY <1>10 DEF HandleResult, networkVars
  <2>2. CASE Sitting(u)
    BY <1>4, <2>1, <2>2 DEF CloseQueued
  <2>3. CASE ~ Sitting(u)
    <3>1. /\ v \in Users /\ session[v] = j /\ c \in Elements(queries[j]) /\ c \in Clients
          /\ \/ UNCHANGED <<inRoom, room, seats, count, turnedAway, astray>>
             \/ /\ \E r \in Rooms, s \in Seats : Gives(v, r, s)
                /\ astray' = IF phase[c] = "gone" THEN astray \cup {v} ELSE Again(v)
             \/ /\ inRoom' = [inRoom EXCEPT ![v] = FALSE] /\ astray' = Again(v)
                /\ UNCHANGED <<room, seats, count, answered>>
      BY <1>10, ResultSteps
    <3> HIDE DEF v, c
    <3>2. SeatsKept \/ SeatGiven(v, c) \/ SeatRefused(v)
      BY <3>1 DEF SeatsKept, SeatGiven, SeatRefused
    <3>3. SeatGiven(v, c) /\ u = v
      BY <2>3, <3>1, <3>2, SittingChange
    <3>4. phase[c] # "gone" /\ i = j
      BY <1>1, <2>1, <3>1, <3>3 DEF SeatGiven
    <3>5. owner[i] = c
      BY <3>1, <3>4 DEF Inv, AskersOK, StillOwns
    <3>6. QED
      BY <2>1, <3>1, <3>5, ClientsAssumption
  <2>4. QED
    BY <2>2, <2>3
<1>11. ASSUME HandleClose
       PROVE  owner'[i] # NoClient \/ closing'[i] > 0 \/ CloseQueued(i)'
  <2> DEFINE j == Head(packets).index
             v == First(Holders(j))
  <2>1. /\ session' = session
        /\ \/ v \in Users /\ session[v] = j /\ inRoom[v] /\ \E s \in Seats : Frees(v, room[v], s)
           \/ /\ Holders(j) = {} \/ (v \in Users /\ session[v] = j /\ ~ inRoom[v])
              /\ UNCHANGED <<seats, count, room, inRoom>>
    BY <1>11, CloseSteps
  <2>2. UNCHANGED <<owner, closing, astray>>
    BY <1>11, LogicLeavesNetwork DEF networkVars, auxVars, HandleClose
  <2>3. Elements(packets) = {Head(packets)} \cup Elements(packets')
    BY <1>11, PacketTaken
  <2> HIDE DEF v
  <2>4. Sitting(u)
    BY <2>1, <2>2, SittingChange DEF SeatsKept, SeatFreed
  <2>5. session[u] = i /\ u = First(Holders(i)) /\ Seen(i)
    BY <1>4, <2>4 DEF Inv, SittersLookedUp
  <2>6. CASE j # i
    <3>1. CloseQueued(i) => CloseQueued(i)'
      BY <2>3, <2>6 DEF CloseQueued
    <3>2. QED
      BY <2>2, <2>5, <3>1
  <2>7. CASE j = i
    <3>1. v = u
      BY <2>5, <2>7 DEF v
    <3>2. inRoom[u]
      BY <1>3, <2>4 DEF Inv, OneSeat, Sitting
    <3>3. i \in SessionIndex /\ Holders(i) # {}
      BY <2>5 DEF Holders
    <3>4. \E s \in Seats : Frees(u, room[u], s)
      BY <2>1, <2>7, <3>1, <3>2, <3>3
    <3>5. ~ inRoom'[u]
      BY <3>4 DEF Frees, Inv, Typed
    <3>6. inRoom'[u]
      BY OneSeatStep DEF OneSeat, Sitting
    <3>7. QED
      BY <3>5, <3>6
  <2>8. QED
    BY <2>6, <2>7
<1>12. CASE UNCHANGED vars
  <2>1. Sitting(u)
    BY <1>12, SittingChange DEF SeatsKept, vars, auxVars
  <2>2. QED
    BY <1>1, <1>4, <1>12, <2>1 DEF vars, CloseQueued
<1>13. QED
  BY <1>1, <1>5, <1>6, <1>7, <1>8, <1>9, <1>10, <1>11, <1>12 DEF Next, CloseQueued

\* Who asked to enter has its packet or its query under way until it is answered,
\* or until every seat or every User object is found taken.
LEMMA AskingStep ==
  ASSUME Inv, [Next]_vars
  PROVE  AskingSeen'
<1> DEFINE Under(i, c) == EnterQueued(i, c) \/ c \in Elements(queries[i])
           Told(c)     == c \in answered \cup turnedAway \/ Available = {}
<1> SUFFICES ASSUME NEW i \in SessionIndex, NEW c \in Clients, owner'[i] = c,
                    phase'[c] = "entering"
             PROVE  \/ EnterQueued(i, c)' \/ c \in Elements(queries'[i])
                    \/ c \in answered' \cup turnedAway' \/ Available' = {}
  <2>1. \A i \in SessionIndex : owner'[i] # NoClient => owner'[i] \in Clients
    BY TypedStep DEF Typed
  <2>2. QED
    BY <2>1 DEF AskingSeen, EnterQueued
<1>1. owner[i] = c /\ phase[c] = "entering" => Under(i, c) \/ Told(c)
  BY ClientsAssumption DEF Inv, AskingSeen
<1>2. ASSUME Told(c), answered \subseteq answered', turnedAway \subseteq turnedAway'
      PROVE  c \in answered' \cup turnedAway' \/ Available' = {}
  <2>1. Available = {} => UNCHANGED session
    BY SessionsChange
  <2>2. QED
    BY <1>2, <2>1 DEF Available
<1>3. ASSUME NEW d \in Clients, Accept(d)
      PROVE  /\ UNCHANGED <<packets, queries, answered, turnedAway>>
             /\ owner[i] = c /\ phase[c] = "entering"
  <2>1. UNCHANGED <<packets, queries, answered, turnedAway>>
    BY <1>3 DEF Accept, logicVars, userVars, auxVars
  <2>2. Head(indexPool) \in SessionIndex
    BY <1>3, ElementsOfTail DEF Accept, Inv, Typed
  <2>3. c # d
    BY <1>3 DEF Accept, Inv, Typed
  <2>4. owner[i] = c /\ phase[c] = "entering"
    BY <1>3, <2>2, <2>3 DEF Accept, Inv, Typed
  <2>5. QED
    BY <2>1, <2>4
<1>4. ASSUME NEW j \in SessionIndex, Disconnect(j)
      PROVE  /\ UNCHANGED <<packets, queries, answered, turnedAway>>
             /\ owner[i] = c /\ phase[c] = "entering"
  <2>1. UNCHANGED <<packets, queries, answered, turnedAway>>
    BY <1>4 DEF Disconnect, logicVars, userVars, auxVars
  <2>2. i # j
    BY <1>4, ClientsAssumption DEF Disconnect, Inv, Typed
  <2>3. owner[i] = c /\ c # owner[j]
    BY <1>4, <2>2 DEF Disconnect, IsConnected, Inv, Typed, OwnersOK
  <2>4. phase[c] = "entering"
    BY <1>4, <2>3 DEF Disconnect, Inv, Typed
  <2>5. QED
    BY <2>1, <2>3, <2>4
<1>5. ASSUME UNCHANGED <<packets, queries, answered, turnedAway>>,
             owner[i] = c, phase[c] = "entering"
      PROVE  \/ EnterQueued(i, c)' \/ c \in Elements(queries'[i])
             \/ c \in answered' \cup turnedAway' \/ Available' = {}
  <2>1. Under(i, c) => EnterQueued(i, c)' \/ c \in Elements(queries'[i])
    BY <1>5 DEF EnterQueued
  <2>2. QED
    BY <1>1, <1>2, <1>5, <2>1
<1>6. ASSUME NEW j \in SessionIndex, SendEnter(j)
      PROVE  \/ EnterQueued(i, c)' \/ c \in Elements(queries'[i])
             \/ c \in answered' \cup turnedAway' \/ Available' = {}
  <2>1. Elements(packets')
        = Elements(packets) \cup {[kind |-> "enter", index |-> j, from |-> owner[j]]}
    BY <1>6, PacketPushed
  <2>2. /\ UNCHANGED <<owner, queries, answered, turnedAway>> /\ owner[j] \in Clients
        /\ phase' = [phase EXCEPT ![owner[j]] = "entering"]
    BY <1>6 DEF SendEnter, IsConnected, Inv, Typed, logicVars, userVars, auxVars
  <2>3. CASE i = j
    <3> DEFINE p == [kind |-> "enter", index |-> j, from |-> owner[j]]
    <3>1. p.kind = "enter" /\ p.index = i /\ p.from = c
      BY <2>2, <2>3
    <3>2. p \in Elements(packets')
      BY <2>1
    <3>3. QED
      BY <3>1, <3>2 DEF EnterQueued
  <2>4. CASE i # j
    <3>1. owner[i] = c /\ c # owner[j]
      BY <2>2, <2>4, ClientsAssumption DEF Inv, OwnersOK
    <3>2. phase[c] = "entering"
      BY <2>2, <3>1 DEF Inv, Typed
    <3>3. EnterQueued(i, c) => EnterQueued(i, c)'
      BY <2>1 DEF EnterQueued
    <3>4. QED
      BY <1>1, <1>2, <2>2, <3>1, <3>2, <3>3
  <2>5. QED
    BY <2>3, <2>4
<1>7. ASSUME NEW j \in SessionIndex, PushClose(j)
      PROVE  \/ EnterQueued(i, c)' \/ c \in Elements(queries'[i])
             \/ c \in answered' \cup turnedAway' \/ Available' = {}
  <2>1. Elements(packets) \subseteq Elements(packets')
    BY <1>7, PacketPushed
  <2>2. UNCHANGED <<owner, phase, queries, answered, turnedAway>>
    BY <1>7 DEF PushClose, logicVars, userVars, auxVars
  <2>3. EnterQueued(i, c) => EnterQueued(i, c)'
    BY <2>1 DEF EnterQueued
  <2>4. QED
    BY <1>1, <1>2, <2>2, <2>3
<1>8. ASSUME HandleEnter
      PROVE  \/ EnterQueued(i, c)' \/ c \in Elements(queries'[i])
             \/ c \in answered' \cup turnedAway' \/ Available' = {}
  <2>1. UNCHANGED <<owner, phase, answered, turnedAway>>
    BY <1>8, LogicLeavesNetwork DEF networkVars, auxVars, HandleEnter
  <2>2. CASE Available = {}
    BY <1>2, <2>1, <2>2
  <2>3. CASE Available # {}
    <3> DEFINE packet == Head(packets)
    <3>1. /\ packet \in RecvPacketInfo /\ packet.kind = "enter" /\ packet.index \in SessionIndex
          /\ packet.from \in Clients
          /\ Elements(packets) = {packet} \cup Elements(packets')
      BY <1>8, PacketTaken DEF RecvPacketInfo, Inv, AskersOK
    <3>2. queries' = [queries EXCEPT ![packet.index] = Append(@, packet.from)]
      BY <1>8, <2>3 DEF HandleEnter
    <3>3. Elements(Append(queries[packet.index], packet.from))
          = Elements(queries[packet.index]) \cup {packet.from}
      BY <3>1, ElementsOfAppend DEF Inv, Typed
    <3> HIDE DEF packet
    <3>4. Elements(queries[i]) \subseteq Elements(queries'[i])
      BY <3>2, <3>3 DEF Inv, Typed
    <3>5. packet.index = i => packet.from \in Elements(queries'[i])
      BY <3>1, <3>2, <3>3 DEF Inv, Typed
    <3>6. EnterQueued(i, c) => EnterQueued(i, c)' \/ c \in Elements(queries'[i])
      BY <3>1, <3>5 DEF EnterQueued
    <3>7. QED
      BY <1>1, <1>2, <2>1, <3>4, <3>6
  <2>4. QED
    BY <2>2, <2>3
<1>9. ASSUME NEW j \in SessionIndex, HandleResult(j)
      PROVE  \/ EnterQueued(i, c)' \/ c \in Elements(queries'[i])
             \/ c \in answered' \cup turnedAway' \/ Available' = {}
  <2> DEFINE d == Head(queries[j])
  <2>1. UNCHANGED <<owner, phase, packets, session>> /\ queries' = [queries EXCEPT ![j] = Tail(@)]
    BY <1>9 DEF HandleResult, networkVars
  <2>2. /\ Elements(queries[j]) = {d} \cup Elements(Tail(queries[j]))
        /\ \/ Answer(j) /\ UNCHANGED turnedAway
           \/ turnedAway' = turnedAway \cup {d} /\ UNCHANGED answered
    BY <1>9, ResultSteps
  <2> HIDE DEF d
  <2>3. answered \subseteq answered' /\ turnedAway \subseteq turnedAway'
    BY <2>2 DEF Answer
  <2>4. CASE i # j
    <3>1. queries'[i] = queries[i]
      BY <2>1, <2>4 DEF Inv, Typed
    <3>2. EnterQueued(i, c) => EnterQueued(i, c)'
      BY <2>1 DEF EnterQueued
    <3>3. QED
      BY <1>1, <1>2, <2>1, <2>3, <3>1, <3>2
  <2>5. CASE i = j
    <3>1. queries'[i] = Tail(queries[i])
      BY <2>1, <2>5 DEF Inv, Typed
    <3>2. EnterQueued(i, c) => EnterQueued(i, c)'
      BY <2>1 DEF EnterQueued
    <3>3. owner[i] = c /\ c # NoClient
      BY <2>1, ClientsAssumption
    <3>4. c \in Elements(queries[i]) => c \in Elements(queries'[i]) \/ c \in answered' \cup turnedAway'
      BY <2>2, <2>5, <3>1, <3>3 DEF Answer
    <3>5. QED
      BY <1>1, <1>2, <2>1, <2>3, <3>2, <3>4
  <2>6. QED
    BY <2>4, <2>5
<1>10. ASSUME HandleClose
       PROVE  \/ EnterQueued(i, c)' \/ c \in Elements(queries'[i])
              \/ c \in answered' \cup turnedAway' \/ Available' = {}
  <2>1. UNCHANGED <<owner, phase, queries, answered, turnedAway>>
    BY <1>10, LogicLeavesNetwork DEF networkVars, auxVars, HandleClose
  <2>2. Elements(packets) = {Head(packets)} \cup Elements(packets') /\ Head(packets).kind = "close"
    BY <1>10, PacketTaken DEF HandleClose, NextPacket
  <2>3. EnterQueued(i, c) => EnterQueued(i, c)'
    BY <2>2 DEF EnterQueued
  <2>4. QED
    BY <1>1, <1>2, <2>1, <2>3
<1>11. CASE UNCHANGED vars
  <2>1. /\ UNCHANGED <<packets, queries, answered, turnedAway>>
        /\ owner[i] = c /\ phase[c] = "entering"
    BY <1>11 DEF vars, auxVars
  <2>2. QED
    BY <1>5, <2>1
<1>12. QED
  BY <1>3, <1>4, <1>5, <1>6, <1>7, <1>8, <1>9, <1>10, <1>11 DEF Next

-----------------------------------------------------------------------------
(* The theorems                                                            *)

LEMMA InitInv == Init => Inv
<1> SUFFICES ASSUME Init PROVE Inv
  OBVIOUS
<1>1. Len(indexPool) = NumSessions /\ indexPool \in Seq(SessionIndex)
  BY Sizes DEF Init, SessionIndex
<1>2. Typed
  BY <1>1, Sizes DEF Init, Typed, NobodySeated
<1>3. Elements(packets) = {} /\ \A i \in SessionIndex : Elements(queries[i]) = {}
  BY DEF Init, Elements
<1>4. Elements(indexPool) \subseteq SessionIndex
  BY <1>1, ElementOfSeq DEF Elements
<1>5. PoolOK
  BY <1>1, <1>4, Sizes DEF Init, PoolOK, NoRepeat
<1>6. OwnersOK /\ AskersOK /\ AskingSeen
  BY <1>3 DEF Init, OwnersOK, AskersOK, AskingSeen
<1>7. \A u \in Users : ~ Sitting(u)
  BY Sizes DEF Init, Sitting, NobodySeated
<1>8. SittersLookedUp /\ OneSeat /\ LeavingSeen
  BY <1>7 DEF SittersLookedUp, OneSeat, LeavingSeen, Sitting
<1>9. ResultFindsUser /\ UsersInOrder /\ LeaverHasRoom
  BY DEF Init, ResultFindsUser, UsersInOrder, LeaverHasRoom
<1>10. CountFindsSeat
  <2>1. \A r \in Rooms : {s \in Seats : seats[r][s] # None} = {}
    BY DEF Init, NobodySeated
  <2>2. QED
    BY <2>1, FS_EmptySet DEF Init, CountFindsSeat
<1>11. QED
  BY <1>2, <1>5, <1>6, <1>8, <1>9, <1>10 DEF Inv

\* The invariant holds in every state.
LEMMA Invariant == Spec => []Inv
<1>1. Inv /\ [Next]_vars => Inv'
  BY TypedStep, NetworkStep, AskersStep, UsersStep, SittersStep, SeatsStep, OneSeatStep,
     LeavingStep, AskingStep DEF Inv, SeatsOK
<1>2. QED
  BY InitInv, <1>1, PTL DEF Spec

\* Every table of the three managers keeps its type; no room counts more users
\* than it has seats.
THEOREM SessionsTypeCorrect == Spec => []TypeOK
<1>1. Inv => TypeOK
  <2> SUFFICES ASSUME Inv PROVE TypeOK
    OBVIOUS
  <2>1. \A r \in Rooms : count[r] \in 0 .. NumSeats
    BY TakenFinite DEF Inv, CountFindsSeat, Taken
  <2>2. QED
    BY <2>1 DEF Inv, Typed, TypeOK
<1>2. QED
  BY Invariant, <1>1, PTL

\* The logic thread finds the User of every result and the room of everybody who
\* leaves, though neither is tested (DBProcess.cpp:71, RoomManager.cpp:174).
THEOREM LookupsAlwaysSucceed == Spec => []LookupsSucceed
<1>1. Inv => LookupsSucceed
  BY DEF Inv, LookupsSucceed
<1>2. QED
  BY Invariant, <1>1, PTL

\* A room's counter is the number of its seats that are taken.
THEOREM CountsFindSeats == Spec => []CountFindsSeat
<1>1. Inv => CountFindsSeat
  BY DEF Inv
<1>2. QED
  BY Invariant, <1>1, PTL

\* Nobody sits under a session that is idle, but for the users who went astray.
THEOREM GhostsOnlyAstray == Spec => []GhostsWentAstray
<1>1. Inv => GhostsWentAstray
  <2> SUFFICES ASSUME Inv, NEW i \in SessionIndex, Idle(i), NEW u \in Holders(i), Sitting(u),
                      u \notin astray
               PROVE  FALSE
    BY DEF GhostsWentAstray
  <2>1. u \in Users /\ session[u] = i
    BY DEF Holders
  <2>2. owner[i] # NoClient \/ closing[i] > 0 \/ CloseQueued(i)
    BY <2>1 DEF Inv, LeavingSeen
  <2>3. ~ CloseQueued(i)
    <3>1. DOMAIN packets = 1 .. Len(packets)
      BY DEF Inv, Typed
    <3>2. QED
      BY <3>1 DEF CloseQueued, Idle, Elements
  <2>4. QED
    BY <2>2, <2>3 DEF Idle, Inv, Typed
<1>2. QED
  BY Invariant, <1>1, PTL

\* Whoever asked to enter and hears nothing found every User object or every seat
\* taken.
THEOREM SilenceMeansFull == Spec => []SilentOnlyWhenFull
<1>1. Inv => SilentOnlyWhenFull
  <2> SUFFICES ASSUME Inv, NEW i \in SessionIndex, owner[i] # NoClient,
                      phase[owner[i]] = "entering", queries[i] = <<>>,
                      \A n \in DOMAIN packets : packets[n].index # i
               PROVE  owner[i] \in answered \cup turnedAway \/ Available = {}
    BY DEF SilentOnlyWhenFull, Available
  <2>1. DOMAIN packets = 1 .. Len(packets)
    BY DEF Inv, Typed
  <2>2. ~ EnterQueued(i, owner[i])
    BY <2>1 DEF EnterQueued, Elements
  <2>3. Elements(queries[i]) = {}
    BY DEF Elements
  <2>4. QED
    BY <2>2, <2>3 DEF Inv, AskingSeen
<1>2. QED
  BY Invariant, <1>1, PTL
=============================================================================
