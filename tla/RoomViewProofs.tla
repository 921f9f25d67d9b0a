---------------------------- MODULE RoomViewProofs ----------------------------
(***************************************************************************)
(* Theorems about a room and the table one of its players sees, for every  *)
(* number of users and seats and however many packets are under way.       *)
(***************************************************************************)
EXTENDS RoomView, GameRoomProofs, SequenceTheorems

-----------------------------------------------------------------------------
(* The packets on the wire                                                 *)

ListRes == UNION {[id : {"LIST"}, slot : S, users : [S -> UserInfos]] : S \in SUBSET Seats}
LeaveRes == [id : {"LEAVE"}, slot : Seats]
EnterRes == [id : {"ENTER"}, slot : Seats, user : UserInfos]

\* IsPacket as a set
Packet == [id : {"ENTER_RES"}] \cup ListRes \cup EnterRes \cup LeaveRes \cup GameNtf

\* What a packet says about who sits in seat s
Says(p, s) == \/ p.id \in {"ENTER", "LEAVE"} /\ p.slot = s
              \/ p.id = "LIST" /\ s \in DOMAIN p.users

\* The last packet about seat s says that it is taken; no packet is about it.
LastSays(w, s) ==
  \E n \in 1 .. Len(w) : /\ Says(w[n], s) /\ w[n].id # "LEAVE"
                         /\ \A m \in (n + 1) .. Len(w) : ~ Says(w[m], s)
Silent(w, s) == \A n \in 1 .. Len(w) : ~ Says(w[n], s)

\* The seat will be shown as taken when every packet has been handled.
Will(w, view, s) == LastSays(w, s) \/ (Silent(w, s) /\ view[s].on)

\* The last of the packets in A is one of those in B; no packet is in A.
LastIn(w, A, B) ==
  \E n \in 1 .. Len(w) : w[n] \in B /\ \A m \in (n + 1) .. Len(w) : w[m] \notin A
NoneIn(w, A) == \A n \in 1 .. Len(w) : w[n] \notin A

\* A member of Packet is a packet.
LEMMA PacketType ==
  ASSUME NEW p \in Packet
  PROVE  /\ IsPacket(p)
         /\ p.id = "LIST" => p.slot \in Seats /\ DOMAIN p.users \subseteq Seats
                             /\ \A s \in DOMAIN p.users : p.users[s] \in UserInfos
         /\ p.id = "ENTER" => p \in EnterRes
         /\ p.id = "LEAVE" => p \in LeaveRes
         /\ p.id \notin {"ENTER_RES", "LIST", "ENTER", "LEAVE"} => p \in GameNtf
<1>1. CASE p \in ListRes
  BY <1>1 DEF ListRes, IsPacket
<1>2. CASE p \in GameNtf
  BY <1>2 DEF GameNtf, IsPacket
<1>3. CASE p \in [id : {"ENTER_RES"}] \cup EnterRes \cup LeaveRes
  BY <1>3 DEF EnterRes, LeaveRes, IsPacket
<1>4. QED
  BY <1>1, <1>2, <1>3 DEF Packet

\* What is pushed in the course of a game is not about who sits where.
LEMMA GameNtfSilent ==
  ASSUME NEW p \in GameNtf
  PROVE  /\ p \in Packet
         /\ p.id \notin {"ENTER_RES", "LIST", "ENTER", "LEAVE"}
         /\ \A s : ~ Says(p, s)
BY DEF Packet, GameNtf, Says

\* What is pushed in the course of a round, from the bets to the result
RoundNtf == {p \in GameNtf : p.id # "COUNTER"}

\* One packet
LEMMA OnePacket ==
  ASSUME NEW S, NEW p \in S
  PROVE  <<p>> \in Seq(S) /\ Len(<<p>>) = 1 /\ <<p>>[1] = p
OBVIOUS

\* What is said by one packet
LEMMA OneSays ==
  ASSUME NEW p, NEW s
  PROVE  /\ LastSays(<<p>>, s) <=> Says(p, s) /\ p.id # "LEAVE"
         /\ Silent(<<p>>, s) <=> ~ Says(p, s)
<1>1. Len(<<p>>) = 1 /\ <<p>>[1] = p /\ 1 .. 1 = {1} /\ (1 + 1) .. 1 = {}
  OBVIOUS
<1>2. Silent(<<p>>, s) <=> ~ Says(p, s)
  BY <1>1 DEF Silent
<1>3. LastSays(<<p>>, s) <=> Says(p, s) /\ p.id # "LEAVE"
  BY <1>1 DEF LastSays
<1>4. QED
  BY <1>2, <1>3

\* Packets of a game say nothing of who sits where.
LEMMA GameSays ==
  ASSUME NEW q \in Seq(GameNtf), NEW s
  PROVE  q \in Seq(Packet) /\ ~ LastSays(q, s) /\ Silent(q, s)
<1>1. GameNtf \subseteq Packet
  BY GameNtfSilent
<1>2. \A n \in 1 .. Len(q) : q[n] \in GameNtf
  BY ElementOfSeq
<1>3. \A n \in 1 .. Len(q) : ~ Says(q[n], s)
  BY <1>2, GameNtfSilent
<1>4. QED
  BY <1>1, <1>3, SeqMonotonic DEF LastSays, Silent

\* The packets of a sequence that was pushed after another one
LEMMA ConcatMembers ==
  ASSUME NEW w \in Seq(Packet), NEW q \in Seq(Packet)
  PROVE  /\ Len(w) \in Nat /\ Len(q) \in Nat /\ Len(w \o q) = Len(w) + Len(q)
         /\ w \o q \in Seq(Packet)
         /\ \A n \in 1 .. Len(w) : n \in 1 .. (Len(w) + Len(q)) /\ (w \o q)[n] = w[n]
         /\ \A n \in 1 .. Len(q) : /\ (Len(w) + n) \in 1 .. (Len(w) + Len(q))
                                 /\ (w \o q)[Len(w) + n] = q[n]
         /\ \A n \in 1 .. (Len(w) + Len(q)) :
              n \in 1 .. Len(w) \/ \E k \in 1 .. Len(q) : n = Len(w) + k
<1> DEFINE a == Len(w)
           b == Len(q)
           c == w \o q
<1>1. a \in Nat /\ b \in Nat /\ Len(c) = a + b /\ c \in Seq(Packet)
  BY ConcatProperties, LenProperties
<1>2. \A n \in 1 .. a : n \in 1 .. (a + b) /\ c[n] = w[n]
  BY <1>1, ConcatProperties
<1>3. \A n \in 1 .. b : (a + n) \in 1 .. (a + b) /\ c[a + n] = q[n]
  <2> TAKE n \in 1 .. b
  <2>1. a + n \in 1 .. (a + b) /\ ~ (a + n <= a) /\ (a + n) - a = n
    BY <1>1
  <2>2. QED
    BY <2>1, ConcatProperties
<1>4. \A n \in 1 .. (a + b) : n \in 1 .. a \/ \E k \in 1 .. b : n = a + k
  <2> TAKE n \in 1 .. (a + b)
  <2>1. CASE n <= a
    BY <1>1, <2>1
  <2>2. CASE ~ (n <= a)
    <3>1. n - a \in 1 .. b /\ n = a + (n - a)
      BY <1>1, <2>2
    <3>2. QED
      BY <3>1
  <2>3. QED
    BY <2>1, <2>2
<1>5. QED
  BY <1>1, <1>2, <1>3, <1>4

\* The packets pushed after others come last.
LEMMA ConcatLast ==
  ASSUME NEW w \in Seq(Packet), NEW q \in Seq(Packet), NEW A, NEW B
  PROVE  /\ NoneIn(w \o q, A) <=> NoneIn(w, A) /\ NoneIn(q, A)
         /\ LastIn(w \o q, A, B) <=> LastIn(q, A, B) \/ (NoneIn(q, A) /\ LastIn(w, A, B))
<1> DEFINE a == Len(w)
           b == Len(q)
           c == w \o q
<1>1. a \in Nat /\ b \in Nat /\ Len(c) = a + b
  BY ConcatMembers
<1>2. \A n \in 1 .. a : n \in 1 .. (a + b) /\ c[n] = w[n]
  BY ConcatMembers
<1>3. \A n \in 1 .. b : (a + n) \in 1 .. (a + b) /\ c[a + n] = q[n]
  BY ConcatMembers
<1>4. \A n \in 1 .. (a + b) : n \in 1 .. a \/ \E k \in 1 .. b : n = a + k
  BY ConcatMembers
<1> HIDE DEF c
<1>5. NoneIn(c, A) <=> NoneIn(w, A) /\ NoneIn(q, A)
  <2>1. ASSUME NoneIn(c, A) PROVE NoneIn(w, A) /\ NoneIn(q, A)
    BY <1>1, <1>2, <1>3, <2>1 DEF NoneIn
  <2>2. ASSUME NoneIn(w, A), NoneIn(q, A), NEW n \in 1 .. (a + b) PROVE c[n] \notin A
    <3>1. CASE n \in 1 .. a
      BY <1>2, <2>2, <3>1 DEF NoneIn
    <3>2. ASSUME NEW k \in 1 .. b, n = a + k PROVE c[n] \notin A
      BY <1>3, <2>2, <3>2 DEF NoneIn
    <3>3. QED
      BY <1>4, <3>1, <3>2
  <2>3. QED
    BY <1>1, <2>1, <2>2 DEF NoneIn
<1>6. ASSUME LastIn(q, A, B) PROVE LastIn(c, A, B)
  <2>1. PICK n \in 1 .. b : /\ q[n] \in B
                            /\ \A m \in (n + 1) .. b : q[m] \notin A
    BY <1>6 DEF LastIn
  <2>2. ASSUME NEW m \in (a + n + 1) .. (a + b) PROVE c[m] \notin A
    <3>1. m - a \in (n + 1) .. b /\ m - a \in 1 .. b /\ m = a + (m - a)
      BY <1>1
    <3>2. QED
      BY <1>3, <2>1, <3>1
  <2>3. (a + n) \in 1 .. (a + b) /\ c[a + n] \in B
    BY <1>3, <2>1
  <2>4. QED
    BY <1>1, <2>2, <2>3 DEF LastIn
<1>7. ASSUME NoneIn(q, A), LastIn(w, A, B) PROVE LastIn(c, A, B)
  <2>1. PICK n \in 1 .. a : /\ w[n] \in B
                            /\ \A m \in (n + 1) .. a : w[m] \notin A
    BY <1>7 DEF LastIn
  <2>2. ASSUME NEW m \in (n + 1) .. (a + b) PROVE c[m] \notin A
    <3>1. m \in 1 .. (a + b)
      BY <1>1
    <3>2. CASE m \in 1 .. a
      <4>1. m \in (n + 1) .. a
        BY <1>1, <3>2
      <4>2. QED
        BY <1>2, <2>1, <3>2, <4>1
    <3>3. CASE \E k \in 1 .. b : m = a + k
      BY <1>3, <1>7, <3>3 DEF NoneIn
    <3>4. QED
      BY <1>4, <3>1, <3>2, <3>3
  <2>3. n \in 1 .. (a + b) /\ c[n] \in B
    BY <1>2, <2>1
  <2>4. QED
    BY <1>1, <2>2, <2>3 DEF LastIn
<1>8. ASSUME LastIn(c, A, B) PROVE LastIn(q, A, B) \/ (NoneIn(q, A) /\ LastIn(w, A, B))
  <2>1. PICK n \in 1 .. (a + b) : /\ c[n] \in B
                                  /\ \A m \in (n + 1) .. (a + b) : c[m] \notin A
    BY <1>1, <1>8 DEF LastIn
  <2>2. CASE n \in 1 .. a
    <3>1. ASSUME NEW k \in 1 .. b PROVE q[k] \notin A
      <4>1. a + k \in (n + 1) .. (a + b)
        BY <1>1, <2>2
      <4>2. QED
        BY <1>3, <2>1, <4>1
    <3>2. ASSUME NEW m \in (n + 1) .. a PROVE w[m] \notin A
      <4>1. m \in (n + 1) .. (a + b) /\ m \in 1 .. a
        BY <1>1, <2>2
      <4>2. QED
        BY <1>2, <2>1, <4>1
    <3>3. w[n] \in B
      BY <1>2, <2>1, <2>2
    <3>4. QED
      BY <2>2, <3>1, <3>2, <3>3 DEF NoneIn, LastIn
  <2>3. ASSUME NEW k \in 1 .. b, n = a + k PROVE LastIn(q, A, B)
    <3>1. q[k] \in B
      BY <1>3, <2>1, <2>3
    <3>2. ASSUME NEW m \in (k + 1) .. b PROVE q[m] \notin A
      <4>1. a + m \in (n + 1) .. (a + b) /\ m \in 1 .. b
        BY <1>1, <2>3
      <4>2. QED
        BY <1>3, <2>1, <4>1
    <3>3. QED
      BY <3>1, <3>2 DEF LastIn
  <2>4. QED
    BY <1>4, <2>1, <2>2, <2>3
<1>9. QED
  BY <1>5, <1>6, <1>7, <1>8 DEF c

\* The packets about a seat
LEMMA SaysIn ==
  ASSUME NEW v, Len(v) \in Nat, NEW s, NEW A, NEW B,
         \A n \in 1 .. Len(v) : v[n] \in A <=> Says(v[n], s),
         \A n \in 1 .. Len(v) : v[n] \in B <=> Says(v[n], s) /\ v[n].id # "LEAVE"
  PROVE  (Silent(v, s) <=> NoneIn(v, A)) /\ (LastSays(v, s) <=> LastIn(v, A, B))
<1>1. \A n \in 1 .. Len(v) : \A m \in (n + 1) .. Len(v) : m \in 1 .. Len(v)
  OBVIOUS
<1>2. Silent(v, s) <=> NoneIn(v, A)
  BY DEF Silent, NoneIn
<1>3. LastSays(v, s) <=> LastIn(v, A, B)
  BY <1>1 DEF LastSays, LastIn
<1>4. QED
  BY <1>2, <1>3

\* Packets pushed after others: the last word counts.
LEMMA ConcatSays ==
  ASSUME NEW w \in Seq(Packet), NEW q \in Seq(Packet), NEW s
  PROVE  /\ Silent(w \o q, s) <=> Silent(w, s) /\ Silent(q, s)
         /\ LastSays(w \o q, s) <=> LastSays(q, s) \/ (Silent(q, s) /\ LastSays(w, s))
<1> DEFINE A == {p \in Packet : Says(p, s)}
           B == {p \in Packet : Says(p, s) /\ p.id # "LEAVE"}
<1>1. ASSUME NEW v \in Seq(Packet)
      PROVE  (Silent(v, s) <=> NoneIn(v, A)) /\ (LastSays(v, s) <=> LastIn(v, A, B))
  <2>1. Len(v) \in Nat /\ \A n \in 1 .. Len(v) : v[n] \in Packet
    BY LenProperties, ElementOfSeq
  <2>2. \A n \in 1 .. Len(v) : v[n] \in A <=> Says(v[n], s)
    BY <2>1
  <2>3. \A n \in 1 .. Len(v) : v[n] \in B <=> Says(v[n], s) /\ v[n].id # "LEAVE"
    BY <2>1
  <2> HIDE DEF A, B
  <2>4. QED
    BY <2>1, <2>2, <2>3, SaysIn
<1> HIDE DEF A, B
<1>2. w \o q \in Seq(Packet)
  BY ConcatMembers
<1>3. QED
  BY <1>1, <1>2, ConcatLast

\* The packets after the first one
LEMMA HeadSays ==
  ASSUME NEW w \in Seq(Packet), w # <<>>
  PROVE  /\ Head(w) \in Packet /\ Tail(w) \in Seq(Packet) /\ w = <<Head(w)>> \o Tail(w)
         /\ 1 \in DOMAIN w /\ Head(w) = w[1]
<1>1. Head(w) \in Packet /\ Tail(w) \in Seq(Packet) /\ Len(Tail(w)) = Len(w) - 1
      /\ \A i \in 1 .. Len(Tail(w)) : Tail(w)[i] = w[i + 1]
  BY HeadTailProperties
<1>2. Len(w) \in Nat \ {0} /\ DOMAIN w = 1 .. Len(w)
  BY EmptySeq, LenProperties
<1>3. Head(w) = w[1] /\ 1 \in DOMAIN w
  BY <1>2 DEF Head
<1> DEFINE c == <<Head(w)>> \o Tail(w)
<1>4. <<Head(w)>> \in Seq(Packet) /\ Len(<<Head(w)>>) = 1 /\ <<Head(w)>>[1] = Head(w)
  BY <1>1, OnePacket
<1>5. c \in Seq(Packet) /\ Len(c) = 1 + (Len(w) - 1)
      /\ \A i \in 1 .. (1 + (Len(w) - 1)) :
            c[i] = IF i <= 1 THEN <<Head(w)>>[i] ELSE Tail(w)[i - 1]
  BY <1>1, <1>4, ConcatProperties
<1> HIDE DEF c
<1>6. Len(c) = Len(w)
  BY <1>2, <1>5
<1>7. ASSUME NEW i \in 1 .. Len(c) PROVE c[i] = w[i]
  <2>1. CASE i = 1
    BY <1>2, <1>3, <1>4, <1>5, <2>1
  <2>2. CASE i # 1
    <3>1. ~ (i <= 1) /\ i - 1 \in 1 .. (Len(w) - 1) /\ (i - 1) + 1 = i /\ i \in 1 .. (1 + (Len(w) - 1))
      BY <1>2, <1>6, <2>2
    <3>2. c[i] = Tail(w)[i - 1]
      BY <1>5, <3>1
    <3>3. Tail(w)[i - 1] = w[(i - 1) + 1]
      BY <1>1, <3>1
    <3>4. QED
      BY <3>1, <3>2, <3>3
  <2>3. QED
    BY <2>1, <2>2
<1>8. c = w
  BY <1>5, <1>6, <1>7, SeqEqual
<1>9. QED
  BY <1>1, <1>3, <1>8 DEF c
-----------------------------------------------------------------------------
(* Seats in the order of m_userList                                        *)

\* InOrder names every member of a set of seats once: the n-th member is the
\* one that has n members up to itself.
LEMMA InOrderSeats ==
  ASSUME NEW S \in SUBSET Seats
  PROVE  /\ InOrder(S) \in Seq(S)
         /\ \A s \in S : \E n \in 1 .. Len(InOrder(S)) : InOrder(S)[n] = s
<1> DEFINE upTo(s) == {t \in S : t <= s}
           rank(s) == Cardinality({t \in S : t <= s})
           f == [s \in S |-> rank(s)]
           k == Cardinality(S)
<1>1. IsFiniteSet(S) /\ k \in Nat /\ S \subseteq Nat
  BY SeatsFinite, FS_Subset, FS_CardinalityType
<1>2. \A s \in S : IsFiniteSet(upTo(s)) /\ upTo(s) \subseteq S /\ s \in upTo(s)
  <2> TAKE s \in S
  <2>1. upTo(s) \in SUBSET S
    OBVIOUS
  <2>2. s \in upTo(s)
    BY <1>1
  <2>3. QED
    BY <1>1, <2>1, <2>2, FS_Subset
<1>3. f \in [S -> 1 .. k]
  <2>1. ASSUME NEW s \in S PROVE Cardinality(upTo(s)) \in 1 .. k
    <3>1. Cardinality(upTo(s)) \in Nat /\ Cardinality(upTo(s)) <= k
      BY <1>1, <1>2, FS_Subset, FS_CardinalityType
    <3>2. Cardinality(upTo(s)) # 0
      BY <1>2, FS_EmptySet
    <3>3. QED
      BY <1>1, <3>1, <3>2
  <2>2. QED
    BY <2>1
<1>4. ASSUME NEW s \in S, NEW t \in S, s < t PROVE f[s] # f[t]
  <2>1. upTo(s) \in SUBSET upTo(t) /\ t \in upTo(t) /\ t \notin upTo(s)
    <3>1. s \in Nat /\ t \in Nat /\ t <= t /\ ~ (t <= s)
      BY <1>1, <1>4
    <3>2. \A x \in S : x <= s => x <= t
      BY <1>1, <1>4
    <3>3. QED
      BY <3>1, <3>2
  <2>2. upTo(s) # upTo(t)
    BY <2>1
  <2>3. Cardinality(upTo(s)) # Cardinality(upTo(t))
    BY <1>2, <2>1, <2>2, FS_Subset
  <2>4. QED
    BY <2>3
<1>5. \A s, t \in S : f[s] = f[t] => s = t
  BY <1>1, <1>4
<1>6. f \in Injection(S, 1 .. k)
  BY <1>3, <1>5 DEF Injection, IsInjective
<1>7. IsFiniteSet(1 .. k) /\ Cardinality(1 .. k) = k
  BY <1>1, FS_Interval
<1>8. f \in Surjection(S, 1 .. k)
  BY <1>6, <1>7, FS_Injection
<1>9. \A n \in 1 .. k : \E s \in S : f[s] = n
  BY <1>8 DEF Surjection
<1>10. /\ InOrder(S) = [n \in 1 .. k |-> CHOOSE s \in S : rank(s) = n]
       /\ \A s \in S : f[s] = rank(s)
  BY DEF InOrder
<1> HIDE DEF f, rank, k
<1>11. \A n \in 1 .. k : InOrder(S)[n] \in S /\ f[InOrder(S)[n]] = n
  <2> TAKE n \in 1 .. k
  <2> DEFINE c == CHOOSE s \in S : rank(s) = n
  <2>1. \E s \in S : rank(s) = n
    BY <1>9, <1>10
  <2>2. c \in S /\ rank(c) = n
    BY <2>1
  <2>3. InOrder(S)[n] = c
    BY <1>10
  <2> HIDE DEF c
  <2>4. QED
    BY <1>10, <2>2, <2>3
<1>12. InOrder(S) \in [1 .. k -> S]
  BY <1>10, <1>11
<1>13. InOrder(S) \in Seq(S)
  BY <1>1, <1>12, SeqDef
<1>14. Len(InOrder(S)) = k
  BY <1>1, <1>12, <1>13, LenProperties
<1>15. ASSUME NEW s \in S PROVE \E n \in 1 .. Len(InOrder(S)) : InOrder(S)[n] = s
  <2>1. f[s] \in 1 .. k
    BY <1>3
  <2>2. InOrder(S)[f[s]] = s
    BY <1>5, <1>11, <2>1
  <2>3. QED
    BY <1>14, <2>1, <2>2
<1>16. QED
  BY <1>13, <1>15

\* The seat of a player who sits in the room
LEMMA SeatOfSeated ==
  ASSUME NEW ul, NEW u \in Seated(ul)
  PROVE  SeatOf(ul, u) \in Seats /\ ul[SeatOf(ul, u)] = u
<1>1. \E s \in Seats : ul[s] = u
  BY DEF Seated
<1>2. QED
  BY <1>1 DEF SeatOf

-----------------------------------------------------------------------------
(* What is pushed                                                          *)

\* The information about a player
LEMMA UserInfoType ==
  ASSUME NEW p \in UserRecord
  PROVE  UserInfo(p) \in UserInfos
<1>1. p.money \in Int /\ p.bet \in Int /\ p.curHand \in Hands /\ p.hand \in [Hands -> Hand]
  BY DEF UserRecord
<1>2. \A h \in Hands : Shown(p.hand[h]) \in 0 .. HandSlots
  <2> TAKE h \in Hands
  <2>1. p.hand[h].num \in 0 .. HandSlots /\ 0 \in 0 .. HandSlots
    BY <1>1, SlotsAssumption DEF Hand
  <2>2. QED
    BY <2>1 DEF Shown
<1>3. [h \in Hands |-> Shown(p.hand[h])] \in [Hands -> 0 .. HandSlots]
  BY <1>2
<1>4. QED
  BY <1>1, <1>3 DEF UserInfo, UserInfos

\* The members of GameNtf, one by one
LEMMA GameNtfTypes ==
  /\ \A to \in GameStates : [id |-> "COUNTER", to |-> to] \in GameNtf
  /\ \A s \in Seats, amount \in Nat : BetNtf(s, amount) \in RoundNtf
  /\ \A c \in [Seats -> 0 .. 2] : [id |-> "START", cards |-> c] \in RoundNtf
  /\ \A s \in Seats, h \in Hands : [id |-> "TURN", slot |-> s, hand |-> h] \in RoundNtf
  /\ \A s \in Seats, c \in Choices, h \in Hands, b, m \in Int :
       [id |-> "CHOICE", slot |-> s, choice |-> c, hand |-> h, bet |-> b, money |-> m] \in RoundNtf
  /\ \A m \in [Seats -> Int], S \in SUBSET Seats :
       [id |-> "RESULT", money |-> m, played |-> S] \in RoundNtf
<1>1. \A to \in GameStates : [id |-> "COUNTER", to |-> to] \in GameNtf
  BY DEF GameNtf
<1>2. \A s \in Seats, amount \in Nat : BetNtf(s, amount) \in RoundNtf
  BY DEF RoundNtf, GameNtf, BetNtf
<1>3. \A c \in [Seats -> 0 .. 2] : [id |-> "START", cards |-> c] \in RoundNtf
  BY DEF RoundNtf, GameNtf
<1>4. \A s \in Seats, h \in Hands : [id |-> "TURN", slot |-> s, hand |-> h] \in RoundNtf
  BY DEF RoundNtf, GameNtf
<1>5. \A s \in Seats, c \in Choices, h \in Hands, b, m \in Int :
        [id |-> "CHOICE", slot |-> s, choice |-> c, hand |-> h, bet |-> b, money |-> m] \in RoundNtf
  BY DEF RoundNtf, GameNtf
<1>6. \A m \in [Seats -> Int], S \in SUBSET Seats :
        [id |-> "RESULT", money |-> m, played |-> S] \in RoundNtf
  BY DEF RoundNtf, GameNtf
<1>7. QED
  BY <1>1, <1>2, <1>3, <1>4, <1>5, <1>6

\* A sequence of one packet for each member of a sequence of seats
LEMMA ForEachSeat ==
  ASSUME NEW order \in Seq(Seats), NEW S, NEW q, DOMAIN q = DOMAIN order,
         q = [n \in DOMAIN order |-> q[n]], \A n \in DOMAIN order : q[n] \in S
  PROVE  q \in Seq(S) /\ Len(q) = Len(order)
<1>1. Len(order) \in Nat /\ DOMAIN order = 1 .. Len(order)
  BY LenProperties
<1>2. q \in [1 .. Len(order) -> S]
  BY <1>1
<1>3. q \in Seq(S)
  BY <1>1, <1>2, SeqDef
<1>4. QED
  BY <1>1, <1>3, LenProperties

-----------------------------------------------------------------------------
(* The turn that is announced                                              *)

\* Unless the game has ended somebody can play.
TurnTold == roomState' # "CALCULATE" => PlayableSeats(userList', user') # {}

\* Whoever is given the turn can play.
LEMMA TurnGivenTold ==
  ASSUME NEW ul, SeatingType(ul), NEW us \in [Users -> UserRecord],
         PlayableSeats(ul, us) # {}, user' = TurnGiven(ul, us), userList' = ul
  PROVE  TurnTold
<1>1. PICK s \in ActingSeats' : Playable(user'[userList'[s]])
  BY TurnGivenActs
<1>2. s \in Seats /\ userList'[s] # NoUser
  BY DEF ActingSeats
<1>3. s \in PlayableSeats(userList', user')
  BY <1>1, <1>2 DEF PlayableSeats
<1>4. QED
  BY <1>3 DEF TurnTold

\* NotifyChangeTurn, unless it runs into undefined behaviour
LEMMA ChangeTurnTold ==
  ASSUME NEW ul, SeatingType(ul), NEW us \in [Users -> UserRecord], NEW db \in [Users -> Int],
         NotifyChangeTurn(ul, us, db), userList' = ul, buttons \subseteq Choices, fault' = "none"
  PROVE  TurnTold
<1>1. CASE PlayableSeats(ul, us) # {}
  BY <1>1, TurnGivenTold DEF NotifyChangeTurn
<1>2. CASE EndOfGame(ul, us, db)
  BY <1>2, EndOfGameType DEF TurnTold
<1>3. CASE Broken("empty_deck", us, db)
  BY <1>3 DEF Broken
<1>4. QED
  BY <1>1, <1>2, <1>3 DEF NotifyChangeTurn

\* A choice that was applied
LEMMA ChoiceAppliedTold ==
  ASSUME TypeOK, NEW u \in Users, NEW p \in UserRecord, NEW choice, NEW db \in [Users -> Int],
         NEW sk, ChoiceApplied(u, choice, p, db, sk), fault' = "none"
  PROVE  TurnTold /\ UNCHANGED <<userList, connected>>
<1> DEFINE us == [user EXCEPT ![u] = AfterChoiceNtf(p)]
<1>1. us \in [Users -> UserRecord] /\ SeatingType(userList) /\ buttons \subseteq Choices
  BY SwitchType, UserReplacedType DEF TypeOK, SeatingType
<1>2. UNCHANGED <<userList, connected>>
  BY DEF ChoiceApplied
<1> HIDE DEF us
<1>3. CASE PlayableSeats(userList, us) # {} /\ user' = TurnGiven(userList, us)
  BY <1>1, <1>2, <1>3, TurnGivenTold
<1>4. CASE NotifyChangeTurn(userList, us, db)
  BY <1>1, <1>2, <1>4, ChangeTurnTold
<1>5. QED
  BY <1>2, <1>3, <1>4 DEF ChoiceApplied, us

\* A choice that was refused
LEMMA RefusedTold ==
  ASSUME TypeOK, ChoiceRefused, fault' = "none"
  PROVE  TurnTold /\ UNCHANGED <<userList, connected>>
BY ChangeTurnTold DEF ChoiceRefused, TypeOK, SeatingType

\* A card that was drawn
LEMMA CardDrawnTold ==
  ASSUME TypeOK, NEW u \in Users, NEW p \in UserRecord,
         NEW states \in SUBSET HandStates, NEW db \in [Users -> Int],
         NEW sk, NEW choice, CardDrawn(u, choice, p, states, db, sk), fault' = "none"
  PROVE  TurnTold /\ UNCHANGED <<userList, connected>>
<1> DEFINE cur == p.curHand
<1>1. CASE Crash("empty_deck") \/ Crash("hand_overflow")
  BY <1>1 DEF Crash
<1>2. ASSUME p.hand[cur].num < HandSlots, NEW s \in states,
             ChoiceApplied(u, choice,
                           [p EXCEPT !.hand[cur] = [WithCard(@) EXCEPT !.state = s]],
                           db, sk)
      PROVE  TurnTold /\ UNCHANGED <<userList, connected>>
  <2>1. cur \in Hands /\ p.hand[cur] \in Hand
    BY DEF UserRecord
  <2>2. [WithCard(p.hand[cur]) EXCEPT !.state = s] \in Hand
    BY <1>2, <2>1, WithCardType DEF Hand
  <2>3. [p EXCEPT !.hand[cur] = [WithCard(@) EXCEPT !.state = s]] \in UserRecord
    BY <2>1, <2>2, HandReplacedType
  <2>4. QED
    BY <1>2, <2>3, ChoiceAppliedTold
<1>3. QED
  BY <1>1, <1>2 DEF CardDrawn

\* The announcement of the turn, or of the result
LEMMA TurnNtfType ==
  ASSUME TypeOK', TurnTold
  PROVE  TurnNtf \in RoundNtf
<1>1. userList' \in [Seats -> Users \cup {NoUser}] /\ user' \in [Users -> UserRecord]
  BY DEF TypeOK
<1>2. CASE roomState' = "CALCULATE"
  <2> DEFINE money == [s \in Seats |-> IF userList'[s] = NoUser THEN 0
                                       ELSE user'[userList'[s]].money]
             played == {s \in Seats : userList'[s] # NoUser
                                      /\ user[userList'[s]].hand[0].num > 0}
  <2>1. money \in [Seats -> Int]
    BY <1>1 DEF UserRecord
  <2>2. played \in SUBSET Seats
    OBVIOUS
  <2>3. TurnNtf = [id |-> "RESULT", money |-> money, played |-> played]
    BY <1>2 DEF TurnNtf
  <2> HIDE DEF money, played
  <2>4. QED
    BY <2>1, <2>2, <2>3, GameNtfTypes
<1>3. CASE roomState' # "CALCULATE"
  <2> DEFINE S == PlayableSeats(userList', user')
             u == NextUser(userList', user')
  <2>1. S # {} /\ S \in SUBSET Seats
    BY <1>3 DEF TurnTold, PlayableSeats
  <2>2. First(S) \in S
    BY <2>1, FirstIsMember
  <2>3. u = userList'[First(S)] /\ First(S) \in Seats /\ u # NoUser
    BY <2>2 DEF NextUser, PlayableSeats
  <2>4. u \in Users /\ u \in Seated(userList')
    BY <1>1, <2>3 DEF Seated
  <2>5. SeatOf(userList', u) \in Seats
    BY <2>4, SeatOfSeated
  <2>6. user'[u].curHand \in Hands
    BY <1>1, <2>4 DEF UserRecord
  <2>7. TurnNtf = [id |-> "TURN", slot |-> SeatOf(userList', u), hand |-> user'[u].curHand]
    BY <1>3 DEF TurnNtf
  <2> HIDE DEF u, S
  <2>8. QED
    BY <2>5, <2>6, <2>7, GameNtfTypes
<1>4. QED
  BY <1>2, <1>3

\* The announcement of a choice
LEMMA ChoiceNtfType ==
  ASSUME TypeOK, NEW u \in Seated(userList), NEW choice \in Choices, NEW extra \in Int
  PROVE  ChoiceNtf(u, choice, extra) \in RoundNtf
<1>1. u \in Users
  BY SeatedType DEF TypeOK, SeatingType
<1>2. user[u].curHand \in Hands /\ user[u].bet \in Int /\ user[u].money - extra \in Int
  BY <1>1 DEF TypeOK, UserRecord
<1>3. SeatOf(userList, u) \in Seats
  BY SeatOfSeated
<1>4. QED
  BY <1>2, <1>3, GameNtfTypes DEF ChoiceNtf

\* A choice and the turn after it
LEMMA ChoicePacketsType ==
  ASSUME TypeOK, TypeOK', TurnTold,
         NEW u \in Seated(userList), NEW choice \in Choices, NEW extra \in Int
  PROVE  ChoicePackets(u, choice, extra) \in Seq(RoundNtf)
<1>1. <<ChoiceNtf(u, choice, extra)>> \in Seq(RoundNtf)
  BY ChoiceNtfType, OnePacket
<1>2. <<TurnNtf>> \in Seq(RoundNtf) /\ <<>> \in Seq(RoundNtf)
  BY TurnNtfType, OnePacket, EmptySeq
<1>3. TurnNtfs(u) \in Seq(RoundNtf)
  BY <1>2 DEF TurnNtfs
<1>4. QED
  BY <1>1, <1>3, ConcatProperties DEF ChoicePackets

-----------------------------------------------------------------------------
(* The bets that are announced                                             *)

\* The start of a game
LEMMA StartNtfsType ==
  ASSUME TypeOK
  PROVE  StartNtfs \in Seq(RoundNtf)
<1> DEFINE c == [s \in Seats |->
                   IF userList[s] = NoUser THEN 0
                   ELSE CASE user[userList[s]].hand[0].num = 0 -> 2
                          [] user[userList[s]].hand[0].num = 1 -> 1
                          [] OTHER -> 0]
<1>1. c \in [Seats -> 0 .. 2]
  OBVIOUS
<1>2. StartNtfs = <<[id |-> "START", cards |-> c]>> \/ StartNtfs = <<>>
  BY DEF StartNtfs
<1> HIDE DEF c
<1>3. <<[id |-> "START", cards |-> c]>> \in Seq(RoundNtf) /\ <<>> \in Seq(RoundNtf)
  BY <1>1, GameNtfTypes, OnePacket, EmptySeq
<1>4. QED
  BY <1>2, <1>3

\* The bets of some players, in the order of their seats
LEMMA BetNtfsType ==
  ASSUME TypeOK, NEW bettors, NEW amount \in Nat
  PROVE  BetNtfs(bettors, amount) \in Seq(RoundNtf)
<1> DEFINE S == {s \in Seats : userList[s] \in bettors}
           order == InOrder(S)
           q == [n \in DOMAIN order |-> BetNtf(order[n], amount)]
<1>1. S \in SUBSET Seats
  OBVIOUS
<1>2. order \in Seq(S)
  BY <1>1, InOrderSeats
<1>3. order \in Seq(Seats) /\ \A n \in DOMAIN order : order[n] \in Seats
  BY <1>1, <1>2, SeqMonotonic, LenProperties, ElementOfSeq
<1>4. BetNtfs(bettors, amount) = q \o StartNtfs
  BY DEF BetNtfs
<1> HIDE DEF order
<1>5. \A n \in DOMAIN order : q[n] \in RoundNtf
  BY <1>3, GameNtfTypes
<1>6. q \in Seq(RoundNtf)
  BY <1>3, <1>5, ForEachSeat
<1> HIDE DEF q
<1>7. QED
  BY <1>4, <1>6, StartNtfsType, ConcatProperties

-----------------------------------------------------------------------------
(* The steps of a game push packets of the game                            *)

\* The wire after a step that is not about who sits where
GamePush == wire' = wire \/ \E q \in Seq(RoundNtf) : wire' = wire \o q

\* A handler that does not survive pushes nothing.
LEMMA PushGame ==
  ASSUME NEW ul, NEW q, Push(ul, q), fault' = "none" => q \in Seq(RoundNtf)
  PROVE  GamePush
BY DEF Push, GamePush

\* A choice moves nobody.
LEMMA ChoiceMovesNobody ==
  ASSUME NEW u, ViewChoice(u)
  PROVE  UNCHANGED <<userList, connected, asked, bid, screen>>
<1>1. UNCHANGED <<asked, bid, screen>> /\ (Stand(u) \/ Hit(u) \/ DoubleDown(u) \/ Split(u))
  BY DEF ViewChoice
<1>2. ASSUME NEW c, NEW p, NEW states, NEW db, NEW sk, CardDrawn(u, c, p, states, db, sk)
      PROVE  UNCHANGED <<userList, connected>>
  BY <1>2 DEF CardDrawn, Crash, ChoiceApplied
<1>3. UNCHANGED <<userList, connected>>
  BY <1>1, <1>2 DEF Stand, Hit, DoubleDown, Split, ChoiceApplied, ChoiceRefused
<1>4. QED
  BY <1>1, <1>3

\* A choice is announced, and the turn after it.
LEMMA ChoicePush ==
  ASSUME TypeOK, TypeOK', NEW u \in Users, ViewChoice(u)
  PROVE  GamePush
<1> DEFINE p == user[u]
<1>1. p \in UserRecord /\ CurrentHand(p) \in Hand /\ p.bet \in Nat
  BY DEF TypeOK, UserRecord, CurrentHand
<1>2. chip \in [Users -> Int] /\ Debited({u}, p.bet) \in [Users -> Int]
  BY <1>1 DEF TypeOK, Debited
<1>3. {"STAND", "HIT", "DOUBLE_DOWN", "SPLIT"} = Choices /\ p.bet \in Int /\ 0 \in Int
  BY <1>1 DEF Choices
<1>4. CASE Stand(u) /\ Push(userList, ChoicePackets(u, "STAND", 0))
  <2>1. SwitchHandIfSplitExist([p EXCEPT !.hand[p.curHand].state = "STAND"]) \in UserRecord
    BY <1>1, StoodType, SwitchType
  <2>2. fault' = "none" => TurnTold
    BY <1>2, <1>4, <2>1, ChoiceAppliedTold DEF Stand
  <2>3. u \in Seated(userList)
    BY <1>4 DEF Stand, ChoiceArrives
  <2>4. QED
    BY <1>3, <1>4, <2>2, <2>3, ChoicePacketsType, PushGame
<1>5. CASE Hit(u) /\ Push(userList, ChoicePackets(u, "HIT", 0))
  <2>1. AfterHit(CurrentHand(p)) \in SUBSET HandStates
    BY <1>1 DEF AfterHit, Hand, HandStates
  <2>2. fault' = "none" => TurnTold
    BY <1>1, <1>2, <1>5, <2>1, CardDrawnTold DEF Hit
  <2>3. u \in Seated(userList)
    BY <1>5 DEF Hit, ChoiceArrives
  <2>4. QED
    BY <1>3, <1>5, <2>2, <2>3, ChoicePacketsType, PushGame
<1>6. CASE /\ DoubleDown(u)
           /\ Push(userList, IF CanDoubleDown(p) THEN ChoicePackets(u, "DOUBLE_DOWN", p.bet)
                             ELSE <<TurnNtf>>)
  <2>1. AfterDoubleDown(CurrentHand(p)) \in SUBSET HandStates
    BY DEF AfterDoubleDown, HandStates
  <2>2. DoubledDown(p) \in UserRecord
    BY <1>1, DoubledDownType
  <2>3. fault' = "none" => TurnTold
    BY <1>2, <1>6, <2>1, <2>2, CardDrawnTold, RefusedTold DEF DoubleDown
  <2>4. u \in Seated(userList)
    BY <1>6 DEF DoubleDown, ChoiceArrives
  <2>5. fault' = "none" => /\ ChoicePackets(u, "DOUBLE_DOWN", p.bet) \in Seq(RoundNtf)
                           /\ <<TurnNtf>> \in Seq(RoundNtf)
    BY <1>3, <2>3, <2>4, ChoicePacketsType, TurnNtfType, OnePacket
  <2>6. QED
    BY <1>6, <2>5, PushGame
<1>7. CASE /\ Split(u)
           /\ Push(userList, IF p.isSplit THEN <<TurnNtf>>
                             ELSE ChoicePackets(u, "SPLIT", IF CanSplit(p) THEN p.bet ELSE 0))
  <2>1. SplitUser(p) \in UserRecord
    BY <1>1, SplitType
  <2>2. fault' = "none" => TurnTold
    BY <1>1, <1>2, <1>7, <2>1, ChoiceAppliedTold, RefusedTold DEF Split
  <2>3. u \in Seated(userList)
    BY <1>7 DEF Split, ChoiceArrives
  <2>4. (IF CanSplit(p) THEN p.bet ELSE 0) \in Int
    BY <1>3
  <2>5. fault' = "none" => /\ ChoicePackets(u, "SPLIT", IF CanSplit(p) THEN p.bet ELSE 0)
                                \in Seq(RoundNtf)
                           /\ <<TurnNtf>> \in Seq(RoundNtf)
    BY <1>3, <2>2, <2>3, <2>4, ChoicePacketsType, TurnNtfType, OnePacket
  <2>6. QED
    BY <1>7, <2>5, PushGame
<1>8. QED
  BY <1>4, <1>5, <1>6, <1>7 DEF ViewChoice

\* Bets are announced to everybody who sits in the room.
LEMMA BetPush ==
  ASSUME TypeOK, NEW u, NEW money \in Nat, ViewBet(u, money)
  PROVE  GamePush /\ UNCHANGED <<userList, connected, asked, screen>>
<1>1. Amount(money) \in Nat
  BY BetAssumption DEF Amount
<1>2. GamePush
  BY <1>1, BetNtfsType, PushGame DEF ViewBet
<1>3. QED
  BY <1>2 DEF ViewBet, GameBet, BetsApplied

\* The bets of the users who were late
LEMMA BettingTimeoutPush ==
  ASSUME TypeOK, ViewBettingTimeout
  PROVE  GamePush /\ UNCHANGED <<userList, connected, asked, bid, screen>>
<1>1. GamePush
  BY BetAssumption, BetNtfsType, PushGame DEF ViewBettingTimeout
<1>2. QED
  BY <1>1 DEF ViewBettingTimeout, BettingTimeout, BetsApplied

\* The first turn of a game
LEMMA HandoutTimeoutPush ==
  ASSUME TypeOK, TypeOK', ViewHandoutTimeout
  PROVE  GamePush /\ UNCHANGED <<userList, connected, asked, bid, screen>>
<1>1. UNCHANGED <<userList, connected, asked, bid, screen>>
  BY DEF ViewHandoutTimeout, HandoutTimeout
<1>2. fault' = "none" => TurnTold
  BY <1>1, ChangeTurnTold DEF ViewHandoutTimeout, HandoutTimeout, TypeOK, SeatingType
<1>3. fault' = "none" => <<TurnNtf>> \in Seq(RoundNtf)
  BY <1>2, TurnNtfType, OnePacket
<1>4. QED
  BY <1>1, <1>3, PushGame DEF ViewHandoutTimeout

\* A turn that was not used ends as if its player stood.
LEMMA TurnTimeoutPush ==
  ASSUME TypeOK, TypeOK', ViewTurnTimeout
  PROVE  GamePush /\ UNCHANGED <<userList, connected, asked, bid, screen>>
<1> DEFINE u  == userList[First(ActingSeats)]
           us == [user EXCEPT ![u] = AfterChoiceNtf(ForceNextTurn(user[u]))]
<1>1. UNCHANGED <<userList, connected, asked, bid, screen>>
  BY DEF ViewTurnTimeout, TurnTimeout
<1>2. SeatingType(userList) /\ chip \in [Users -> Int] /\ buttons \subseteq Choices
  BY DEF TypeOK, SeatingType
<1>3. us \in [Users -> UserRecord]
  <2>1. \A r \in UserRecord : AfterChoiceNtf(ForceNextTurn(r)) \in UserRecord
    BY StoodType, SwitchType
  <2>2. QED
    BY <2>1 DEF TypeOK
<1>4. CASE ActingSeats # {} /\ NotifyChangeTurn(userList, us, chip)
  <2>1. fault' = "none" => <<TurnNtf>> \in Seq(RoundNtf)
    BY <1>1, <1>2, <1>3, <1>4, ChangeTurnTold, TurnNtfType, OnePacket
  <2>2. u \in Seated(userList)
    <3>1. ActingSeats \in SUBSET Seats
      BY DEF ActingSeats
    <3>2. First(ActingSeats) \in ActingSeats
      BY <1>4, <3>1, FirstIsMember
    <3>3. QED
      BY <3>2 DEF ActingSeats, Seated
  <2>3. ChoiceNtf(u, "STAND", 0) \in RoundNtf
    BY <2>2, ChoiceNtfType DEF Choices
  <2>4. fault' = "none" => <<ChoiceNtf(u, "STAND", 0), TurnNtf>> \in Seq(RoundNtf)
    BY <2>1, <2>3, TurnNtfType, <1>1, <1>2, <1>3, <1>4, ChangeTurnTold
  <2>5. Push(userList, <<ChoiceNtf(u, "STAND", 0), TurnNtf>>)
    BY <1>4 DEF ViewTurnTimeout
  <2>6. QED
    BY <1>1, <2>4, <2>5, PushGame
<1>5. CASE ActingSeats = {} /\ EndOfGame(userList, user, chip)
  <2>1. fault' = "none" => TurnTold
    <3>1. user \in [Users -> UserRecord]
      BY DEF TypeOK
    <3>2. roomState' = "CALCULATE" \/ fault' = "dealer_overflow"
      BY <1>2, <1>5, <3>1, EndOfGameType
    <3>3. QED
      BY <3>2 DEF TurnTold
  <2>2. fault' = "none" => <<TurnNtf>> \in Seq(RoundNtf)
    BY <2>1, TurnNtfType, OnePacket
  <2>3. Push(userList, <<TurnNtf>>)
    BY <1>5 DEF ViewTurnTimeout
  <2>4. QED
    BY <1>1, <2>2, <2>3, PushGame
<1>6. QED
  BY <1>4, <1>5 DEF ViewTurnTimeout, TurnTimeout

-----------------------------------------------------------------------------
(***************************************************************************)
(* What the screen and the packets under way say of the seats, together,   *)
(* is what the room says, from the answer to the observer's request for    *)
(* the user list on; before it they say of no free seat that it is taken.  *)
(* Once the observer has lost its seat a packet that says so is under way. *)
(***************************************************************************)

HasList(w) == \E n \in 1 .. Len(w) : w[n].id = "LIST"

\* A list names the observer's seat.
ListsName(ul, w) == \A n \in 1 .. Len(w) : w[n].id = "LIST" => ul[w[n].slot] = Observer

\* sc is the screen, w the wire, ul the seats of a room the observer sits in.
Present(ul, w, sc) ==
  /\ \A s \in Seats : Will(w, sc.view, s) => ul[s] # NoUser
  /\ HasList(w) \/ sc.scene = "game" =>
       \A s \in Seats : ul[s] # NoUser => Will(w, sc.view, s)
  /\ sc.scene = "game" => ul[sc.slot] = Observer
  /\ ListsName(ul, w)

\* The observer has lost its seat.
Absent(w, sc) ==
  /\ sc.scene = "game" => \E n \in 1 .. Len(w) : w[n] = LeaveNtf(sc.slot)
  /\ \A n \in 1 .. Len(w) : w[n].id = "LIST" =>
       \E m \in (n + 1) .. Len(w) : w[m] = LeaveNtf(w[n].slot)

Live == screen.scene \in {"login", "scene", "game"}

SeatsInv ==
  fault = "none" =>
    /\ screen.scene = "off" => Observer \notin connected
    /\ Live => /\ Observer \in connected
               /\ Observer \in Seated(userList) => Present(userList, wire, screen)
               /\ Observer \notin Seated(userList) => Absent(wire, screen)

\* The lists of two sequences of packets
LEMMA ConcatLists ==
  ASSUME NEW w \in Seq(Packet), NEW q \in Seq(Packet), NEW ul
  PROVE  /\ HasList(w \o q) <=> HasList(w) \/ HasList(q)
         /\ ListsName(ul, w \o q) <=> ListsName(ul, w) /\ ListsName(ul, q)
<1> DEFINE a == Len(w)
           b == Len(q)
           c == w \o q
<1>1. a \in Nat /\ b \in Nat /\ Len(c) = a + b
  BY ConcatMembers
<1>2. \A n \in 1 .. a : n \in 1 .. (a + b) /\ c[n] = w[n]
  BY ConcatMembers
<1>3. \A n \in 1 .. b : (a + n) \in 1 .. (a + b) /\ c[a + n] = q[n]
  BY ConcatMembers
<1>4. \A n \in 1 .. (a + b) : n \in 1 .. a \/ \E k \in 1 .. b : n = a + k
  BY ConcatMembers
<1> HIDE DEF c
<1>5. HasList(c) => HasList(w) \/ HasList(q)
  <2> SUFFICES ASSUME NEW n \in 1 .. (a + b), c[n].id = "LIST" PROVE HasList(w) \/ HasList(q)
    BY <1>1 DEF HasList
  <2>1. CASE n \in 1 .. a
    BY <1>2, <2>1 DEF HasList
  <2>2. ASSUME NEW k \in 1 .. b, n = a + k PROVE HasList(q)
    BY <1>3, <2>2 DEF HasList
  <2>3. QED
    BY <1>4, <2>1, <2>2
<1>6. HasList(w) \/ HasList(q) => HasList(c)
  BY <1>1, <1>2, <1>3 DEF HasList
<1>7. ASSUME ListsName(ul, w), ListsName(ul, q), NEW n \in 1 .. (a + b), c[n].id = "LIST"
      PROVE  ul[c[n].slot] = Observer
  <2>1. CASE n \in 1 .. a
    BY <1>2, <1>7, <2>1 DEF ListsName
  <2>2. ASSUME NEW k \in 1 .. b, n = a + k PROVE ul[c[n].slot] = Observer
    BY <1>3, <1>7, <2>2 DEF ListsName
  <2>3. QED
    BY <1>4, <2>1, <2>2
<1>8. ListsName(ul, c) => ListsName(ul, w) /\ ListsName(ul, q)
  BY <1>1, <1>2, <1>3 DEF ListsName
<1>9. QED
  BY <1>1, <1>5, <1>6, <1>7, <1>8 DEF ListsName, c

\* What will be shown after more packets
LEMMA WillAfter ==
  ASSUME NEW w \in Seq(Packet), NEW q \in Seq(Packet), NEW view, NEW s
  PROVE  Will(w \o q, view, s) <=> LastSays(q, s) \/ (Silent(q, s) /\ Will(w, view, s))
BY ConcatSays DEF Will

\* Packets that say what becomes of the seats keep screen and room together.
LEMMA PushPresent ==
  ASSUME NEW ul, NEW new, NEW w \in Seq(Packet), NEW q \in Seq(Packet), NEW sc,
         Present(ul, w, sc), sc.slot \in Seats,
         \A s \in Seats : LastSays(q, s) => new[s] # NoUser,
         \A s \in Seats : ~ Silent(q, s) /\ new[s] # NoUser => LastSays(q, s),
         \A s \in Seats : Silent(q, s) => (new[s] # NoUser <=> ul[s] # NoUser),
         HasList(q) => \A s \in Seats : new[s] # NoUser => LastSays(q, s),
         ListsName(new, q),
         \A s \in Seats : ul[s] = Observer => new[s] = Observer
  PROVE  Present(new, w \o q, sc)
<1> DEFINE c == w \o q
<1>1. \A s \in Seats : Will(c, sc.view, s) <=>
                         LastSays(q, s) \/ (Silent(q, s) /\ Will(w, sc.view, s))
  BY WillAfter
<1>2. /\ HasList(c) <=> HasList(w) \/ HasList(q)
      /\ ListsName(new, c) <=> ListsName(new, w) /\ ListsName(new, q)
  BY ConcatLists
<1> HIDE DEF c
<1>3. ASSUME NEW s \in Seats, Will(c, sc.view, s) PROVE new[s] # NoUser
  BY <1>1, <1>3 DEF Present
<1>4. ASSUME HasList(c) \/ sc.scene = "game", NEW s \in Seats, new[s] # NoUser
      PROVE  Will(c, sc.view, s)
  BY <1>1, <1>2, <1>4 DEF Present
<1>5. sc.scene = "game" => new[sc.slot] = Observer
  BY DEF Present
<1>6. ListsName(new, w)
  <2> SUFFICES ASSUME NEW n \in 1 .. Len(w), w[n].id = "LIST" PROVE new[w[n].slot] = Observer
    BY DEF ListsName
  <2>1. w[n] \in Packet
    BY ElementOfSeq
  <2>2. w[n].slot \in Seats
    BY <2>1, PacketType
  <2>3. QED
    BY <2>2 DEF Present, ListsName
<1>7. QED
  BY <1>2, <1>3, <1>4, <1>5, <1>6 DEF Present, c

\* Packets of a game keep them together.
LEMMA GamePresent ==
  ASSUME NEW ul, NEW w \in Seq(Packet), NEW q \in Seq(GameNtf), NEW sc,
         Present(ul, w, sc), sc.slot \in Seats
  PROVE  Present(ul, w \o q, sc)
<1>1. q \in Seq(Packet) /\ \A s : ~ LastSays(q, s) /\ Silent(q, s)
  BY GameSays
<1>2. \A n \in 1 .. Len(q) : q[n] \in GameNtf
  BY ElementOfSeq
<1>3. ~ HasList(q) /\ ListsName(ul, q)
  BY <1>2, GameNtfSilent DEF HasList, ListsName
<1>4. QED
  BY <1>1, <1>3, PushPresent

\* The packet that tells the observer of its own leaving stays on the wire.
LEMMA PushAbsent ==
  ASSUME NEW w \in Seq(Packet), NEW q \in Seq(Packet), NEW sc, Absent(w, sc), ~ HasList(q)
  PROVE  Absent(w \o q, sc)
<1> DEFINE a == Len(w)
           b == Len(q)
           c == w \o q
<1>1. a \in Nat /\ b \in Nat /\ Len(c) = a + b
  BY ConcatMembers
<1>2. \A n \in 1 .. a : n \in 1 .. (a + b) /\ c[n] = w[n]
  BY ConcatMembers
<1>3. \A n \in 1 .. b : (a + n) \in 1 .. (a + b) /\ c[a + n] = q[n]
  BY ConcatMembers
<1>4. \A n \in 1 .. (a + b) : n \in 1 .. a \/ \E k \in 1 .. b : n = a + k
  BY ConcatMembers
<1> HIDE DEF c
<1>5. sc.scene = "game" => \E n \in 1 .. (a + b) : c[n] = LeaveNtf(sc.slot)
  BY <1>2 DEF Absent
<1>6. ASSUME NEW n \in 1 .. (a + b), c[n].id = "LIST"
      PROVE  \E m \in (n + 1) .. (a + b) : c[m] = LeaveNtf(c[n].slot)
  <2>1. n \in 1 .. a
    BY <1>3, <1>4, <1>6 DEF HasList
  <2>2. c[n] = w[n]
    BY <1>2, <2>1
  <2>3. PICK m \in (n + 1) .. a : w[m] = LeaveNtf(w[n].slot)
    BY <1>6, <2>1, <2>2 DEF Absent
  <2>4. m \in 1 .. a /\ m \in (n + 1) .. (a + b)
    BY <1>1, <2>1
  <2>5. c[m] = LeaveNtf(c[n].slot)
    BY <1>2, <2>2, <2>3, <2>4
  <2>6. QED
    BY <2>4, <2>5
<1>7. QED
  BY <1>1, <1>5, <1>6 DEF Absent, c

\* A player who loses its seat is told so after everything else.
LEMMA PushOwnLeave ==
  ASSUME NEW ul, NEW w \in Seq(Packet), NEW q \in Seq(Packet), NEW sc, Present(ul, w, sc),
         sc.slot \in Seats, ~ HasList(q),
         \A s \in Seats : ul[s] = Observer => \E n \in 1 .. Len(q) : q[n] = LeaveNtf(s)
  PROVE  Absent(w \o q, sc)
<1> DEFINE a == Len(w)
           b == Len(q)
           c == w \o q
<1>1. a \in Nat /\ b \in Nat /\ Len(c) = a + b
  BY ConcatMembers
<1>2. \A n \in 1 .. a : n \in 1 .. (a + b) /\ c[n] = w[n]
  BY ConcatMembers
<1>3. \A n \in 1 .. b : (a + n) \in 1 .. (a + b) /\ c[a + n] = q[n]
  BY ConcatMembers
<1>4. \A n \in 1 .. (a + b) : n \in 1 .. a \/ \E k \in 1 .. b : n = a + k
  BY ConcatMembers
<1> HIDE DEF c
<1>5. ASSUME NEW s \in Seats, ul[s] = Observer
      PROVE  \E k \in 1 .. b : (a + k) \in 1 .. (a + b) /\ c[a + k] = LeaveNtf(s)
  BY <1>3, <1>5
<1>6. sc.scene = "game" => \E n \in 1 .. (a + b) : c[n] = LeaveNtf(sc.slot)
  BY <1>5 DEF Present
<1>7. ASSUME NEW n \in 1 .. (a + b), c[n].id = "LIST"
      PROVE  \E m \in (n + 1) .. (a + b) : c[m] = LeaveNtf(c[n].slot)
  <2>1. n \in 1 .. a
    BY <1>3, <1>4, <1>7 DEF HasList
  <2>2. c[n] = w[n] /\ w[n].slot \in Seats
    BY <1>2, <1>7, <2>1, ElementOfSeq, PacketType
  <2>3. ul[w[n].slot] = Observer
    BY <1>7, <2>1, <2>2 DEF Present, ListsName
  <2>4. PICK k \in 1 .. b : (a + k) \in 1 .. (a + b) /\ c[a + k] = LeaveNtf(w[n].slot)
    BY <1>5, <2>2, <2>3
  <2>5. (a + k) \in (n + 1) .. (a + b)
    BY <1>1, <2>1
  <2>6. QED
    BY <2>2, <2>4, <2>5
<1>8. QED
  BY <1>1, <1>6, <1>7 DEF Absent, c

-----------------------------------------------------------------------------
(* Those who are kicked                                                    *)

\* The seats whose players are kicked and of whom the observer hears
Heard(ul, us) == {s \in Seats : /\ ul[s] \in Kicked(ul, us)
                                /\ Observer \in Kicked(ul, us) => s <= SeatOf(ul, Observer)}

\* The packets of SetRoomStateToWaiting
LEMMA LeaveNtfsSay ==
  ASSUME NEW ul, NEW us
  PROVE  /\ LeaveNtfs(ul, us) \in Seq(Packet)
         /\ ~ HasList(LeaveNtfs(ul, us)) /\ ListsName(ul, LeaveNtfs(ul, us))
         /\ \A s \in Seats : /\ ~ LastSays(LeaveNtfs(ul, us), s)
                             /\ Silent(LeaveNtfs(ul, us), s) <=> s \notin Heard(ul, us)
         /\ \A s \in Heard(ul, us) :
              \E n \in 1 .. Len(LeaveNtfs(ul, us)) : LeaveNtfs(ul, us)[n] = LeaveNtf(s)
         /\ \A n \in 1 .. Len(LeaveNtfs(ul, us)) : LeaveNtfs(ul, us)[n].id = "LEAVE"
<1> DEFINE heard == Heard(ul, us)
           order == InOrder(heard)
           q == [n \in DOMAIN order |-> LeaveNtf(order[n])]
<1>1. heard = {s \in {t \in Seats : ul[t] \in Kicked(ul, us)} :
                 Observer \in Kicked(ul, us) => s <= SeatOf(ul, Observer)}
  BY DEF Heard
<1>2. LeaveNtfs(ul, us) = q
  BY <1>1, Zenon DEF LeaveNtfs
<1>3. heard \in SUBSET Seats
  BY DEF Heard
<1> HIDE DEF heard
<1>4. order \in Seq(heard) /\ \A s \in heard : \E n \in 1 .. Len(order) : order[n] = s
  BY <1>3, InOrderSeats
<1>5. /\ order \in Seq(Seats) /\ DOMAIN order = 1 .. Len(order)
      /\ \A n \in DOMAIN order : order[n] \in heard /\ order[n] \in Seats
  BY <1>3, <1>4, SeqMonotonic, LenProperties, ElementOfSeq
<1> HIDE DEF order
<1>6. \A n \in DOMAIN order : q[n] = LeaveNtf(order[n]) /\ q[n] \in Packet
  BY <1>5 DEF LeaveNtf, Packet, LeaveRes
<1>7. q \in Seq(Packet) /\ Len(q) = Len(order)
  BY <1>5, <1>6, ForEachSeat
<1> HIDE DEF q
<1>8. \A n \in 1 .. Len(q) : q[n].id = "LEAVE" /\ q[n].slot = order[n] /\ order[n] \in heard
  <2> TAKE n \in 1 .. Len(q)
  <2>1. n \in DOMAIN order
    BY <1>5, <1>7
  <2>2. q[n] = [id |-> "LEAVE", slot |-> order[n]] /\ order[n] \in heard
    BY <1>5, <1>6, <2>1 DEF LeaveNtf
  <2>3. QED
    BY <2>2
<1>9. ~ HasList(q) /\ ListsName(ul, q)
  BY <1>8 DEF HasList, ListsName
<1>10. ASSUME NEW s \in Seats PROVE ~ LastSays(q, s) /\ (Silent(q, s) <=> s \notin heard)
  <2>1. ~ LastSays(q, s)
    BY <1>8 DEF LastSays
  <2>2. \A n \in 1 .. Len(q) : Says(q[n], s) <=> order[n] = s
    BY <1>8 DEF Says
  <2>3. s \in heard => \E n \in 1 .. Len(q) : order[n] = s
    BY <1>4, <1>7
  <2>4. Silent(q, s) <=> s \notin heard
    BY <1>8, <2>2, <2>3 DEF Silent
  <2>5. QED
    BY <2>1, <2>4
<1>11. ASSUME NEW s \in heard PROVE \E n \in 1 .. Len(q) : q[n] = LeaveNtf(s)
  <2>1. PICK n \in 1 .. Len(q) : order[n] = s
    BY <1>4, <1>7
  <2>2. q[n] = LeaveNtf(s)
    BY <1>5, <1>6, <1>7, <2>1
  <2>3. QED
    BY <2>2
<1>12. QED
  BY <1>2, <1>7, <1>8, <1>9, <1>10, <1>11 DEF heard

\* A kicked observer hears of its own seat; one who stays hears of them all.
LEMMA HeardOfAll ==
  ASSUME NEW ul, NEW us, Observer \in Seated(ul), OneSeatEach(ul)
  PROVE  /\ Observer \in Kicked(ul, us) =>
              \A s \in Seats : ul[s] = Observer => s \in Heard(ul, us)
         /\ Observer \notin Kicked(ul, us) =>
              Heard(ul, us) = {s \in Seats : ul[s] \in Kicked(ul, us)}
<1>1. ASSUME Observer \in Kicked(ul, us), NEW s \in Seats, ul[s] = Observer
      PROVE  s \in Heard(ul, us)
  <2>1. SeatOf(ul, Observer) \in Seats /\ ul[SeatOf(ul, Observer)] = Observer
    BY SeatOfSeated
  <2>2. Observer # NoUser
    BY ObserverAssumption, UsersAssumption
  <2>3. s = SeatOf(ul, Observer)
    BY <1>1, <2>1, <2>2 DEF OneSeatEach
  <2>4. s <= SeatOf(ul, Observer)
    BY <2>3, SeatsFinite
  <2>5. QED
    BY <1>1, <2>4 DEF Heard
<1>2. QED
  BY <1>1 DEF Heard

\* What follows those who are kicked: was says who sat in the room when the
\* packets w were pushed, new who sits there now.
LEMMA KickedTold ==
  ASSUME NEW ul, NEW us, NEW was, NEW w \in Seq(Packet), NEW sc, sc.slot \in Seats,
         Present(was, w, sc), Observer \in Seated(ul), OneSeatEach(ul),
         \A s \in Seats : was[s] = Observer <=> ul[s] = Observer,
         NEW new, new = [s \in Seats |-> IF ul[s] \in Kicked(ul, us) THEN NoUser ELSE was[s]]
  PROVE  /\ Observer \in Seated(new) => Present(new, w \o LeaveNtfs(ul, us), sc)
         /\ Observer \notin Seated(new) => Absent(w \o LeaveNtfs(ul, us), sc)
<1> DEFINE q == LeaveNtfs(ul, us)
           out == Kicked(ul, us)
<1>1. /\ q \in Seq(Packet) /\ ~ HasList(q) /\ ListsName(ul, q)
      /\ \A s \in Seats : ~ LastSays(q, s) /\ (Silent(q, s) <=> s \notin Heard(ul, us))
      /\ \A s \in Heard(ul, us) : \E n \in 1 .. Len(q) : q[n] = LeaveNtf(s)
  BY LeaveNtfsSay
<1>2. Observer # NoUser /\ out \subseteq Seated(ul)
  BY ObserverAssumption, UsersAssumption DEF Kicked
<1>3. Observer \in Seated(new) <=> Observer \notin out
  <2>1. PICK s \in Seats : ul[s] = Observer
    BY DEF Seated
  <2>2. new[s] = IF Observer \in out THEN NoUser ELSE Observer
    BY <2>1
  <2>3. Observer \in Seated(new) => \E t \in Seats : new[t] = Observer
    BY DEF Seated
  <2>4. \A t \in Seats : new[t] = Observer => Observer \notin out
    BY <1>2
  <2>5. QED
    BY <1>2, <2>2, <2>3, <2>4 DEF Seated
<1> HIDE DEF q, out
<1>4. CASE Observer \notin out
  <2>1. Heard(ul, us) = {s \in Seats : ul[s] \in out}
    BY <1>4, HeardOfAll DEF out
  <2>2. \A s \in Seats : ~ Silent(q, s) => new[s] = NoUser
    BY <1>1, <2>1 DEF out
  <2>3. \A s \in Seats : Silent(q, s) => new[s] = was[s]
    BY <1>1, <2>1 DEF out
  <2>4. \A s \in Seats : was[s] = Observer => new[s] = Observer
    BY <1>4 DEF out
  <2>5. ListsName(new, q)
    BY <1>1 DEF HasList, ListsName
  <2>6. Present(new, w \o q, sc)
    BY <1>1, <2>2, <2>3, <2>4, <2>5, PushPresent
  <2>7. QED
    BY <1>3, <1>4, <2>6 DEF q
<1>5. CASE Observer \in out
  <2>1. \A s \in Seats : was[s] = Observer => s \in Heard(ul, us)
    BY <1>5, HeardOfAll DEF out
  <2>2. Absent(w \o q, sc)
    BY <1>1, <2>1, PushOwnLeave
  <2>3. QED
    BY <1>3, <1>5, <2>2 DEF q
<1>6. QED
  BY <1>4, <1>5

\* A user who enters, once the others have been kicked
LEMMA EnteredTold ==
  ASSUME NEW ul, NEW w \in Seq(Packet), NEW sc, sc.slot \in Seats, NEW seat \in Seats,
         ul \in [Seats -> Users \cup {NoUser}], ul[seat] = NoUser, NEW u \in Users, NEW p \in EnterRes,
         p.slot = seat, NEW new, new = [ul EXCEPT ![seat] = u]
  PROVE  /\ <<p>> \in Seq(Packet) /\ ~ HasList(<<p>>)
         /\ Present(ul, w, sc) => Present(new, w \o <<p>>, sc)
         /\ Absent(w, sc) => Absent(w \o <<p>>, sc)
<1>1. p.id = "ENTER" /\ p \in Packet
  BY DEF EnterRes, Packet
<1>2. <<p>> \in Seq(Packet) /\ Len(<<p>>) = 1 /\ <<p>>[1] = p
  BY <1>1, OnePacket
<1>3. ~ HasList(<<p>>) /\ ListsName(new, <<p>>)
  BY <1>1, <1>2 DEF HasList, ListsName
<1>4. \A s : /\ LastSays(<<p>>, s) <=> s = seat
             /\ Silent(<<p>>, s) <=> s # seat
  BY <1>1, OneSays DEF Says
<1>5. u # NoUser /\ new[seat] = u /\ \A s \in Seats : s # seat => new[s] = ul[s]
  BY UsersAssumption
<1>6. Observer # NoUser
  BY ObserverAssumption, UsersAssumption
<1>7. ASSUME Present(ul, w, sc) PROVE Present(new, w \o <<p>>, sc)
  <2>1. \A s \in Seats : ul[s] = Observer => new[s] = Observer
    BY <1>5, <1>6
  <2>2. \A s \in Seats : LastSays(<<p>>, s) => new[s] # NoUser
    BY <1>4, <1>5
  <2>3. \A s \in Seats : ~ Silent(<<p>>, s) /\ new[s] # NoUser => LastSays(<<p>>, s)
    BY <1>4
  <2>4. \A s \in Seats : Silent(<<p>>, s) => (new[s] # NoUser <=> ul[s] # NoUser)
    BY <1>4, <1>5
  <2>5. QED
    BY <1>2, <1>3, <1>7, <2>1, <2>2, <2>3, <2>4, PushPresent
<1>8. QED
  BY <1>2, <1>3, <1>7, PushAbsent

-----------------------------------------------------------------------------
(* The handlers of the room, as the observer is told of them               *)

\* Screen with the settlements that wait
FullScreen == [scene : Scenes, view : [Seats -> PlayerNode], slot : Seats, slider : BOOLEAN,
               late : UNION {[S -> Int] : S \in SUBSET Seats}, misled : [Seats -> SUBSET Causes]]

ViewOK == /\ TypeOK
          /\ wire \in Seq(Packet)
          /\ screen \in FullScreen
          /\ asked \subseteq connected
          /\ bid \subseteq Bets

SeatsTold == /\ Observer \in Seated(userList) => Present(userList, wire, screen)
             /\ Observer \notin Seated(userList) => Absent(wire, screen)

\* A step of a game
LEMMA GameTold ==
  ASSUME ViewOK, GamePush, userList' = userList, screen' = screen
  PROVE  wire' \in Seq(Packet) /\ (SeatsTold => SeatsTold')
<1>1. CASE wire' = wire
  BY <1>1 DEF ViewOK, SeatsTold
<1>2. ASSUME NEW q \in Seq(GameNtf), wire' = wire \o q
      PROVE  wire' \in Seq(Packet) /\ (SeatsTold => SeatsTold')
  <2>1. wire \in Seq(Packet) /\ screen.slot \in Seats
    BY DEF ViewOK, FullScreen
  <2>2. q \in Seq(Packet) /\ ~ HasList(q)
    BY GameSays, ElementOfSeq, GameNtfSilent DEF HasList
  <2>3. wire \o q \in Seq(Packet)
    BY <2>1, <2>2, ConcatMembers
  <2>4. Present(userList, wire, screen) => Present(userList, wire \o q, screen)
    BY <2>1, GamePresent
  <2>5. Absent(wire, screen) => Absent(wire \o q, screen)
    BY <2>1, <2>2, PushAbsent
  <2>6. QED
    BY <1>2, <2>3, <2>4, <2>5 DEF SeatsTold
<1>3. Seq(RoundNtf) \subseteq Seq(GameNtf)
  BY SeqMonotonic DEF RoundNtf
<1>4. QED
  BY <1>1, <1>2, <1>3 DEF GamePush

\* More packets of a game after others
LEMMA MoreOfGame ==
  ASSUME NEW w \in Seq(Packet), NEW k \in Seq(Packet), NEW g \in Seq(GameNtf), NEW ul, NEW sc,
         sc.slot \in Seats
  PROVE  /\ w \o (k \o g) \in Seq(Packet)
         /\ Present(ul, w \o k, sc) => Present(ul, w \o (k \o g), sc)
         /\ Absent(w \o k, sc) => Absent(w \o (k \o g), sc)
<1>1. g \in Seq(Packet) /\ ~ HasList(g)
  BY GameSays, ElementOfSeq, GameNtfSilent DEF HasList
<1>2. w \o k \in Seq(Packet) /\ k \o g \in Seq(Packet) /\ (w \o k) \o g \in Seq(Packet)
  BY <1>1, ConcatMembers
<1>3. (w \o k) \o g = w \o (k \o g)
  BY <1>1, ConcatAssociative
<1>4. Present(ul, w \o k, sc) => Present(ul, (w \o k) \o g, sc)
  BY <1>2, GamePresent
<1>5. Absent(w \o k, sc) => Absent((w \o k) \o g, sc)
  BY <1>1, <1>2, PushAbsent
<1>6. QED
  BY <1>2, <1>3, <1>4, <1>5

\* The room waits for bets again: some are kicked, the counter follows.
LEMMA RestartTold ==
  ASSUME ViewOK, TypeOK', RoomInv, fault = "none", ViewRestartTimeout
  PROVE  wire' \in Seq(Packet) /\ (SeatsTold => SeatsTold')
<1> DEFINE k == LeaveNtfs(userList, user)
           g == IF Observer \in Seated(userList') THEN <<CounterNtf(user')>> ELSE <<>>
<1>1. /\ userList' = [s \in Seats |-> IF userList[s] \in Kicked(userList, user) THEN NoUser
                                       ELSE userList[s]]
      /\ fault' = "none" /\ screen' = screen /\ Push(userList, k \o g)
  BY DEF ViewRestartTimeout, RestartTimeout, SetRoomStateToWaiting
<1>2. wire \in Seq(Packet) /\ screen.slot \in Seats /\ k \in Seq(Packet)
  BY LeaveNtfsSay DEF ViewOK, FullScreen
<1>3. g \in Seq(GameNtf)
  <2>1. user'[Observer].gameState \in GameStates
    BY ObserverAssumption DEF TypeOK, UserRecord
  <2>2. CounterNtf(user') \in GameNtf
    BY <2>1, GameNtfTypes DEF CounterNtf
  <2>3. <<CounterNtf(user')>> \in Seq(GameNtf) /\ <<>> \in Seq(GameNtf)
    BY <2>2, OnePacket, EmptySeq
  <2>4. QED
    BY <2>3
<1>4. OneSeatEach(userList)
  BY DEF RoomInv, SeatsCounted, OneSeatEach
<1> HIDE DEF g
<1>5. CASE Observer \in Seated(userList)
  <2>1. wire' = wire \o (k \o g)
    BY <1>1, <1>5 DEF Push
  <2>2. Present(userList, wire, screen) =>
          /\ Observer \in Seated(userList') => Present(userList', wire \o k, screen)
          /\ Observer \notin Seated(userList') => Absent(wire \o k, screen)
    BY <1>1, <1>2, <1>4, <1>5, KickedTold
  <2>3. /\ wire \o (k \o g) \in Seq(Packet)
        /\ Present(userList', wire \o k, screen) => Present(userList', wire \o (k \o g), screen)
        /\ Absent(wire \o k, screen) => Absent(wire \o (k \o g), screen)
    BY <1>2, <1>3, MoreOfGame
  <2>4. QED
    BY <1>1, <1>5, <2>1, <2>2, <2>3 DEF SeatsTold
<1>6. CASE Observer \notin Seated(userList)
  <2>1. wire' = wire
    BY <1>1, <1>6 DEF Push
  <2>2. Observer \notin Seated(userList')
    BY <1>1, <1>6 DEF Seated
  <2>3. QED
    BY <1>1, <1>2, <1>6, <2>1, <2>2 DEF SeatsTold
<1>7. QED
  BY <1>5, <1>6

\* Another user enters: some may be kicked, the others hear of the new one.
LEMMA EnterTold ==
  ASSUME ViewOK, TypeOK', RoomInv, fault = "none", NEW u \in Users, u # Observer, ViewEnter(u)
  PROVE  wire' \in Seq(Packet) /\ (fault' = "none" /\ SeatsTold => SeatsTold')
<1> DEFINE seat == First({s \in Seats : userList[s] = NoUser})
           ul   == [userList EXCEPT ![seat] = u]
           us   == [user EXCEPT ![u] = LoggedIn(user[u], chip[u])]
           out  == Kicked(ul, us)
           p    == [id |-> "ENTER", slot |-> SeatOf(ul, u), user |-> UserInfo(user'[u])]
           mid  == [s \in Seats |-> IF ul[s] \in out THEN NoUser ELSE userList[s]]
<1>1. EnterUser(u) /\ Push(ul, EnterPackets(u, ul, us)) /\ screen' = screen
  BY DEF ViewEnter
<1>2. /\ userList \in [Seats -> Users \cup {NoUser}] /\ OneSeatEach(userList)
      /\ userCount = Cardinality(Occupied(userList)) /\ Seated(userList) \subseteq connected
      /\ SeatingType(userList)
  BY DEF ViewOK, TypeOK, RoomInv, SeatsCounted, OneSeatEach, Occupied, SeatingType
<1>3. seat \in Seats /\ userList[seat] = NoUser /\ u \notin Seated(userList)
  BY <1>1, <1>2, FreeSeat DEF EnterUser
<1> HIDE DEF seat
<1>4. OneSeatEach(ul) /\ ul \in [Seats -> Users \cup {NoUser}] /\ ul[seat] = u /\ u \in Seated(ul)
      /\ Seated(ul) = Seated(userList) \cup {u}
  <2>1. OneSeatEach(ul) /\ Seated(ul) = Seated(userList) \cup {u}
    BY <1>2, <1>3, SeatTaken
  <2>2. QED
    BY <1>2, <1>3, <2>1
<1>5. u # NoUser /\ Observer # NoUser
  BY ObserverAssumption, UsersAssumption
<1>6. SeatOf(ul, u) = seat
  <2>1. SeatOf(ul, u) \in Seats /\ ul[SeatOf(ul, u)] = u
    BY <1>4, SeatOfSeated
  <2>2. QED
    BY <1>3, <1>4, <1>5, <2>1 DEF OneSeatEach
<1>7. p \in EnterRes /\ p.slot = seat
  <2>1. user'[u] \in UserRecord
    BY DEF TypeOK
  <2>2. QED
    BY <1>3, <1>6, <2>1, UserInfoType DEF EnterRes
<1>8. wire \in Seq(Packet) /\ screen.slot \in Seats
  BY DEF ViewOK, FullScreen
<1>9. \A s \in Seats : /\ userList[s] = Observer <=> ul[s] = Observer
                       /\ s # seat => ul[s] = userList[s]
  BY <1>2, <1>3, <1>5
<1>10. Observer \in Seated(ul) <=> Observer \in Seated(userList)
  BY <1>4
<1> HIDE DEF p, ul, us
<1>11. CASE fault' # "none"
  BY <1>1, <1>8, <1>11 DEF Push
<1>12. CASE fault' = "none" /\ roomState \in {"NONE", "WAITING"}
  <2>1. EnterPackets(u, ul, us) = LeaveNtfs(ul, us) \o <<p>>
    BY <1>12 DEF EnterPackets, p
  <2>2. /\ userList' = [s \in Seats |-> IF ul[s] \in out THEN NoUser ELSE ul[s]]
        /\ u \notin out
    BY <1>1, <1>12 DEF EnterUser, SetRoomStateToWaiting, ul, us, seat
  <2>3. mid \in [Seats -> Users \cup {NoUser}] /\ mid[seat] = NoUser
    BY <1>2, <1>3
  <2>4. userList' = [mid EXCEPT ![seat] = u]
    BY <1>3, <1>4, <1>9, <2>2
  <2>5. Observer \in Seated(userList') <=> Observer \in Seated(mid)
    BY <1>3, <1>5, <2>3, <2>4 DEF Seated
  <2>6. LeaveNtfs(ul, us) \in Seq(Packet) /\ wire \o LeaveNtfs(ul, us) \in Seq(Packet)
        /\ <<p>> \in Seq(Packet) /\ ~ HasList(LeaveNtfs(ul, us))
    <3>1. LeaveNtfs(ul, us) \in Seq(Packet) /\ ~ HasList(LeaveNtfs(ul, us))
      BY LeaveNtfsSay
    <3>2. <<p>> \in Seq(Packet)
      BY <1>7, OnePacket DEF Packet
    <3>3. QED
      BY <1>8, <3>1, <3>2, ConcatMembers
  <2> DEFINE k == LeaveNtfs(ul, us)
  <2> HIDE DEF mid, k
  <2>7. (wire \o k) \o <<p>> = wire \o (k \o <<p>>) /\ wire \o (k \o <<p>>) \in Seq(Packet)
    BY <1>8, <2>6, ConcatAssociative, ConcatMembers DEF k
  <2>8. CASE Observer \in Seated(ul)
    <3>1. wire' = wire \o (k \o <<p>>)
      BY <1>1, <1>12, <2>1, <2>8 DEF Push, k
    <3>2. Present(userList, wire, screen) =>
            /\ Observer \in Seated(mid) => Present(mid, wire \o k, screen)
            /\ Observer \notin Seated(mid) => Absent(wire \o k, screen)
      BY <1>4, <1>8, <1>9, <2>8, KickedTold DEF mid, k
    <3>3. /\ Present(mid, wire \o k, screen) => Present(userList', (wire \o k) \o <<p>>, screen)
          /\ Absent(wire \o k, screen) => Absent((wire \o k) \o <<p>>, screen)
      BY <1>3, <1>7, <1>8, <2>3, <2>4, <2>6, EnteredTold DEF k
    <3>4. QED
      BY <1>1, <1>10, <2>5, <2>7, <2>8, <3>1, <3>2, <3>3 DEF SeatsTold
  <2>9. CASE Observer \notin Seated(ul)
    <3>1. wire' = wire
      BY <1>1, <2>9 DEF Push
    <3>2. Observer \notin Seated(userList')
      BY <2>2, <2>9, <1>5 DEF Seated
    <3>3. QED
      BY <1>1, <1>8, <1>10, <2>9, <3>1, <3>2 DEF SeatsTold
  <2>10. QED
    BY <2>8, <2>9
<1>13. CASE fault' = "none" /\ roomState \notin {"NONE", "WAITING"}
  <2>1. userList' = ul /\ ul = [userList EXCEPT ![seat] = u]
    BY <1>1, <1>13 DEF EnterUser, ul, us, seat
  <2>2. <<p>> \in Seq(Packet)
    BY <1>7, OnePacket DEF Packet
  <2>3. EnterPackets(u, ul, us) = <<p>>
    <3>1. EnterPackets(u, ul, us) = <<>> \o <<p>>
      BY <1>13 DEF EnterPackets, p
    <3>2. QED
      BY <2>2, <3>1, ConcatEmptySeq
  <2>4. wire \o <<p>> \in Seq(Packet)
    BY <1>8, <2>2, ConcatMembers
  <2>5. CASE Observer \in Seated(ul)
    <3>1. wire' = wire \o <<p>>
      BY <1>1, <1>13, <2>3, <2>5 DEF Push
    <3>2. Present(userList, wire, screen) => Present(ul, wire \o <<p>>, screen)
      BY <1>2, <1>3, <1>7, <1>8, <2>1, EnteredTold
    <3>3. QED
      BY <1>1, <1>10, <2>1, <2>4, <2>5, <3>1, <3>2 DEF SeatsTold
  <2>6. CASE Observer \notin Seated(ul)
    BY <1>1, <1>8, <1>10, <2>1, <2>6 DEF Push, SeatsTold
  <2>7. QED
    BY <2>5, <2>6
<1>14. QED
  BY <1>11, <1>12, <1>13

\* A session ends: the others hear of the seat, and of the turn passed on.
LEMMA CloseTold ==
  ASSUME ViewOK, TypeOK', RoomInv, NEW u \in Users, u # Observer, ViewClose(u)
  PROVE  wire' \in Seq(Packet) /\ (fault' = "none" /\ SeatsTold => SeatsTold')
<1> DEFINE seat == SeatOf(userList, u)
           k == <<LeaveNtf(seat)>>
           g == IF userCount # 1 /\ OnTurn(u) THEN <<TurnNtf>> ELSE <<>>
           done == [user EXCEPT ![u].gameState = "ACTION_DONE"]
<1>1. CloseSession(u) /\ screen' = screen
  BY DEF ViewClose
<1>2. wire \in Seq(Packet) /\ screen.slot \in Seats
  BY DEF ViewOK, FullScreen
<1>3. CASE u \notin Seated(userList)
  BY <1>1, <1>2, <1>3 DEF ViewClose, CloseSession, SeatsTold
<1>4. CASE u \in Seated(userList)
  <2>1. LeaveRoom(u) /\ userList' = SeatGivenBack(u) /\ Push(userList, k \o g)
    BY <1>1, <1>4 DEF ViewClose, CloseSession, LeaveRoom
  <2>2. seat \in Seats /\ userList[seat] = u /\ u # NoUser /\ Observer # NoUser
    BY <1>4, SeatOfSeated, ObserverAssumption, UsersAssumption
  <2>3. \A s \in Seats : userList'[s] = IF s = seat THEN NoUser ELSE userList[s]
    BY <2>1, <2>2 DEF SeatGivenBack, RoomInv, SeatsCounted
  <2>4. fault' = "none" => g \in Seq(GameNtf)
    <3>1. CASE userCount # 1 /\ OnTurn(u)
      <4>1. NotifyChangeTurn(SeatGivenBack(u), done, chip)
        BY <2>1, <3>1 DEF LeaveRoom
      <4>2. SeatingType(SeatGivenBack(u)) /\ chip \in [Users -> Int] /\ buttons \subseteq Choices
        BY DEF ViewOK, TypeOK, SeatingType, SeatGivenBack
      <4>3. done \in [Users -> UserRecord]
        <5>1. user \in [Users -> UserRecord] /\ user[u] \in UserRecord
          BY DEF ViewOK, TypeOK
        <5>2. [user[u] EXCEPT !.gameState = "ACTION_DONE"] \in UserRecord
          BY <5>1 DEF UserRecord, GameStates
        <5>3. QED
          BY <5>1, <5>2
      <4>4. fault' = "none" => TurnTold
        BY <2>1, <4>1, <4>2, <4>3, ChangeTurnTold
      <4>5. fault' = "none" => TurnNtf \in GameNtf
        BY <4>4, TurnNtfType DEF RoundNtf
      <4>6. QED
        BY <3>1, <4>5, OnePacket
    <3>2. CASE ~ (userCount # 1 /\ OnTurn(u))
      BY <3>2, EmptySeq
    <3>3. QED
      BY <3>1, <3>2
  <2>5. LeaveNtf(seat).id = "LEAVE" /\ LeaveNtf(seat).slot = seat /\ LeaveNtf(seat) \in Packet
    BY <2>2 DEF LeaveNtf, Packet, LeaveRes
  <2>6. k \in Seq(Packet) /\ Len(k) = 1 /\ k[1] = LeaveNtf(seat)
    BY <2>5, OnePacket
  <2>7. \A s : ~ LastSays(k, s) /\ (Silent(k, s) <=> s # seat)
    BY <2>5, OneSays DEF Says
  <2>8. ~ HasList(k) /\ ListsName(userList', k)
    BY <2>5, <2>6 DEF HasList, ListsName
  <2> HIDE DEF k, g, seat
  <2>9. Present(userList, wire, screen) => Present(userList', wire \o k, screen)
    <3>1. \A s \in Seats : userList[s] = Observer => userList'[s] = Observer
      BY <2>2, <2>3
    <3>2. \A s \in Seats : ~ Silent(k, s) => userList'[s] = NoUser
      BY <2>3, <2>7
    <3>3. \A s \in Seats : Silent(k, s) => userList'[s] = userList[s]
      BY <2>3, <2>7
    <3>4. QED
      BY <1>2, <2>6, <2>7, <2>8, <3>1, <3>2, <3>3, PushPresent
  <2>10. Observer \in Seated(userList') <=> Observer \in Seated(userList)
    <3>1. \A s \in Seats : userList'[s] = Observer <=> userList[s] = Observer
      BY <2>2, <2>3
    <3>2. QED
      BY <2>2, <3>1 DEF Seated
  <2>11. CASE fault' = "none" /\ Observer \in Seated(userList)
    <3>1. wire' = wire \o (k \o g)
      BY <2>1, <2>11 DEF Push
    <3>2. /\ wire \o (k \o g) \in Seq(Packet)
          /\ Present(userList', wire \o k, screen) => Present(userList', wire \o (k \o g), screen)
      BY <1>2, <2>4, <2>6, <2>11, MoreOfGame
    <3>3. QED
      BY <1>1, <2>9, <2>10, <2>11, <3>1, <3>2 DEF SeatsTold
  <2>12. CASE fault' # "none" \/ Observer \notin Seated(userList)
    BY <1>1, <1>2, <2>1, <2>10, <2>12 DEF Push, SeatsTold
  <2>13. QED
    BY <2>11, <2>12
<1>5. QED
  BY <1>3, <1>4

\* The observer enters: nothing that is said before the list claims a seat.
LEMMA OwnEntry ==
  ASSUME ViewOK, RoomInv, ViewEnter(Observer)
  PROVE  /\ wire' \in Seq(Packet) /\ screen' = Blank("login")
         /\ fault' = "none" => SeatsTold'
<1> DEFINE seat == First({s \in Seats : userList[s] = NoUser})
           ul   == [userList EXCEPT ![seat] = Observer]
           us   == [user EXCEPT ![Observer] = LoggedIn(user[Observer], chip[Observer])]
           e    == [id |-> "ENTER_RES"]
           k    == IF roomState \in {"NONE", "WAITING"} THEN LeaveNtfs(ul, us) ELSE <<>>
           sc   == Blank("login")
<1>1. /\ EnterUser(Observer) /\ screen' = sc
      /\ wire' = IF fault' = "none" THEN k \o <<e>> ELSE <<>>
  BY DEF ViewEnter, EnterPackets
<1>2. Observer # NoUser /\ Observer \in Users
  BY ObserverAssumption, UsersAssumption
<1>3. seat \in Seats /\ userList[seat] = NoUser
  BY <1>1, FreeSeat DEF EnterUser, ViewOK, TypeOK, RoomInv, SeatsCounted, SeatingType, Occupied
<1>4. ul[seat] = Observer
  BY <1>3 DEF ViewOK, TypeOK
<1>5. fault' = "none" => Observer \in Seated(userList')
  <2>1. CASE SetRoomStateToWaiting(ul, us, userCount + 1)
              /\ fault' = IF Observer \in Kicked(ul, us) THEN "null_room" ELSE fault
    <3>1. fault' = "none" => Observer \notin Kicked(ul, us)
      BY <2>1
    <3>2. userList' = [s \in Seats |-> IF ul[s] \in Kicked(ul, us) THEN NoUser ELSE ul[s]]
      BY <2>1 DEF SetRoomStateToWaiting
    <3>3. fault' = "none" => userList'[seat] = Observer
      BY <1>3, <1>4, <3>1, <3>2
    <3>4. QED
      BY <1>2, <1>3, <3>3 DEF Seated
  <2>2. CASE userList' = ul
    BY <1>2, <1>3, <1>4, <2>2 DEF Seated
  <2>3. QED
    BY <1>1, <2>1, <2>2 DEF EnterUser
<1> HIDE DEF seat
<1>6. k \in Seq(Packet) /\ ~ HasList(k) /\ \A s \in Seats : ~ LastSays(k, s)
  <2>1. CASE k = LeaveNtfs(ul, us)
    BY <2>1, LeaveNtfsSay
  <2>2. CASE k = <<>>
    <3>1. <<>> \in Seq(Packet) /\ Len(<<>>) = 0 /\ 1 .. 0 = {}
      BY EmptySeq
    <3>2. ~ HasList(<<>>) /\ \A s \in Seats : ~ LastSays(<<>>, s)
      BY <3>1 DEF HasList, LastSays
    <3> HIDE DEF k
    <3>3. QED
      BY <2>2, <3>1, <3>2
  <2>3. QED
    BY <2>1, <2>2
<1>7. e \in Packet /\ e.id = "ENTER_RES" /\ <<e>> \in Seq(Packet) /\ Len(<<e>>) = 1 /\ <<e>>[1] = e
  BY OnePacket DEF Packet
<1> HIDE DEF k, e, ul, us
<1>8. ~ HasList(<<e>>) /\ \A s : ~ LastSays(<<e>>, s)
  BY <1>7, OneSays DEF HasList, Says
<1>9. k \o <<e>> \in Seq(Packet) /\ ~ HasList(k \o <<e>>)
  BY <1>6, <1>7, <1>8, ConcatMembers, ConcatLists
<1>10. \A s \in Seats : ~ LastSays(k \o <<e>>, s)
  BY <1>6, <1>7, <1>8, ConcatSays
<1>11. sc.scene = "login" /\ \A s \in Seats : ~ sc.view[s].on
  BY DEF Blank, EmptyNode
<1>12. Present(userList', k \o <<e>>, sc)
  BY <1>9, <1>10, <1>11 DEF Present, Will, HasList, ListsName
<1>13. <<>> \in Seq(Packet)
  BY EmptySeq
<1>14. wire' \in Seq(Packet)
  BY <1>1, <1>9, <1>13
<1>15. fault' = "none" => SeatsTold'
  BY <1>1, <1>5, <1>12 DEF SeatsTold
<1>16. QED
  BY <1>1, <1>14, <1>15

\* The list says of every seat what it is.
LEMMA ListTold ==
  ASSUME ViewOK, RoomInv, NEW u, UserListReq(u)
  PROVE  wire' \in Seq(Packet) /\ (fault' = "none" /\ SeatsTold => SeatsTold')
<1> DEFINE taken == {t \in Seats : userList[t] # NoUser}
           p == [id |-> "LIST", slot |-> SeatOf(userList, u),
                 users |-> [s \in taken |-> UserInfo(user[userList[s]])]]
           k == IF u # Observer THEN <<>> ELSE <<p>>
           g == IF roomState = "WAITING" /\ Observer \in Seated(userList)
                THEN <<CounterNtf(user)>> ELSE <<>>
<1>1. wire \in Seq(Packet) /\ screen.slot \in Seats /\ screen' = screen /\ userList' = userList
  BY DEF ViewOK, FullScreen, UserListReq, Crash, vars
<1>2. CASE wire' = wire
  BY <1>1, <1>2 DEF SeatsTold
<1>3. CASE u \in Seated(userList) /\ Push(userList, k \o g) /\ Observer \in Seated(userList)
  <2>1. g \in Seq(GameNtf)
    <3>1. user[Observer].gameState \in GameStates
      BY ObserverAssumption DEF ViewOK, TypeOK, UserRecord
    <3>2. CounterNtf(user) \in GameNtf
      BY <3>1, GameNtfTypes DEF CounterNtf
    <3>3. <<CounterNtf(user)>> \in Seq(GameNtf) /\ <<>> \in Seq(GameNtf)
      BY <3>2, OnePacket, EmptySeq
    <3>4. QED
      BY <3>3
  <2> HIDE DEF g
  <2>2. k \in Seq(Packet)
        /\ (Present(userList, wire, screen) => Present(userList, wire \o k, screen))
    <3>1. CASE u # Observer
      BY <1>1, <3>1, EmptySeq, ConcatEmptySeq
    <3>2. CASE u = Observer
      <4>1. SeatOf(userList, u) \in taken /\ userList[SeatOf(userList, u)] = Observer
        BY <1>3, <3>2, SeatOfSeated, ObserverAssumption, UsersAssumption
      <4>2. [s \in taken |-> UserInfo(user[userList[s]])] \in [taken -> UserInfos]
        <5>1. ASSUME NEW s \in taken PROVE UserInfo(user[userList[s]]) \in UserInfos
          BY UserInfoType DEF ViewOK, TypeOK
        <5>2. QED
          BY <5>1
      <4>3. p \in [id : {"LIST"}, slot : taken, users : [taken -> UserInfos]]
        BY <4>1, <4>2
      <4>4. p \in Packet
        <5>1. taken \in SUBSET Seats
          OBVIOUS
        <5>2. p \in ListRes
          BY <4>3, <5>1 DEF ListRes
        <5>3. QED
          BY <5>2 DEF Packet
      <4>5. p.id = "LIST" /\ p.slot = SeatOf(userList, u) /\ DOMAIN p.users = taken
        OBVIOUS
      <4> HIDE DEF p
      <4>6. k = <<p>> /\ k \in Seq(Packet) /\ Len(k) = 1 /\ k[1] = p
        BY <3>2, <4>4, OnePacket
      <4>7. \A s : (LastSays(<<p>>, s) <=> s \in taken) /\ (Silent(<<p>>, s) <=> s \notin taken)
        BY <4>5, OneSays DEF Says
      <4> HIDE DEF k
      <4>8. ListsName(userList, k)
        BY <4>1, <4>5, <4>6 DEF ListsName
      <4>9. \A s \in Seats : LastSays(k, s) <=> userList[s] # NoUser
        BY <4>6, <4>7
      <4>10. \A s \in Seats : Silent(k, s) <=> userList[s] = NoUser
        BY <4>6, <4>7
      <4>11. QED
        BY <1>1, <4>6, <4>8, <4>9, <4>10, PushPresent
    <3>3. QED
      BY <3>1, <3>2
  <2> HIDE DEF k
  <2>3. /\ wire \o (k \o g) \in Seq(Packet)
        /\ Present(userList, wire \o k, screen) => Present(userList, wire \o (k \o g), screen)
    BY <1>1, <2>1, <2>2, MoreOfGame
  <2>4. CASE fault' = "none"
    BY <1>1, <1>3, <2>2, <2>3, <2>4 DEF Push, SeatsTold
  <2>5. QED
    BY <1>1, <1>3, <2>4 DEF Push
<1>4. wire' = wire \/ (u \in Seated(userList) /\ Push(userList, k \o g) /\ Observer \in Seated(userList))
  BY DEF UserListReq, Push
<1>5. QED
  BY <1>2, <1>3, <1>4

-----------------------------------------------------------------------------
(* The client's handlers, as far as they are about who sits where          *)

\* A screen of which it is not known yet whether its cards fit the hands
LooseNode == [on : BOOLEAN, money : Int, bet : Int, cards : [Hands -> Int], top : Hands]
Settlements == UNION {[S -> Int] : S \in SUBSET Seats}
LooseScreen == [scene : Scenes, view : [Seats -> LooseNode], slot : Seats, slider : BOOLEAN,
                late : Settlements, misled : [Seats -> SUBSET Causes]]

\* What the packet p makes of the screen
Follows(p, new) ==
  /\ new \in FullScreen
  /\ \A s \in Seats : new.view[s].on <=> (IF Says(p, s) THEN p.id # "LEAVE"
                                          ELSE screen.view[s].on)
  /\ new.slot = IF p.id = "LIST" THEN p.slot ELSE screen.slot
  /\ new.scene = IF p.id = "LIST" THEN "game"
                 ELSE IF p.id = "ENTER_RES" THEN "scene" ELSE screen.scene

\* A handler leaves the screen it describes, unless a card does not fit.
LEMMA Displayed ==
  ASSUME NEW new \in LooseScreen, Display(new)
  PROVE  Lost \/ (screen' = new /\ new \in FullScreen /\ wire' = Tail(wire))
<1>1. ASSUME Fits(new.view) PROVE new \in FullScreen
  <2>1. new.view \in [Seats -> LooseNode]
    BY DEF LooseScreen
  <2>2. ASSUME NEW s \in Seats PROVE new.view[s] \in PlayerNode
    <3>1. new.view[s] \in LooseNode /\ \A h \in Hands : new.view[s].cards[h] \in 0 .. HandSlots
      BY <1>1, <2>1 DEF Fits
    <3>2. new.view[s].cards \in [Hands -> 0 .. HandSlots]
      BY <3>1 DEF LooseNode
    <3>3. QED
      BY <3>1, <3>2 DEF LooseNode, PlayerNode
  <2>3. new.view \in [Seats -> PlayerNode]
    BY <2>1, <2>2
  <2>4. QED
    BY <2>3 DEF LooseScreen, FullScreen, Settlements
<1>2. QED
  BY <1>1 DEF Display

\* The parts of a screen
LEMMA ScreenParts ==
  ASSUME screen \in FullScreen
  PROVE  /\ screen \in LooseScreen
         /\ screen.view \in [Seats -> LooseNode]
         /\ \A s \in Seats : /\ screen.view[s] \in LooseNode /\ screen.misled[s] \in SUBSET Causes
                             /\ screen.view[s].cards \in [Hands -> Int]
         /\ DOMAIN screen.late \subseteq Seats
<1>1. screen.view \in [Seats -> PlayerNode] /\ screen.misled \in [Seats -> SUBSET Causes]
      /\ screen.late \in Settlements
  BY DEF FullScreen, Settlements
<1>2. ASSUME NEW s \in Seats PROVE screen.view[s] \in LooseNode
  <2>1. screen.view[s] \in PlayerNode
    BY <1>1
  <2>2. screen.view[s].cards \in [Hands -> Int]
    BY <2>1, SlotsAssumption DEF PlayerNode
  <2>3. QED
    BY <2>1, <2>2 DEF PlayerNode, LooseNode
<1>3. screen.view \in [Seats -> LooseNode]
  BY <1>1, <1>2
<1>4. screen \in LooseScreen
  BY <1>3 DEF FullScreen, LooseScreen, Settlements
<1>5. \A s \in Seats : screen.view[s].cards \in [Hands -> Int]
  BY <1>2 DEF LooseNode
<1>6. DOMAIN screen.late \subseteq Seats
  BY <1>1 DEF Settlements
<1>7. QED
  BY <1>1, <1>2, <1>3, <1>4, <1>5, <1>6

\* Causes stay causes.
LEMMA MoneyToldType ==
  ASSUME NEW s, NEW causes \in SUBSET Causes
  PROVE  MoneyTold(s, causes) \in SUBSET Causes
BY DEF MoneyTold, Causes

\* A player who is shown with the information of a packet
LEMMA SeatedAsType ==
  ASSUME NEW node, node.cards \in [Hands -> Int], NEW info \in UserInfos
  PROVE  SeatedAs(node, info) \in LooseNode /\ SeatedAs(node, info).on = TRUE
<1>1. info.cards \in [Hands -> 0 .. HandSlots] /\ info.money \in Int /\ info.bet \in Int
      /\ info.top \in Hands
  BY DEF UserInfos
<1>2. [h \in Hands |-> node.cards[h] + info.cards[h]] \in [Hands -> Int]
  <2>1. ASSUME NEW h \in Hands PROVE node.cards[h] + info.cards[h] \in Int
    <3>1. node.cards[h] \in Int /\ info.cards[h] \in Int
      BY <1>1, SlotsAssumption
    <3>2. QED
      BY <3>1
  <2>2. QED
    BY <2>1
<1>3. QED
  BY <1>1, <1>2 DEF SeatedAs, LooseNode

\* ROOM_ENTER_RES opens the game scene.
LEMMA OpenGameFollows ==
  ASSUME screen \in FullScreen, NEW p, p.id = "ENTER_RES", OpenGameScene
  PROVE  Lost \/ (Follows(p, screen') /\ wire' = Tail(wire))
<1> DEFINE new == [screen EXCEPT !.scene = "scene"]
<1>1. new \in LooseScreen
  BY ScreenParts DEF LooseScreen, Scenes
<1>2. new.view = screen.view /\ new.slot = screen.slot /\ new.scene = "scene"
  BY DEF FullScreen
<1>3. Display(new)
  BY DEF OpenGameScene
<1> HIDE DEF new
<1>4. QED
  BY <1>1, <1>2, <1>3, Displayed DEF Follows, Says

\* The user list
LEMMA ListFollows ==
  ASSUME screen \in FullScreen, NEW p \in Packet, p.id = "LIST", UserListRes(p)
  PROVE  Lost \/ (Follows(p, screen') /\ wire' = Tail(wire))
<1> DEFINE listed == DOMAIN p.users
           view == [s \in Seats |-> IF s \in listed THEN SeatedAs(screen.view[s], p.users[s])
                                    ELSE screen.view[s]]
           misled == [s \in Seats |-> IF s \in listed THEN MoneyTold(s, screen.misled[s])
                                      ELSE screen.misled[s]]
           new == [screen EXCEPT !.scene = "game", !.slot = p.slot, !.view = view,
                                 !.misled = misled]
<1>1. p.slot \in Seats /\ \A s \in listed : p.users[s] \in UserInfos
  BY PacketType
<1>2. \A s \in Seats : /\ screen.view[s] \in LooseNode /\ screen.view[s].cards \in [Hands -> Int]
                       /\ screen.misled[s] \in SUBSET Causes
  BY ScreenParts
<1>3. \A s \in Seats : view[s] \in LooseNode /\ (view[s].on <=> s \in listed \/ screen.view[s].on)
  <2> TAKE s \in Seats
  <2>1. CASE s \in listed
    BY <1>1, <1>2, <2>1, SeatedAsType
  <2>2. CASE s \notin listed
    BY <1>2, <2>2
  <2>3. QED
    BY <2>1, <2>2
<1>4. misled \in [Seats -> SUBSET Causes]
  BY <1>2, MoneyToldType
<1>5. view \in [Seats -> LooseNode]
  BY <1>3
<1>6. Display(new)
  BY DEF UserListRes
<1> HIDE DEF view, misled, listed
<1>7. new \in LooseScreen
  BY <1>1, <1>4, <1>5, ScreenParts DEF LooseScreen, Scenes
<1>8. new.view = view /\ new.slot = p.slot /\ new.scene = "game"
  BY DEF FullScreen
<1> HIDE DEF new
<1>9. \A s : Says(p, s) <=> s \in listed
  BY DEF Says, listed
<1>10. QED
  BY <1>3, <1>6, <1>7, <1>8, <1>9, Displayed DEF Follows

\* A player who enters
LEMMA EnterFollows ==
  ASSUME screen \in FullScreen, NEW p \in EnterRes, EnterUserNtf(p)
  PROVE  Lost \/ (Follows(p, screen') /\ wire' = Tail(wire))
<1> DEFINE node == SeatedAs(screen.view[p.slot], p.user)
           causes == MoneyTold(p.slot, screen.misled[p.slot])
           new == [screen EXCEPT !.view[p.slot] = node, !.misled[p.slot] = causes]
<1>1. p.slot \in Seats /\ p.user \in UserInfos /\ p.id = "ENTER"
  BY DEF EnterRes
<1>2. node \in LooseNode /\ node.on = TRUE /\ causes \in SUBSET Causes
  BY <1>1, ScreenParts, SeatedAsType, MoneyToldType
<1>3. Display(new)
  BY DEF EnterUserNtf
<1> HIDE DEF node, causes
<1>4. new \in LooseScreen
  BY <1>1, <1>2, ScreenParts DEF LooseScreen
<1>5. new.view = [screen.view EXCEPT ![p.slot] = node] /\ new.slot = screen.slot
      /\ new.scene = screen.scene
  BY DEF FullScreen
<1> HIDE DEF new
<1>6. \A s \in Seats : new.view[s].on <=> (s = p.slot \/ screen.view[s].on)
  BY <1>1, <1>2, <1>5, ScreenParts
<1>7. \A s : Says(p, s) <=> s = p.slot
  BY <1>1 DEF Says
<1>8. QED
  BY <1>1, <1>3, <1>4, <1>5, <1>6, <1>7, Displayed DEF Follows

\* A player who leaves; the observer's own leaving closes the scene.
LEMMA LeaveFollows ==
  ASSUME screen \in FullScreen, NEW p \in LeaveRes, LeaveUserNtf(p)
  PROVE  Lost \/ (Follows(p, screen') /\ wire' = Tail(wire) /\ p.slot # screen.slot)
<1> DEFINE node == Cleared(screen.view[p.slot])
           new == [screen EXCEPT !.view[p.slot] = node, !.misled[p.slot] = {}]
<1>1. p.slot \in Seats /\ p.id = "LEAVE"
  BY DEF LeaveRes
<1>2. node \in LooseNode /\ node.on = FALSE
  <2>1. [h \in Hands |-> 0] \in [Hands -> Int] /\ 0 \in Hands
    BY DEF Hands
  <2>2. screen.view[p.slot] \in LooseNode
    BY <1>1, ScreenParts
  <2>3. QED
    BY <2>1, <2>2 DEF Cleared, LooseNode
<1>3. Lost \/ (Display(new) /\ p.slot # screen.slot)
  BY DEF LeaveUserNtf, OwnSlot
<1> HIDE DEF node
<1>4. new \in LooseScreen
  BY <1>1, <1>2, ScreenParts DEF LooseScreen
<1>5. new.view = [screen.view EXCEPT ![p.slot] = node] /\ new.slot = screen.slot
      /\ new.scene = screen.scene
  BY DEF FullScreen
<1> HIDE DEF new
<1>6. \A s \in Seats : new.view[s].on <=> (s # p.slot /\ screen.view[s].on)
  BY <1>1, <1>2, <1>5, ScreenParts
<1>7. \A s : Says(p, s) <=> s = p.slot
  BY <1>1 DEF Says
<1>8. QED
  BY <1>1, <1>3, <1>4, <1>5, <1>6, <1>7, Displayed DEF Follows

\* A handler that changes labels, cards and menus only
LEMMA TableFollows ==
  ASSUME screen \in FullScreen, NEW p \in GameNtf, NEW new \in LooseScreen, Display(new),
         \A s \in Seats : new.view[s].on = screen.view[s].on,
         new.slot = screen.slot, new.scene = screen.scene
  PROVE  Lost \/ (Follows(p, screen') /\ wire' = Tail(wire))
BY Displayed, GameNtfSilent DEF Follows

\* A bet
LEMMA BetFollows ==
  ASSUME screen \in FullScreen, NEW p \in GameNtf, p.id = "BET", GameBetNtf(p)
  PROVE  Lost \/ (Follows(p, screen') /\ wire' = Tail(wire))
<1> DEFINE node == BetFromMoney(screen.view[p.slot], p.bet)
           slider == SliderAfterBet(p.slot)
           causes == IF OwnSlot(p.slot) THEN screen.misled[p.slot] \ {"slider"}
                     ELSE screen.misled[p.slot]
           new == [screen EXCEPT !.view[p.slot] = node, !.slider = slider,
                                 !.misled[p.slot] = causes]
<1>1. p.slot \in Seats /\ p.bet \in Nat
  BY DEF GameNtf
<1>2. screen.view[p.slot].money - p.bet \in Int
  BY <1>1, ScreenParts DEF LooseNode
<1>3. node \in LooseNode /\ node.on = screen.view[p.slot].on
  <2> DEFINE old == screen.view[p.slot]
  <2>1. old \in LooseNode /\ old.money - p.bet \in Int /\ p.bet \in Int
    BY <1>1, <1>2, ScreenParts
  <2> HIDE DEF old
  <2>2. BetFromMoney(old, p.bet) \in LooseNode /\ BetFromMoney(old, p.bet).on = old.on
    BY <2>1 DEF BetFromMoney, LooseNode
  <2>3. QED
    BY <2>2 DEF old
<1>4. slider \in BOOLEAN /\ causes \in SUBSET Causes
  BY <1>1, ScreenParts DEF SliderAfterBet, LooseScreen
<1>5. Display(new)
  BY DEF GameBetNtf
<1> HIDE DEF node, slider, causes
<1>6. new \in LooseScreen
  BY <1>1, <1>3, <1>4, ScreenParts DEF LooseScreen
<1>7. new.view = [screen.view EXCEPT ![p.slot] = node] /\ new.slot = screen.slot
      /\ new.scene = screen.scene
  BY DEF FullScreen
<1> HIDE DEF new
<1>8. \A s \in Seats : new.view[s].on = screen.view[s].on
  BY <1>1, <1>3, <1>7, ScreenParts
<1>9. QED
  BY <1>5, <1>6, <1>7, <1>8, TableFollows

\* The counter clears the hands.
LEMMA CounterFollows ==
  ASSUME screen \in FullScreen, NEW p \in GameNtf, p.id = "COUNTER", BetCounter(p)
  PROVE  Lost \/ (Follows(p, screen') /\ wire' = Tail(wire))
<1> DEFINE astray == p.to # "BETTING" \/ screen.scene = "scene"
           view == [s \in Seats |-> HandsCleared(screen.view[s])]
           misled == [s \in Seats |-> (screen.misled[s] \ {"cards", "slider"})
                                        \cup (IF astray THEN {"slider"} ELSE {})]
           new == [screen EXCEPT !.view = view, !.slider = TRUE, !.misled = misled]
<1>1. [h \in Hands |-> 0] \in [Hands -> Int]
  OBVIOUS
<1>2. \A s \in Seats : HandsCleared(screen.view[s]) \in LooseNode
                       /\ HandsCleared(screen.view[s]).on = screen.view[s].on
  BY <1>1, ScreenParts DEF HandsCleared, LooseNode
<1>3. misled \in [Seats -> SUBSET Causes]
  BY ScreenParts DEF Causes
<1>4. view \in [Seats -> LooseNode] /\ \A s \in Seats : view[s].on = screen.view[s].on
  BY <1>2
<1>5. Display(new)
  BY DEF BetCounter
<1> HIDE DEF view, misled, astray
<1>6. new \in LooseScreen
  BY <1>3, <1>4, ScreenParts DEF LooseScreen
<1>7. new.view = view /\ new.slot = screen.slot /\ new.scene = screen.scene
  BY DEF FullScreen
<1> HIDE DEF new
<1>8. QED
  BY <1>4, <1>5, <1>6, <1>7, TableFollows

\* The cards that are dealt
LEMMA StartFollows ==
  ASSUME screen \in FullScreen, NEW p \in GameNtf, p.id = "START", GameStart(p)
  PROVE  Lost \/ (Follows(p, screen') /\ wire' = Tail(wire))
<1> DEFINE dealtTo == {s \in Seats : screen.view[s].on /\ p.cards[s] > 0}
           view == [s \in Seats |-> IF screen.view[s].on
                                    THEN WithDealt(screen.view[s], p.cards[s])
                                    ELSE screen.view[s]]
           misled == [s \in Seats |-> IF s \in dealtTo /\ screen.scene = "scene"
                                      THEN screen.misled[s] \cup {"cards"} ELSE screen.misled[s]]
           new == [screen EXCEPT !.view = view, !.misled = misled]
<1>1. p.cards \in [Seats -> 0 .. 2]
  BY DEF GameNtf
<1>2. ASSUME NEW s \in Seats
      PROVE  view[s] \in LooseNode /\ view[s].on = screen.view[s].on
  <2> DEFINE node == screen.view[s]
  <2>1. node \in LooseNode /\ 0 \in Hands /\ node.cards \in [Hands -> Int]
    BY ScreenParts DEF Hands
  <2>2. node.cards[0] + p.cards[s] \in Int
    BY <1>1, <2>1
  <2> HIDE DEF node
  <2>3. WithDealt(node, p.cards[s]) \in LooseNode /\ WithDealt(node, p.cards[s]).on = node.on
    BY <2>1, <2>2 DEF WithDealt, LooseNode
  <2>4. view[s] \in {WithDealt(node, p.cards[s]), node}
    BY DEF node
  <2>5. QED
    BY <2>1, <2>3, <2>4 DEF node
<1>3. misled \in [Seats -> SUBSET Causes]
  BY ScreenParts DEF Causes
<1>4. view \in [Seats -> LooseNode] /\ \A s \in Seats : view[s].on = screen.view[s].on
  BY <1>2
<1>5. Display(new)
  BY DEF GameStart
<1> HIDE DEF view, misled, dealtTo
<1>6. new \in LooseScreen
  BY <1>3, <1>4, ScreenParts DEF LooseScreen
<1>7. new.view = view /\ new.slot = screen.slot /\ new.scene = screen.scene
  BY DEF FullScreen
<1> HIDE DEF new
<1>8. QED
  BY <1>4, <1>5, <1>6, <1>7, TableFollows

\* A turn
LEMMA TurnFollows ==
  ASSUME screen \in FullScreen, NEW p \in GameNtf, p.id = "TURN", ChangeTurn(p)
  PROVE  Lost \/ (Follows(p, screen') /\ wire' = Tail(wire))
<1> DEFINE node == [screen.view[p.slot] EXCEPT !.top = p.hand]
           new == [screen EXCEPT !.view[p.slot] = node]
           code == [screen EXCEPT !.view[p.slot].top = p.hand]
<1>1. p.slot \in Seats /\ p.hand \in Hands
  BY DEF GameNtf
<1>2. node \in LooseNode /\ node.on = screen.view[p.slot].on
  BY <1>1, ScreenParts DEF LooseNode
<1>3. Display(code)
  BY DEF ChangeTurn
<1>4. code = new
  OBVIOUS
<1> HIDE DEF node, code
<1>5. new \in LooseScreen
  BY <1>1, <1>2, ScreenParts DEF LooseScreen
<1>6. new.view = [screen.view EXCEPT ![p.slot] = node] /\ new.slot = screen.slot
      /\ new.scene = screen.scene
  BY DEF FullScreen
<1> HIDE DEF new
<1>7. \A s \in Seats : new.view[s].on = screen.view[s].on
  BY <1>1, <1>2, <1>6, ScreenParts
<1>8. QED
  BY <1>3, <1>4, <1>5, <1>6, <1>7, TableFollows

\* A choice
LEMMA ChoiceFollows ==
  ASSUME screen \in FullScreen, NEW p \in GameNtf, p.id = "CHOICE", GameChoiceNtf(p)
  PROVE  Lost \/ (Follows(p, screen') /\ wire' = Tail(wire))
<1> DEFINE old == screen.view[p.slot]
           cards == CardsAfter(p, old.cards)
           node == WithChoice(old, p)
           causes == MoneyTold(p.slot, screen.misled[p.slot])
                       \cup (IF screen.scene = "scene" /\ p.choice # "STAND"
                             THEN {"cards"} ELSE {})
           new == [screen EXCEPT !.view[p.slot] = node, !.misled[p.slot] = causes]
<1>1. p.slot \in Seats /\ p.bet \in Int /\ p.money \in Int /\ p.hand \in Hands
  BY DEF GameNtf
<1>2. old \in LooseNode /\ old.cards \in [Hands -> Int] /\ screen.misled[p.slot] \in SUBSET Causes
  BY <1>1, ScreenParts
<1>3. Display(new)
  BY DEF GameChoiceNtf
<1> HIDE DEF old
<1>4. cards \in [Hands -> Int]
  <2>1. \A h \in Hands : old.cards[h] \in Int
    BY <1>2
  <2>2. [old.cards EXCEPT ![p.hand] = @ + 1] \in [Hands -> Int]
    BY <1>1, <1>2
  <2>3. [h \in Hands |-> IF h = 0 THEN old.cards[0] - 1
                         ELSE IF old.cards[0] > 1 THEN old.cards[1] + 1
                         ELSE old.cards[1]] \in [Hands -> Int]
    BY <2>1 DEF Hands
  <2>4. QED
    BY <1>2, <2>2, <2>3 DEF CardsAfter
<1>5. causes \in SUBSET Causes
  BY <1>2, MoneyToldType DEF Causes
<1> HIDE DEF cards, causes
<1>6. node \in LooseNode /\ node.on = old.on
  BY <1>1, <1>2, <1>4 DEF LooseNode, WithChoice, cards
<1> HIDE DEF node
<1>7. new \in LooseScreen
  BY <1>1, <1>5, <1>6, ScreenParts DEF LooseScreen
<1>8. new.view = [screen.view EXCEPT ![p.slot] = node] /\ new.slot = screen.slot
      /\ new.scene = screen.scene
  BY DEF FullScreen
<1> HIDE DEF new
<1>9. \A s \in Seats : new.view[s].on = screen.view[s].on
  BY <1>1, <1>6, <1>8, ScreenParts DEF old
<1>10. QED
  BY <1>3, <1>7, <1>8, <1>9, TableFollows

\* The result
LEMMA ResultFollows ==
  ASSUME screen \in FullScreen, NEW p \in GameNtf, p.id = "RESULT", DealerResult(p)
  PROVE  Lost \/ (Follows(p, screen') /\ wire' = Tail(wire))
<1> DEFINE late == [s \in WithCards \cup DOMAIN screen.late |->
                      IF s \in WithCards THEN p.money[s] ELSE screen.late[s]]
           misled == [s \in Seats |-> IF s \in WithCards THEN screen.misled[s] \ {"money"}
                                      ELSE IF s \in p.played THEN screen.misled[s] \cup {"money"}
                                      ELSE screen.misled[s]]
           new == [screen EXCEPT !.late = late, !.misled = misled]
<1>1. p.money \in [Seats -> Int]
  BY DEF GameNtf
<1>2. PICK S \in SUBSET Seats : screen.late \in [S -> Int]
  BY DEF FullScreen
<1>3. late \in [WithCards \cup S -> Int] /\ WithCards \cup S \in SUBSET Seats
  BY <1>1, <1>2 DEF WithCards
<1>4. late \in Settlements
  BY <1>3 DEF Settlements
<1>5. misled \in [Seats -> SUBSET Causes]
  BY ScreenParts DEF Causes
<1>6. Display(new)
  BY DEF DealerResult
<1> HIDE DEF late, misled
<1>7. new \in LooseScreen
  BY <1>4, <1>5, ScreenParts DEF LooseScreen
<1>8. new.view = screen.view /\ new.slot = screen.slot /\ new.scene = screen.scene
  BY DEF FullScreen
<1> HIDE DEF new
<1>9. QED
  BY <1>6, <1>7, <1>8, TableFollows

\* A packet that is handled by the scene that waits for it
LEMMA RecvFollows ==
  ASSUME screen \in FullScreen, NEW p \in Packet, LoginSceneRecv(p) \/ GameSceneRecv(p)
  PROVE  Lost \/ ( /\ Follows(p, screen') /\ wire' = Tail(wire)
                   /\ p.id = "LEAVE" => p.slot # screen.slot
                   /\ p.id = "ENTER_RES" => screen.scene = "login"
                   /\ p.id # "ENTER_RES" => screen.scene \in {"scene", "game"})
<1>1. CASE LoginSceneRecv(p)
  BY <1>1, OpenGameFollows DEF LoginSceneRecv
<1>2. CASE GameSceneRecv(p)
  <2>1. screen.scene \in {"scene", "game"}
    BY <1>2 DEF GameSceneRecv
  <2>2. CASE p.id = "LIST" /\ UserListRes(p)
    BY <2>1, <2>2, ListFollows
  <2>3. CASE p.id = "ENTER" /\ EnterUserNtf(p)
    BY <2>1, <2>3, EnterFollows, PacketType
  <2>4. CASE p.id = "LEAVE" /\ LeaveUserNtf(p)
    BY <2>1, <2>4, LeaveFollows, PacketType
  <2>5. ASSUME p.id \in {"BET", "COUNTER", "START", "TURN", "CHOICE", "RESULT"}
        PROVE  p \in GameNtf /\ p.id # "LEAVE" /\ p.id # "ENTER_RES"
    BY <2>5, PacketType
  <2>6. CASE p.id = "BET" /\ GameBetNtf(p)
    BY <2>1, <2>5, <2>6, BetFollows
  <2>7. CASE p.id = "COUNTER" /\ BetCounter(p)
    BY <2>1, <2>5, <2>7, CounterFollows
  <2>8. CASE p.id = "START" /\ GameStart(p)
    BY <2>1, <2>5, <2>8, StartFollows
  <2>9. CASE p.id = "TURN" /\ ChangeTurn(p)
    BY <2>1, <2>5, <2>9, TurnFollows
  <2>10. CASE p.id = "CHOICE" /\ GameChoiceNtf(p)
    BY <2>1, <2>5, <2>10, ChoiceFollows
  <2>11. CASE p.id = "RESULT" /\ DealerResult(p)
    BY <2>1, <2>5, <2>11, ResultFollows
  <2>12. QED
    BY <1>2, <2>2, <2>3, <2>4, <2>6, <2>7, <2>8, <2>9, <2>10, <2>11 DEF GameSceneRecv
<1>3. QED
  BY <1>1, <1>2

\* What is left on the wire when the first packet has been handled
LEMMA TailIndex ==
  ASSUME NEW w \in Seq(Packet), w # <<>>
  PROVE  /\ Len(w) \in Nat \ {0} /\ Len(Tail(w)) = Len(w) - 1
         /\ \A i \in 1 .. (Len(w) - 1) : i + 1 \in 2 .. Len(w) /\ Tail(w)[i] = w[i + 1]
         /\ \A n \in 2 .. Len(w) : n - 1 \in 1 .. (Len(w) - 1) /\ Tail(w)[n - 1] = w[n]
<1>1. Len(w) \in Nat \ {0}
  BY EmptySeq, LenProperties
<1>2. Len(Tail(w)) = Len(w) - 1 /\ \A i \in 1 .. Len(Tail(w)) : Tail(w)[i] = w[i + 1]
  BY HeadTailProperties
<1>3. \A i \in 1 .. (Len(w) - 1) : i + 1 \in 2 .. Len(w) /\ Tail(w)[i] = w[i + 1]
  BY <1>1, <1>2
<1>4. \A n \in 2 .. Len(w) : n - 1 \in 1 .. (Len(w) - 1) /\ (n - 1) + 1 = n
  BY <1>1
<1>5. \A n \in 2 .. Len(w) : Tail(w)[n - 1] = w[n]
  <2> TAKE n \in 2 .. Len(w)
  <2>1. n - 1 \in 1 .. (Len(w) - 1) /\ (n - 1) + 1 = n
    BY <1>4
  <2>2. Tail(w)[n - 1] = w[(n - 1) + 1]
    BY <1>3, <2>1
  <2>3. QED
    BY <2>1, <2>2
<1>6. QED
  BY <1>1, <1>2, <1>3, <1>4, <1>5

\* Handling a packet keeps screen and packets together in step with the room.
LEMMA TailPresent ==
  ASSUME NEW ul, wire \in Seq(Packet), wire # <<>>, NEW new, Follows(Head(wire), new),
         Present(ul, wire, screen)
  PROVE  Present(ul, Tail(wire), new)
<1> DEFINE p == Head(wire)
           t == Tail(wire)
<1>1. p \in Packet /\ t \in Seq(Packet) /\ wire = <<p>> \o t /\ <<p>> \in Seq(Packet)
      /\ Len(<<p>>) = 1 /\ <<p>>[1] = p
  BY HeadSays, OnePacket
<1> HIDE DEF p, t
<1>2. ASSUME NEW s \in Seats PROVE Will(wire, screen.view, s) <=> Will(t, new.view, s)
  <2>1. Will(wire, screen.view, s) <=>
          LastSays(t, s) \/ (Silent(t, s) /\ Will(<<p>>, screen.view, s))
    BY <1>1, WillAfter
  <2>2. /\ LastSays(<<p>>, s) <=> Says(p, s) /\ p.id # "LEAVE"
        /\ Silent(<<p>>, s) <=> ~ Says(p, s)
    BY OneSays
  <2>3. new.view[s].on <=> (IF Says(p, s) THEN p.id # "LEAVE" ELSE screen.view[s].on)
    BY DEF Follows, p
  <2>4. Will(<<p>>, screen.view, s) <=> new.view[s].on
    BY <2>2, <2>3 DEF Will
  <2>5. QED
    BY <2>1, <2>4 DEF Will
<1>3. /\ HasList(wire) <=> HasList(<<p>>) \/ HasList(t)
      /\ ListsName(ul, wire) <=> ListsName(ul, <<p>>) /\ ListsName(ul, t)
  BY <1>1, ConcatLists
<1>4. /\ HasList(<<p>>) <=> p.id = "LIST"
      /\ ListsName(ul, <<p>>) <=> (p.id = "LIST" => ul[p.slot] = Observer)
  <2>1. 1 .. 1 = {1}
    OBVIOUS
  <2>2. QED
    BY <1>1, <2>1 DEF HasList, ListsName
<1>5. new.scene = "game" => p.id = "LIST" \/ screen.scene = "game"
  BY DEF Follows, p
<1>6. /\ p.id = "LIST" => new.slot = p.slot
      /\ p.id # "LIST" => new.slot = screen.slot
  BY DEF Follows, p
<1>7. new.scene = "game" => ul[new.slot] = Observer
  BY <1>3, <1>4, <1>5, <1>6 DEF Present
<1>8. HasList(t) \/ new.scene = "game" => HasList(wire) \/ screen.scene = "game"
  BY <1>3, <1>4, <1>5
<1>9. QED
  BY <1>2, <1>3, <1>7, <1>8 DEF Present, t

\* The packet that tells of the observer's leaving waits until it is handled.
LEMMA TailAbsent ==
  ASSUME wire \in Seq(Packet), wire # <<>>, NEW new, Follows(Head(wire), new),
         Absent(wire, screen), Head(wire).id = "LEAVE" => Head(wire).slot # screen.slot
  PROVE  Absent(Tail(wire), new)
<1> DEFINE p == Head(wire)
           t == Tail(wire)
           k == Len(wire)
<1>1. p = wire[1]
  BY HeadSays
<1>2. /\ k \in Nat \ {0} /\ Len(t) = k - 1
      /\ \A i \in 1 .. (k - 1) : i + 1 \in 2 .. k /\ t[i] = wire[i + 1]
      /\ \A n \in 2 .. k : n - 1 \in 1 .. (k - 1) /\ t[n - 1] = wire[n]
  BY TailIndex
<1>3. p.id = "LEAVE" => p.slot # screen.slot
  OBVIOUS
<1>4. /\ new.scene = "game" => p.id = "LIST" \/ screen.scene = "game"
      /\ p.id = "LIST" => new.slot = p.slot
      /\ p.id # "LIST" => new.slot = screen.slot
  BY DEF Follows
<1> HIDE DEF p, t, k
<1>5. ASSUME NEW n \in 1 .. k, wire[n].id = "LIST"
      PROVE  \E m \in (n + 1) .. k : wire[m] = LeaveNtf(wire[n].slot)
  BY <1>5 DEF Absent, k
<1>6. ASSUME new.scene = "game" PROVE \E i \in 1 .. (k - 1) : t[i] = LeaveNtf(new.slot)
  <2>1. \E n \in 2 .. k : wire[n] = LeaveNtf(new.slot)
    <3>1. CASE p.id = "LIST"
      <4>1. 1 \in 1 .. k /\ 1 + 1 = 2
        BY <1>2
      <4>2. \E m \in (1 + 1) .. k : wire[m] = LeaveNtf(wire[1].slot)
        BY <1>1, <1>5, <3>1, <4>1
      <4>3. QED
        BY <1>1, <1>4, <3>1, <4>1, <4>2
    <3>2. CASE p.id # "LIST"
      <4>1. PICK n \in 1 .. k : wire[n] = LeaveNtf(screen.slot)
        BY <1>4, <1>6, <3>2 DEF Absent, k
      <4>2. n # 1
        BY <1>1, <1>3, <4>1 DEF LeaveNtf
      <4>3. n \in 2 .. k
        BY <1>2, <4>2
      <4>4. QED
        BY <1>4, <3>2, <4>1, <4>3
    <3>3. QED
      BY <3>1, <3>2
  <2>2. PICK n \in 2 .. k : wire[n] = LeaveNtf(new.slot)
    BY <2>1
  <2>3. QED
    BY <1>2, <2>2
<1>7. ASSUME NEW i \in 1 .. (k - 1), t[i].id = "LIST"
      PROVE  \E j \in (i + 1) .. (k - 1) : t[j] = LeaveNtf(t[i].slot)
  <2>1. i + 1 \in 1 .. k /\ wire[i + 1] = t[i]
    BY <1>2
  <2>2. PICK m \in ((i + 1) + 1) .. k : wire[m] = LeaveNtf(t[i].slot)
    BY <1>5, <1>7, <2>1
  <2>3. m \in 2 .. k /\ m - 1 \in (i + 1) .. (k - 1)
    BY <1>2, <2>1
  <2>4. t[m - 1] = wire[m]
    BY <1>2, <2>3
  <2>5. QED
    BY <2>2, <2>3, <2>4
<1>8. QED
  BY <1>2, <1>6, <1>7 DEF Absent, t

-----------------------------------------------------------------------------
(* The invariant                                                           *)

\* A scene that is not shown, shown or closed
LEMMA BlankType ==
  ASSUME NEW s \in Scenes
  PROVE  Blank(s) \in FullScreen /\ Blank(s).scene = s /\ Blank(s).late = <<>>
<1>1. EmptyNode \in PlayerNode
  <2>1. [h \in Hands |-> 0] \in [Hands -> 0 .. HandSlots] /\ 0 \in Hands
    BY SlotsAssumption DEF Hands
  <2>2. QED
    BY <2>1 DEF EmptyNode, PlayerNode
<1>2. <<>> \in UNION {[S -> Int] : S \in SUBSET Seats}
  <2>1. <<>> \in [{} -> Int]
    <3>1. DOMAIN <<>> = {}
      BY EmptySeq, LenProperties
    <3>2. QED
      BY <3>1
  <2>2. QED
    BY <2>1
<1>3. 0 \in Seats
  BY SeatsAssumption DEF Seats
<1>4. [t \in Seats |-> EmptyNode] \in [Seats -> PlayerNode]
      /\ [t \in Seats |-> {}] \in [Seats -> SUBSET Causes]
  BY <1>1
<1>5. QED
  BY <1>2, <1>3, <1>4 DEF Blank, FullScreen

\* The observer's client handles a packet.
LEMMA RecvTold ==
  ASSUME ViewOK, SeatsInv, fault = "none", Recv
  PROVE  ViewOK' /\ SeatsInv'
<1> DEFINE p == Head(wire)
<1>1. wire \in Seq(Packet) /\ wire # <<>> /\ screen \in FullScreen
  BY DEF ViewOK, Recv
<1>2. UNCHANGED <<vars, bid>> /\ (LoginSceneRecv(p) \/ GameSceneRecv(p))
  BY DEF Recv
<1>3. TypeOK' /\ UNCHANGED <<userList, connected, fault>>
  BY <1>2 DEF ViewOK, TypeOK, vars
<1>4. Live
  BY <1>2 DEF LoginSceneRecv, GameSceneRecv, Live
<1>5. Observer \in connected
  BY <1>4 DEF SeatsInv
<1>6. asked' \subseteq connected
  BY <1>2, <1>5 DEF LoginSceneRecv, GameSceneRecv, OpenGameScene, ViewOK
<1>7. bid' \subseteq Bets
  BY <1>2 DEF ViewOK
<1>8. p \in Packet /\ Tail(wire) \in Seq(Packet)
  BY <1>1, HeadSays
<1>9. CASE Lost
  <2>1. screen'.scene = "lost" /\ screen' \in FullScreen
    BY <1>9, BlankType DEF Lost, Scenes
  <2>2. wire' \in Seq(Packet)
    BY <1>9, EmptySeq DEF Lost
  <2>3. ~ Live' /\ screen'.scene # "off"
    BY <2>1 DEF Live
  <2>4. QED
    BY <1>3, <1>6, <1>7, <2>1, <2>2, <2>3 DEF ViewOK, SeatsInv
<1>10. CASE /\ Follows(p, screen') /\ wire' = Tail(wire)
            /\ p.id = "LEAVE" => p.slot # screen.slot
  <2>1. screen' \in FullScreen /\ screen'.scene # "off"
    BY <1>4, <1>10 DEF Follows, Live
  <2>2. Observer \in Seated(userList) => Present(userList', wire', screen')
    BY <1>1, <1>3, <1>4, <1>10, TailPresent DEF SeatsInv
  <2>3. Observer \notin Seated(userList) => Absent(wire', screen')
    BY <1>1, <1>4, <1>10, TailAbsent DEF SeatsInv
  <2>4. QED
    BY <1>3, <1>5, <1>6, <1>7, <1>8, <1>10, <2>1, <2>2, <2>3 DEF ViewOK, SeatsInv
<1>11. QED
  BY <1>1, <1>2, <1>8, <1>9, <1>10, RecvFollows

\* A screen that differs in nothing that is about the seats
LEMMA SameSeatsShown ==
  ASSUME NEW ul, NEW w, NEW sc, NEW new, new.scene = sc.scene, new.slot = sc.slot,
         \A s \in Seats : new.view[s].on = sc.view[s].on
  PROVE  /\ Present(ul, w, sc) => Present(ul, w, new)
         /\ Absent(w, sc) => Absent(w, new)
<1>1. \A s \in Seats : Will(w, sc.view, s) <=> Will(w, new.view, s)
  BY DEF Will
<1>2. QED
  BY <1>1 DEF Present, Absent

\* setMoneyBet(0, money)
LEMMA MoneyShownType ==
  ASSUME NEW node \in PlayerNode, NEW m \in Int
  PROVE  /\ [node EXCEPT !.bet = 0, !.money = m] \in PlayerNode
         /\ [node EXCEPT !.bet = 0, !.money = m].on = node.on
<1>1. node \in LooseNode /\ node.cards \in [Hands -> 0 .. HandSlots]
  <2>1. node.cards \in [Hands -> 0 .. HandSlots]
    BY DEF PlayerNode
  <2>2. node.cards \in [Hands -> Int]
    BY <2>1, SlotsAssumption
  <2>3. QED
    BY <2>1, <2>2 DEF PlayerNode, LooseNode
<1> DEFINE zero == 0
           told == [node EXCEPT !.bet = zero, !.money = m]
<1>2. zero \in Int
  OBVIOUS
<1> HIDE DEF zero
<1>3. told \in LooseNode /\ told.on = node.on /\ told.cards = node.cards
  BY <1>1, <1>2 DEF LooseNode
<1>4. told \in PlayerNode
  BY <1>1, <1>3 DEF LooseNode, PlayerNode
<1>5. QED
  BY <1>3, <1>4 DEF zero

\* The client's own steps: the settlement is shown, the bet button is clicked.
LEMMA OwnStepTold ==
  ASSUME ViewOK, SeatsInv, fault = "none", DelayOver \/ BetButton
  PROVE  ViewOK' /\ SeatsInv'
<1>1. UNCHANGED <<vars, wire, asked>> /\ bid' \subseteq Bets
  BY DEF DelayOver, BetButton, ViewOK
<1>2. TypeOK' /\ UNCHANGED <<userList, connected, fault, wire, asked>>
  BY <1>1 DEF ViewOK, TypeOK, vars
<1>3. /\ screen' \in FullScreen /\ screen'.scene = screen.scene /\ screen'.slot = screen.slot
      /\ \A s \in Seats : screen'.view[s].on = screen.view[s].on
  <2>1. CASE DelayOver
    <3> DEFINE view == [s \in Seats |-> IF s \in DOMAIN screen.late
                                        THEN [screen.view[s] EXCEPT !.bet = 0,
                                                                    !.money = screen.late[s]]
                                        ELSE screen.view[s]]
    <3>1. screen' = [screen EXCEPT !.late = <<>>, !.view = view]
      BY <2>1 DEF DelayOver
    <3>2. PICK S \in SUBSET Seats : screen.late \in [S -> Int]
      BY DEF ViewOK, FullScreen
    <3>3. \A s \in Seats : screen.view[s] \in PlayerNode
      BY DEF ViewOK, FullScreen
    <3>4. ASSUME NEW s \in Seats PROVE view[s] \in PlayerNode /\ view[s].on = screen.view[s].on
      <4>1. CASE s \in DOMAIN screen.late
        <5>1. screen.late[s] \in Int
          BY <3>2, <4>1
        <5> DEFINE node == screen.view[s]
                   m == screen.late[s]
                   told == [node EXCEPT !.bet = 0, !.money = m]
        <5>2. view[s] = told
          BY <4>1
        <5>3. node \in PlayerNode /\ m \in Int
          BY <3>3, <5>1
        <5> HIDE DEF node, m
        <5>4. told \in PlayerNode /\ told.on = node.on
          BY <5>3, MoneyShownType
        <5>5. QED
          BY <5>2, <5>4 DEF node
      <4>2. CASE s \notin DOMAIN screen.late
        BY <3>3, <4>2
      <4>3. QED
        BY <4>1, <4>2
    <3>5. view \in [Seats -> PlayerNode] /\ \A s \in Seats : view[s].on = screen.view[s].on
      BY <3>4
    <3>6. <<>> \in UNION {[T -> Int] : T \in SUBSET Seats}
      BY BlankType DEF FullScreen, Scenes
    <3> HIDE DEF view
    <3>7. screen \in FullScreen
      BY DEF ViewOK
    <3>8. screen' \in FullScreen
      BY <3>1, <3>5, <3>6, <3>7 DEF FullScreen
    <3>9. screen'.view = view /\ screen'.scene = screen.scene /\ screen'.slot = screen.slot
      BY <3>1, <3>7 DEF FullScreen
    <3>10. QED
      BY <3>5, <3>8, <3>9
  <2>2. CASE BetButton
    <3> DEFINE misled == [s \in Seats |-> screen.misled[s] \ {"slider"}]
    <3>1. screen' = [screen EXCEPT !.slider = FALSE, !.misled = misled]
      BY <2>2 DEF BetButton
    <3>2. screen \in FullScreen
      BY DEF ViewOK
    <3>3. misled \in [Seats -> SUBSET Causes]
      BY <3>2 DEF FullScreen
    <3> HIDE DEF misled
    <3>4. QED
      BY <3>1, <3>2, <3>3 DEF FullScreen
  <2>3. QED
    BY <2>1, <2>2
<1>4. /\ Present(userList, wire, screen) => Present(userList, wire, screen')
      /\ Absent(wire, screen) => Absent(wire, screen')
  BY <1>3, SameSeatsShown
<1>5. QED
  BY <1>1, <1>2, <1>3, <1>4 DEF ViewOK, SeatsInv, Live

\* A step that says nothing of the seats keeps the invariant.
LEMMA StepOfGame ==
  ASSUME ViewOK, TypeOK', RoomInv, SeatsInv, fault = "none", UNCHANGED <<userList, connected, screen>>,
         asked' \subseteq asked, bid' \subseteq Bets,
         wire' \in Seq(Packet) /\ (SeatsTold => SeatsTold')
  PROVE  ViewOK' /\ SeatsInv'
<1>1. SeatsInv => (Live => SeatsTold) /\ (screen.scene = "off" => Observer \notin connected)
                  /\ (Live => Observer \in connected)
  BY DEF SeatsInv, SeatsTold
<1>2. Live' <=> Live
  BY DEF Live
<1>3. ViewOK'
  BY DEF ViewOK
<1>4. QED
  BY <1>1, <1>2, <1>3 DEF SeatsInv, SeatsTold

\* Somebody enters.
LEMMA ConnectTold ==
  ASSUME ViewOK, TypeOK', RoomInv, SeatsInv, fault = "none", NEW u \in Users, ViewEnter(u)
  PROVE  ViewOK' /\ SeatsInv'
<1>1. connected' = connected \cup {u} /\ bid' = bid /\ asked' \subseteq connected'
  BY DEF ViewEnter, EnterUser, ViewOK
<1>2. CASE u = Observer
  <2>1. /\ wire' \in Seq(Packet) /\ screen' = Blank("login")
        /\ fault' = "none" => SeatsTold'
    BY <1>2, OwnEntry
  <2>2. screen' \in FullScreen /\ screen'.scene = "login"
    BY <2>1, BlankType DEF Scenes
  <2>3. QED
    BY <1>1, <1>2, <2>1, <2>2 DEF ViewOK, SeatsInv, SeatsTold
<1>3. CASE u # Observer
  <2>1. wire' \in Seq(Packet) /\ (fault' = "none" /\ SeatsTold => SeatsTold') /\ screen' = screen
    BY <1>3, EnterTold DEF ViewEnter
  <2>2. Live => SeatsTold
    BY DEF SeatsInv, SeatsTold
  <2>3. Live' <=> Live
    BY <2>1 DEF Live
  <2>4. Observer \in connected' <=> Observer \in connected
    BY <1>1, <1>3
  <2>5. QED
    BY <1>1, <2>1, <2>2, <2>3, <2>4 DEF ViewOK, SeatsInv, SeatsTold
<1>4. QED
  BY <1>2, <1>3

\* Somebody's session ends.
LEMMA DisconnectTold ==
  ASSUME ViewOK, TypeOK', RoomInv, SeatsInv, fault = "none", NEW u \in Users, ViewClose(u)
  PROVE  ViewOK' /\ SeatsInv'
<1>1. connected' = connected \ {u} /\ bid' \subseteq Bets /\ asked' \subseteq connected'
  BY DEF ViewClose, CloseSession, RequestGone, ViewOK
<1>2. CASE u = Observer
  <2>1. wire' = <<>> /\ screen' = Blank("gone")
    BY <1>2 DEF ViewClose
  <2>2. wire' \in Seq(Packet)
    BY <2>1, EmptySeq
  <2>3. screen' \in FullScreen /\ screen'.scene = "gone"
    BY <2>1, BlankType DEF Scenes
  <2>4. ~ Live' /\ screen'.scene # "off"
    BY <2>3 DEF Live
  <2>5. QED
    BY <1>1, <2>2, <2>3, <2>4 DEF ViewOK, SeatsInv
<1>3. CASE u # Observer
  <2>1. wire' \in Seq(Packet) /\ (fault' = "none" /\ SeatsTold => SeatsTold') /\ screen' = screen
    BY <1>3, CloseTold DEF ViewClose
  <2>2. Live => SeatsTold
    BY DEF SeatsInv, SeatsTold
  <2>3. Live' <=> Live
    BY <2>1 DEF Live
  <2>4. Observer \in connected' <=> Observer \in connected
    BY <1>1, <1>3
  <2>5. QED
    BY <1>1, <2>1, <2>2, <2>3, <2>4 DEF ViewOK, SeatsInv, SeatsTold
<1>4. QED
  BY <1>2, <1>3

\* Every step of the room with its observer is a step of the room, or the
\* request that finds no room.
LEMMA RoomUnderneath ==
  ASSUME ViewOK, RoomInv, ViewNext
  PROVE  TypeOK' /\ RoomInv'
<1>1. fault = "none" /\ TypeOK /\ bid \subseteq Bets
  BY DEF ViewNext, ViewOK
<1>2. ASSUME [Next]_vars PROVE TypeOK' /\ RoomInv'
  BY <1>1, <1>2, NextType, NextInv
<1>3. ASSUME NEW u \in Users, UserAction(u) PROVE TypeOK' /\ RoomInv'
  BY <1>1, <1>2, <1>3 DEF Next, Running
<1>4. ASSUME TimerAction PROVE TypeOK' /\ RoomInv'
  BY <1>1, <1>2, <1>4 DEF Next, Running
<1>5. ASSUME NEW u \in Users, Connects(u) \/ Disconnects(u) PROVE TypeOK' /\ RoomInv'
  BY <1>3, <1>5 DEF Connects, Disconnects, ViewEnter, ViewClose, UserAction
<1>6. ASSUME NEW u \in Users, OtherBet(u) PROVE TypeOK' /\ RoomInv'
  BY <1>3, <1>6 DEF OtherBet, ViewBet, UserAction
<1>7. ASSUME NEW u \in Users, ViewChoice(u) PROVE TypeOK' /\ RoomInv'
  BY <1>3, <1>7 DEF ViewChoice, UserAction
<1>8. ASSUME NEW u \in Users, UserListReq(u) PROVE TypeOK' /\ RoomInv'
  <2>1. CASE UNCHANGED vars
    BY <1>2, <2>1
  <2>2. CASE Crash("null_room") /\ UNCHANGED sent
    BY <1>1, <2>2, CrashType, CrashInv DEF TypeOK, Faults
  <2>3. QED
    BY <1>8, <2>1, <2>2 DEF UserListReq
<1>9. ASSUME ObserverBet PROVE TypeOK' /\ RoomInv'
  <2>1. PICK money \in bid : ViewBet(Observer, money) \/ UNCHANGED vars
    BY <1>9 DEF ObserverBet
  <2>2. CASE ViewBet(Observer, money)
    BY <1>1, <1>3, <2>2, ObserverAssumption DEF ViewBet, UserAction
  <2>3. CASE UNCHANGED vars
    BY <1>2, <2>3
  <2>4. QED
    BY <2>1, <2>2, <2>3
<1>10. ASSUME ViewBettingTimeout \/ ViewHandoutTimeout \/ ViewTurnTimeout \/ ViewRestartTimeout
       PROVE  TypeOK' /\ RoomInv'
  BY <1>4, <1>10 DEF ViewBettingTimeout, ViewHandoutTimeout, ViewTurnTimeout,
                     ViewRestartTimeout, TimerAction
<1>11. ASSUME ClientStep PROVE TypeOK' /\ RoomInv'
  BY <1>2, <1>11 DEF ClientStep, Recv, DelayOver, BetButton
<1>12. QED
  BY <1>5, <1>6, <1>7, <1>8, <1>9, <1>10, <1>11 DEF ViewNext, RoomStep

\* Every step keeps what is known of the room, the packets and the screen.
LEMMA ViewStep ==
  ASSUME ViewOK, RoomInv, SeatsInv, [ViewNext]_viewVars
  PROVE  ViewOK' /\ RoomInv' /\ SeatsInv'
<1>1. CASE UNCHANGED viewVars
  <2>1. UNCHANGED <<vars, wire, asked, bid, screen, userList, connected, fault>>
    BY <1>1 DEF viewVars, vars
  <2>2. TypeOK' /\ RoomInv'
    BY <2>1, NextType, NextInv DEF ViewOK
  <2>3. QED
    BY <2>1, <2>2 DEF ViewOK, SeatsInv, Live
<1>2. CASE ViewNext
  <2>1. fault = "none" /\ TypeOK /\ TypeOK' /\ RoomInv' /\ bid \subseteq Bets
    BY <1>2, RoomUnderneath DEF ViewNext, ViewOK
  <2>2. ASSUME GamePush, UNCHANGED <<userList, connected, screen, asked>>, bid' \subseteq Bets
        PROVE  ViewOK' /\ SeatsInv'
    BY <2>1, <2>2, GameTold, StepOfGame
  <2>3. ASSUME NEW u \in Users, Connects(u) \/ Disconnects(u) PROVE ViewOK' /\ SeatsInv'
    BY <2>1, <2>3, ConnectTold, DisconnectTold DEF Connects, Disconnects
  <2>4. ASSUME NEW u \in Users, OtherBet(u) PROVE ViewOK' /\ SeatsInv'
    <3>1. PICK money \in Bets : ViewBet(u, money)
      BY <2>4 DEF OtherBet
    <3>2. money \in Nat
      BY ChipsAssumption
    <3>3. GamePush /\ UNCHANGED <<userList, connected, asked, screen>> /\ bid' = bid
      BY <2>1, <2>4, <3>1, <3>2, BetPush DEF OtherBet
    <3>4. QED
      BY <2>1, <2>2, <3>3
  <2>5. ASSUME NEW u \in Users, ViewChoice(u) PROVE ViewOK' /\ SeatsInv'
    BY <2>1, <2>2, <2>5, ChoicePush, ChoiceMovesNobody
  <2>6. ASSUME NEW u \in Users, UserListReq(u) PROVE ViewOK' /\ SeatsInv'
    <3>1. /\ UNCHANGED <<userList, connected, screen>> /\ asked' \subseteq asked /\ bid' = bid
      BY <2>6 DEF UserListReq, Crash, vars
    <3>2. wire' \in Seq(Packet) /\ (fault' = "none" /\ SeatsTold => SeatsTold')
      BY <2>6, ListTold
    <3>3. CASE fault' = "none"
      BY <2>1, <3>1, <3>2, <3>3, StepOfGame
    <3>4. CASE fault' # "none"
      BY <2>1, <3>1, <3>2, <3>4 DEF ViewOK, SeatsInv
    <3>5. QED
      BY <3>3, <3>4
  <2>7. ASSUME ObserverBet PROVE ViewOK' /\ SeatsInv'
    <3>1. PICK money \in bid : \/ ViewBet(Observer, money)
                               \/ UNCHANGED <<vars, wire, asked, screen>>
      BY <2>7 DEF ObserverBet
    <3>2. bid' = {} /\ money \in Nat
      BY <2>1, <2>7, ChipsAssumption DEF ObserverBet
    <3>3. CASE ViewBet(Observer, money)
      BY <2>1, <2>2, <3>2, <3>3, BetPush
    <3>4. CASE UNCHANGED <<vars, wire, asked, screen>>
      <4>1. GamePush /\ UNCHANGED <<userList, connected, screen, asked>>
        BY <3>4 DEF vars, GamePush
      <4>2. QED
        BY <2>2, <3>2, <4>1
    <3>5. QED
      BY <3>1, <3>3, <3>4
  <2>8. ASSUME ViewBettingTimeout \/ ViewHandoutTimeout \/ ViewTurnTimeout
        PROVE  ViewOK' /\ SeatsInv'
    BY <2>1, <2>2, <2>8, BettingTimeoutPush, HandoutTimeoutPush, TurnTimeoutPush
  <2>9. ASSUME ViewRestartTimeout PROVE ViewOK' /\ SeatsInv'
    <3>1. wire' \in Seq(Packet) /\ (SeatsTold => SeatsTold')
      BY <2>1, <2>9, RestartTold
    <3>2. UNCHANGED <<connected, asked, bid, screen>>
      BY <2>9 DEF ViewRestartTimeout, RestartTimeout
    <3>3. Live => SeatsTold
      BY <2>1 DEF SeatsInv, SeatsTold
    <3>4. Live' <=> Live
      BY <3>2 DEF Live
    <3>5. QED
      BY <2>1, <3>1, <3>2, <3>3, <3>4 DEF ViewOK, SeatsInv, SeatsTold
  <2>10. ASSUME ClientStep PROVE ViewOK' /\ SeatsInv'
    BY <2>1, <2>10, RecvTold, OwnStepTold DEF ClientStep
  <2>11. QED
    BY <1>2, <2>1, <2>3, <2>4, <2>5, <2>6, <2>7, <2>8, <2>9, <2>10 DEF ViewNext, RoomStep
<1>3. QED
  BY <1>1, <1>2

\* Before anybody has connected nothing is shown.
LEMMA ViewStart == ViewInit => ViewOK /\ RoomInv /\ SeatsInv
<1> SUFFICES ASSUME ViewInit PROVE ViewOK /\ RoomInv /\ SeatsInv
  OBVIOUS
<1>1. TypeOK /\ RoomInv
  BY InitType, InitInv DEF ViewInit
<1>2. screen \in FullScreen /\ screen.scene = "off"
  BY BlankType DEF ViewInit, Scenes
<1>3. wire \in Seq(Packet)
  BY EmptySeq DEF ViewInit
<1>4. connected = {}
  BY DEF ViewInit, Init
<1>5. QED
  BY <1>1, <1>2, <1>3, <1>4 DEF ViewInit, ViewOK, SeatsInv, Live

\* The inductive invariant of the table
LEMMA ViewInvariant == ViewSpec => [](ViewOK /\ RoomInv /\ SeatsInv)
<1>1. ViewInit => ViewOK /\ RoomInv /\ SeatsInv
  BY ViewStart
<1>2. ViewOK /\ RoomInv /\ SeatsInv /\ [ViewNext]_viewVars => (ViewOK /\ RoomInv /\ SeatsInv)'
  BY ViewStep
<1>3. QED
  BY <1>1, <1>2, PTL DEF ViewSpec

\* Every packet that reaches the observer is one its client knows, and nothing
\* it handles makes the screen something else than a screen: in particular no
\* hand shows more cards than it has slots.
THEOREM ViewTypeCorrect == ViewSpec => []ViewTypeOK
<1>1. ASSUME ViewOK PROVE ViewTypeOK
  <2>1. [screen EXCEPT !.late = <<>>] \in Screen
    BY <1>1 DEF ViewOK, FullScreen, Screen
  <2>2. \E S \in SUBSET Seats : screen.late \in [S -> Int]
    BY <1>1 DEF ViewOK, FullScreen
  <2>3. \A n \in DOMAIN wire : IsPacket(wire[n])
    <3>1. \A n \in DOMAIN wire : wire[n] \in Packet
      BY <1>1, LenProperties, ElementOfSeq DEF ViewOK
    <3>2. QED
      BY <3>1, PacketType
  <2>4. QED
    BY <1>1, <2>1, <2>2, <2>3 DEF ViewOK, ViewTypeOK
<1>2. QED
  BY <1>1, ViewInvariant, PTL

\* Whoever enters, leaves or is kicked while packets are under way, and in
\* whatever order they and the list arrive: when every packet has been handled
\* the table shows the players who sit in the room, and the observer's own seat
\* is the one the room gave it (GameScene.cpp:213-249, Room.cpp:28-111).
THEOREM SeatsAreShown == ViewSpec => []SeatsShown
<1>1. ASSUME ViewOK, SeatsInv PROVE SeatsShown
  <2> SUFFICES ASSUME Quiet
               PROVE  /\ \A s \in Seats : Node(s).on <=> s \in Taken
                      /\ Observer \in Seated(userList) => userList[screen.slot] = Observer
    BY DEF SeatsShown
  <2>1. screen.scene = "game" /\ fault = "none" /\ Live /\ Len(wire) = 0 /\ 1 .. 0 = {}
    <3>1. Len(<<>>) = 0 /\ 1 .. 0 = {}
      BY EmptySeq
    <3>2. QED
      BY <3>1 DEF Quiet, Live
  <2>2. Observer \in Seated(userList) /\ Present(userList, wire, screen)
    BY <1>1, <2>1 DEF SeatsInv, Absent
  <2>3. \A s \in Seats : Will(wire, screen.view, s) <=> Node(s).on
    <3>1. \A s \in Seats : ~ LastSays(wire, s) /\ Silent(wire, s)
      BY <2>1 DEF LastSays, Silent
    <3>2. screen.view \in [Seats -> PlayerNode]
      BY <1>1 DEF ViewOK, FullScreen
    <3>3. QED
      BY <3>1, <3>2 DEF Will, Node
  <2>4. QED
    BY <2>1, <2>2, <2>3 DEF Present, Taken
<1>2. QED
  BY <1>1, ViewInvariant, PTL
-----------------------------------------------------------------------------
(***************************************************************************)
(* The menu.  The slider is on the screen, or will be when the packets     *)
(* under way have been handled, rightly as far as the client can know,     *)
(* only while the room waits for the observer's bet.                       *)
(***************************************************************************)

\* The packets that bring the slider or take it away from the player at seat s
MenuPackets(s) == {p \in Packet : p.id = "COUNTER" \/ (p.id = "BET" /\ p.slot = s)}

\* A counter for a player who has to bet
Counts == {p \in Packet : p.id = "COUNTER" /\ p.to = "BETTING"}

\* The slider will be shown, and not by a counter that came too early or too late.
WillSlide(w, sc, s) ==
  \/ LastIn(w, MenuPackets(s), Counts)
  \/ NoneIn(w, MenuPackets(s)) /\ sc.slider /\ "slider" \notin sc.misled[s]

\* The room has not told the player that its bet was taken.
MayBet(p) == p.gameState \in {"NONE", "WAITING", "BETTING"}

\* w is the wire, sc the screen of a player who sits at seat s, p its record.
MenuTold(w, sc, s, p) ==
  /\ NoneIn(w, {LeaveNtf(s)})
  /\ sc.scene # "game" /\ sc.slider => "slider" \in sc.misled[s]
  /\ WillSlide(w, sc, s) => MayBet(p)

MenuInv ==
  fault = "none" /\ Live =>
    \A s \in Seats : userList[s] = Observer => MenuTold(wire, screen, s, user[Observer])

\* The observer sends a choice only when its menu is up to date, and the choices
\* of the others are those that arrive.
NothingSent == \A u \in Users : sent[u] = "none"

\* What is under way when more packets are pushed
LEMMA PushMenu ==
  ASSUME NEW w \in Seq(Packet), NEW q \in Seq(Packet), NEW sc, NEW s, NEW p, NEW new,
         MenuTold(w, sc, s, p), NoneIn(q, {LeaveNtf(s)}),
         LastIn(q, MenuPackets(s), Counts) => MayBet(new),
         NoneIn(q, MenuPackets(s)) /\ MayBet(p) => MayBet(new)
  PROVE  MenuTold(w \o q, sc, s, new)
<1>1. NoneIn(w \o q, {LeaveNtf(s)})
  BY ConcatLast DEF MenuTold
<1>2. /\ NoneIn(w \o q, MenuPackets(s)) <=> NoneIn(w, MenuPackets(s)) /\ NoneIn(q, MenuPackets(s))
      /\ LastIn(w \o q, MenuPackets(s), Counts) <=>
           \/ LastIn(q, MenuPackets(s), Counts)
           \/ NoneIn(q, MenuPackets(s)) /\ LastIn(w, MenuPackets(s), Counts)
  BY ConcatLast
<1>3. WillSlide(w, sc, s) => MayBet(p)
  BY DEF MenuTold
<1>4. WillSlide(w \o q, sc, s) => MayBet(new)
  BY <1>2, <1>3 DEF WillSlide
<1>5. QED
  BY <1>1, <1>4 DEF MenuTold

\* The packets of a round bring no slider and tell of nobody's leaving.
LEMMA RoundMenu ==
  ASSUME NEW q \in Seq(RoundNtf), NEW s
  PROVE  /\ q \in Seq(Packet) /\ NoneIn(q, {LeaveNtf(s)})
         /\ ~ LastIn(q, MenuPackets(s), Counts)
<1>1. RoundNtf \subseteq GameNtf /\ RoundNtf \subseteq Packet
  BY GameNtfSilent DEF RoundNtf
<1>2. \A n \in 1 .. Len(q) : q[n] \in RoundNtf
  BY ElementOfSeq
<1>3. \A p \in RoundNtf : p.id # "LEAVE" /\ p.id # "COUNTER"
  BY GameNtfSilent DEF RoundNtf
<1>4. LeaveNtf(s).id = "LEAVE"
  BY DEF LeaveNtf
<1>5. QED
  BY <1>1, <1>2, <1>3, <1>4, SeqMonotonic DEF NoneIn, LastIn, Counts

\* A step of the room that leaves everybody in its seat and pushes packets of a round
LEMMA RoundKeepsMenu ==
  ASSUME ViewOK, MenuInv, fault = "none", NEW q, Push(userList, q),
         fault' = "none" => q \in Seq(RoundNtf), userList' = userList, screen' = screen,
         \A s \in Seats : /\ userList[s] = Observer /\ NoneIn(q, MenuPackets(s))
                          /\ MayBet(user[Observer])
                          => MayBet(user'[Observer])
  PROVE  MenuInv'
<1> SUFFICES ASSUME fault' = "none", Live', NEW s \in Seats, userList'[s] = Observer
             PROVE  MenuTold(wire', screen', s, user'[Observer])
  BY DEF MenuInv
<1>1. Live /\ userList[s] = Observer
  BY DEF Live
<1>2. Observer \in Seated(userList)
  BY <1>1, ObserverAssumption, UsersAssumption DEF Seated
<1>3. wire' = wire \o q /\ wire \in Seq(Packet)
  BY <1>2 DEF Push, ViewOK
<1>4. MenuTold(wire, screen, s, user[Observer])
  BY <1>1 DEF MenuInv
<1>5. /\ q \in Seq(Packet) /\ NoneIn(q, {LeaveNtf(s)})
      /\ ~ LastIn(q, MenuPackets(s), Counts)
  BY RoundMenu
<1>6. NoneIn(q, MenuPackets(s)) /\ MayBet(user[Observer]) => MayBet(user'[Observer])
  BY <1>1
<1>7. QED
  BY <1>3, <1>4, <1>5, <1>6, PushMenu

\* A step of a game that takes nobody's bet
LEMMA GameKeepsMenu ==
  ASSUME ViewOK, MenuInv, fault = "none", GamePush, userList' = userList, screen' = screen,
         Observer \in Seated(userList) /\ MayBet(user[Observer]) => MayBet(user'[Observer])
  PROVE  MenuInv'
<1> SUFFICES ASSUME fault' = "none", Live', NEW s \in Seats, userList'[s] = Observer
             PROVE  MenuTold(wire', screen', s, user'[Observer])
  BY DEF MenuInv
<1>1. Live /\ userList[s] = Observer
  BY DEF Live
<1>2. MenuTold(wire, screen, s, user[Observer]) /\ wire \in Seq(Packet)
  BY <1>1 DEF MenuInv, ViewOK
<1>3. MayBet(user[Observer]) => MayBet(user'[Observer])
  BY <1>1, ObserverAssumption, UsersAssumption DEF Seated
<1>4. CASE wire' = wire
  BY <1>2, <1>3, <1>4 DEF MenuTold
<1>5. ASSUME NEW q \in Seq(RoundNtf), wire' = wire \o q
      PROVE  MenuTold(wire', screen', s, user'[Observer])
  <2>1. /\ q \in Seq(Packet) /\ NoneIn(q, {LeaveNtf(s)})
        /\ ~ LastIn(q, MenuPackets(s), Counts)
    BY RoundMenu
  <2>2. QED
    BY <1>2, <1>3, <1>5, <2>1, PushMenu
<1>6. QED
  BY <1>4, <1>5 DEF GamePush

-----------------------------------------------------------------------------
(* Who may bet goes on to until its bet is announced.                      *)

\* The end of a game lets everybody bet again.
LEMMA EndKeepsBettor ==
  ASSUME NEW ul, SeatingType(ul), NEW us \in [Users -> UserRecord], NEW db,
         EndOfGame(ul, us, db), MayBet(us[Observer])
  PROVE  MayBet(user'[Observer])
<1>1. Observer \in Users /\ us[Observer] \in UserRecord
  BY ObserverAssumption
<1>2. ASSUME NEW earn, Settled(ul, us, db, earn) PROVE MayBet(user'[Observer])
  <2>1. ResetForNextGame(us[Observer]).gameState = "WAITING"
    BY <1>1 DEF ResetForNextGame, UserRecord
  <2> DEFINE r == ResetForNextGame(us[Observer])
             m == r.money + earn[Observer]
  <2>2. r \in UserRecord
    BY <1>1, ResetType
  <2> HIDE DEF r, m
  <2>3. [r EXCEPT !.money = m].gameState = r.gameState
    BY <2>2 DEF UserRecord
  <2>4. user'[Observer] = IF Observer \in Seated(ul) THEN [r EXCEPT !.money = m] ELSE us[Observer]
    BY <1>1, <1>2 DEF Settled, r, m
  <2>5. QED
    BY <2>1, <2>3, <2>4 DEF MayBet, r
<1>3. CASE Broken("dealer_overflow", us, db)
  BY <1>3 DEF Broken
<1>4. QED
  BY <1>2, <1>3 DEF EndOfGame

\* Whoever may bet is not given the turn.
LEMMA TurnGivenKeepsBettor ==
  ASSUME NEW ul, NEW us \in [Users -> UserRecord], PlayableSeats(ul, us) # {},
         user' = TurnGiven(ul, us), MayBet(us[Observer])
  PROVE  MayBet(user'[Observer])
<1>1. First(PlayableSeats(ul, us)) \in PlayableSeats(ul, us)
  BY FirstIsMember DEF PlayableSeats
<1>2. Playable(us[NextUser(ul, us)])
  BY <1>1 DEF PlayableSeats, NextUser
<1>3. NextUser(ul, us) # Observer
  BY <1>2 DEF Playable, MayBet
<1>4. user'[Observer] = us[Observer]
  BY <1>3, ObserverAssumption DEF TurnGiven
<1>5. QED
  BY <1>4

\* NotifyChangeTurn
LEMMA TurnKeepsBettor ==
  ASSUME NEW ul, SeatingType(ul), NEW us \in [Users -> UserRecord], NEW db,
         NotifyChangeTurn(ul, us, db), MayBet(us[Observer])
  PROVE  MayBet(user'[Observer])
<1>1. CASE PlayableSeats(ul, us) # {} /\ user' = TurnGiven(ul, us)
  BY <1>1, TurnGivenKeepsBettor
<1>2. CASE EndOfGame(ul, us, db)
  BY <1>2, EndKeepsBettor
<1>3. CASE Broken("empty_deck", us, db)
  BY <1>3 DEF Broken
<1>4. QED
  BY <1>1, <1>2, <1>3 DEF NotifyChangeTurn

\* A choice that is applied to somebody else
LEMMA ChoiceAppliedKeepsBettor ==
  ASSUME TypeOK, NEW u \in Users, u # Observer, NEW p \in UserRecord, NEW choice, NEW db,
         NEW sk, ChoiceApplied(u, choice, p, db, sk), MayBet(user[Observer])
  PROVE  MayBet(user'[Observer])
<1> DEFINE us == [user EXCEPT ![u] = AfterChoiceNtf(p)]
<1>1. us \in [Users -> UserRecord] /\ SeatingType(userList)
  BY SwitchType, UserReplacedType DEF TypeOK, SeatingType
<1>2. us[Observer] = user[Observer]
  BY DEF TypeOK
<1> HIDE DEF us
<1>3. CASE PlayableSeats(userList, us) # {} /\ user' = TurnGiven(userList, us)
  BY <1>1, <1>2, <1>3, TurnGivenKeepsBettor
<1>4. CASE NotifyChangeTurn(userList, us, db)
  BY <1>1, <1>2, <1>4, TurnKeepsBettor
<1>5. QED
  BY <1>3, <1>4 DEF ChoiceApplied, us

\* A card drawn by somebody else
LEMMA CardDrawnKeepsBettor ==
  ASSUME TypeOK, NEW u \in Users, u # Observer, NEW p \in UserRecord,
         NEW states \in SUBSET HandStates, NEW db, NEW sk, NEW choice,
         CardDrawn(u, choice, p, states, db, sk), MayBet(user[Observer])
  PROVE  MayBet(user'[Observer])
<1> DEFINE cur == p.curHand
<1>1. CASE Crash("empty_deck") \/ Crash("hand_overflow")
  BY <1>1 DEF Crash
<1>2. ASSUME p.hand[cur].num < HandSlots, NEW s \in states,
             ChoiceApplied(u, choice,
                           [p EXCEPT !.hand[cur] = [WithCard(@) EXCEPT !.state = s]],
                           db, sk)
      PROVE  MayBet(user'[Observer])
  <2>1. cur \in Hands /\ p.hand[cur] \in Hand
    BY DEF UserRecord
  <2>2. [WithCard(p.hand[cur]) EXCEPT !.state = s] \in Hand
    BY <1>2, <2>1, WithCardType DEF Hand
  <2>3. [p EXCEPT !.hand[cur] = [WithCard(@) EXCEPT !.state = s]] \in UserRecord
    BY <2>1, <2>2, HandReplacedType
  <2>4. QED
    BY <1>2, <2>3, ChoiceAppliedKeepsBettor
<1>3. QED
  BY <1>1, <1>2 DEF CardDrawn
\* A choice, of whoever is on turn
LEMMA ChoiceKeepsBettor ==
  ASSUME TypeOK, NothingSent, NEW u \in Users, ViewChoice(u), MayBet(user[Observer])
  PROVE  MayBet(user'[Observer])
<1> DEFINE p == user[u]
<1>1. p \in UserRecord /\ CurrentHand(p) \in Hand
  BY DEF TypeOK, UserRecord, CurrentHand
<1>2. ASSUME NEW choice \in Choices, ChoiceArrives(u, choice) PROVE u # Observer
  <2>1. sent[u] = "none" /\ choice # "none"
    BY DEF NothingSent, Choices
  <2>2. Offered(u, choice)
    BY <1>2, <2>1 DEF ChoiceArrives
  <2>3. QED
    BY <2>2 DEF Offered, MayBet
<1>3. {"STAND", "HIT", "DOUBLE_DOWN", "SPLIT"} = Choices
  BY DEF Choices
<1>4. user \in [Users -> UserRecord] /\ SeatingType(userList)
  BY DEF TypeOK, SeatingType
<1>5. CASE Stand(u)
  <2>1. SwitchHandIfSplitExist([p EXCEPT !.hand[p.curHand].state = "STAND"]) \in UserRecord
    BY <1>1, StoodType, SwitchType
  <2>2. u # Observer
    BY <1>2, <1>3, <1>5 DEF Stand
  <2>3. QED
    BY <1>5, <2>1, <2>2, ChoiceAppliedKeepsBettor DEF Stand
<1>6. CASE Hit(u)
  <2>1. AfterHit(CurrentHand(p)) \in SUBSET HandStates
    BY <1>1 DEF AfterHit, Hand, HandStates
  <2>2. u # Observer
    BY <1>2, <1>3, <1>6 DEF Hit
  <2>3. QED
    BY <1>1, <1>6, <2>1, <2>2, CardDrawnKeepsBettor DEF Hit
<1>7. CASE DoubleDown(u)
  <2>1. AfterDoubleDown(CurrentHand(p)) \in SUBSET HandStates /\ DoubledDown(p) \in UserRecord
    BY <1>1, DoubledDownType DEF AfterDoubleDown, HandStates
  <2>2. u # Observer
    BY <1>2, <1>3, <1>7 DEF DoubleDown
  <2>3. ChoiceRefused => MayBet(user'[Observer])
    BY <1>4, TurnKeepsBettor DEF ChoiceRefused
  <2>4. QED
    BY <1>7, <2>1, <2>2, <2>3, CardDrawnKeepsBettor DEF DoubleDown
<1>8. CASE Split(u)
  <2>1. SplitUser(p) \in UserRecord
    BY <1>1, SplitType
  <2>2. u # Observer
    BY <1>2, <1>3, <1>8 DEF Split
  <2>3. ChoiceRefused => MayBet(user'[Observer])
    BY <1>4, TurnKeepsBettor DEF ChoiceRefused
  <2>4. QED
    BY <1>1, <1>8, <2>1, <2>2, <2>3, ChoiceAppliedKeepsBettor DEF Split
<1>9. QED
  BY <1>5, <1>6, <1>7, <1>8 DEF ViewChoice

\* A turn that was not used
LEMMA TurnTimeoutKeepsBettor ==
  ASSUME TypeOK, TurnTimeout, MayBet(user[Observer])
  PROVE  MayBet(user'[Observer])
<1> DEFINE u  == userList[First(ActingSeats)]
           us == [user EXCEPT ![u] = AfterChoiceNtf(ForceNextTurn(user[u]))]
<1>1. user \in [Users -> UserRecord] /\ SeatingType(userList)
  BY DEF TypeOK, SeatingType
<1>2. CASE ActingSeats # {} /\ NotifyChangeTurn(userList, us, chip)
  <2>1. First(ActingSeats) \in ActingSeats
    BY <1>2, FirstIsMember DEF ActingSeats
  <2>2. user[u].gameState = "ACTIONING"
    BY <2>1 DEF ActingSeats
  <2>3. \A r \in UserRecord : AfterChoiceNtf(ForceNextTurn(r)) \in UserRecord
    BY StoodType, SwitchType
  <2>4. us \in [Users -> UserRecord]
    BY <1>1, <2>3
  <2>5. u # Observer
    BY <2>2 DEF MayBet
  <2>6. us[Observer] = user[Observer]
    BY <1>1, <2>5, ObserverAssumption
  <2> HIDE DEF us
  <2>7. QED
    BY <1>1, <1>2, <2>4, <2>6, TurnKeepsBettor
<1>3. CASE EndOfGame(userList, user, chip)
  BY <1>1, <1>3, EndKeepsBettor
<1>4. QED
  BY <1>2, <1>3 DEF TurnTimeout

\* Bets of others; a game starts only when nobody may bet any more.
LEMMA BetsKeepBettor ==
  ASSUME TypeOK, NEW bettors, NEW amount, BetsApplied(bettors, amount),
         Observer \in Seated(userList), Observer \notin bettors, MayBet(user[Observer])
  PROVE  MayBet(user'[Observer])
<1> DEFINE us == [u \in Users |-> IF u \in bettors THEN BetPlaced(user[u], amount) ELSE user[u]]
<1>1. us[Observer] = user[Observer]
  BY ObserverAssumption
<1> HIDE DEF us
<1>2. ~ AllBetDone(userList, us)
  BY <1>1 DEF AllBetDone, MayBet
<1>3. user' = us
  BY <1>2 DEF BetsApplied, us
<1>4. QED
  BY <1>1, <1>3

\* The announcement of bets has one for each seat of those who bet.
LEMMA BetNtfsTell ==
  ASSUME TypeOK, NEW bettors, NEW amount \in Nat, NEW s \in Seats, userList[s] \in bettors
  PROVE  ~ NoneIn(BetNtfs(bettors, amount), MenuPackets(s))
<1> DEFINE S == {t \in Seats : userList[t] \in bettors}
           order == InOrder(S)
           q == [n \in DOMAIN order |-> BetNtf(order[n], amount)]
<1>1. S \in SUBSET Seats /\ s \in S
  OBVIOUS
<1> HIDE DEF S
<1>2. order \in Seq(S) /\ \E n \in 1 .. Len(order) : order[n] = s
  BY <1>1, InOrderSeats
<1>3. order \in Seq(Seats) /\ DOMAIN order = 1 .. Len(order)
      /\ \A n \in DOMAIN order : order[n] \in Seats
  BY <1>1, <1>2, SeqMonotonic, LenProperties, ElementOfSeq
<1>4. BetNtfs(bettors, amount) = q \o StartNtfs
  BY DEF BetNtfs, S
<1> HIDE DEF order
<1>5. \A n \in DOMAIN order : q[n] = BetNtf(order[n], amount) /\ q[n] \in RoundNtf
  BY <1>3, GameNtfTypes
<1>6. q \in Seq(RoundNtf) /\ Len(q) = Len(order)
  BY <1>3, <1>5, ForEachSeat
<1> HIDE DEF q
<1>7. q \in Seq(Packet) /\ StartNtfs \in Seq(Packet)
  BY <1>6, StartNtfsType, RoundMenu
<1>8. PICK n \in 1 .. Len(q) : q[n] = BetNtf(s, amount) /\ q[n] \in Packet
  BY <1>2, <1>3, <1>5, <1>6, <1>7, ElementOfSeq
<1>9. q[n] \in MenuPackets(s)
  BY <1>8 DEF MenuPackets, BetNtf
<1>10. ~ NoneIn(q, MenuPackets(s))
  BY <1>9 DEF NoneIn
<1>11. QED
  BY <1>4, <1>7, <1>10, ConcatLast

\* Bets, applied and announced
LEMMA BetsMenu ==
  ASSUME ViewOK, MenuInv, fault = "none", NEW bettors, NEW amount \in Nat,
         BetsApplied(bettors, amount), Push(userList, BetNtfs(bettors, amount)), screen' = screen
  PROVE  MenuInv'
<1>1. BetNtfs(bettors, amount) \in Seq(RoundNtf) /\ userList' = userList /\ TypeOK
  BY BetNtfsType DEF ViewOK, BetsApplied
<1>2. ASSUME NEW s \in Seats, userList[s] = Observer,
             NoneIn(BetNtfs(bettors, amount), MenuPackets(s)), MayBet(user[Observer])
      PROVE  MayBet(user'[Observer])
  <2>1. Observer \in Seated(userList)
    BY <1>2, ObserverAssumption, UsersAssumption DEF Seated
  <2>2. Observer \notin bettors
    BY <1>1, <1>2, BetNtfsTell
  <2>3. QED
    BY <1>1, <1>2, <2>1, <2>2, BetsKeepBettor
<1>3. QED
  BY <1>1, <1>2, RoundKeepsMenu

-----------------------------------------------------------------------------
(* The menu when others come and go                                        *)

\* One packet
LEMMA OneIn ==
  ASSUME NEW p, NEW A, NEW B
  PROVE  /\ NoneIn(<<p>>, A) <=> p \notin A
         /\ LastIn(<<p>>, A, B) <=> p \in B
<1>1. Len(<<p>>) = 1 /\ <<p>>[1] = p /\ 1 .. 1 = {1} /\ (1 + 1) .. 1 = {}
  OBVIOUS
<1>2. NoneIn(<<p>>, A) <=> p \notin A
  BY <1>1 DEF NoneIn
<1>3. LastIn(<<p>>, A, B) <=> p \in B
  BY <1>1 DEF LastIn
<1>4. QED
  BY <1>2, <1>3

\* No packet
LEMMA NoPacket ==
  ASSUME NEW A, NEW B
  PROVE  <<>> \in Seq(Packet) /\ NoneIn(<<>>, A) /\ ~ LastIn(<<>>, A, B)
<1>1. <<>> \in Seq(Packet) /\ Len(<<>>) = 0 /\ 1 .. 0 = {}
  BY EmptySeq
<1>2. QED
  BY <1>1 DEF NoneIn, LastIn

\* Those who are kicked are told of without a word about the menu, and the
\* observer's seat is not among theirs unless it is kicked.
LEMMA LeaveNtfsMenu ==
  ASSUME NEW ul, NEW us, OneSeatEach(ul), Observer \in Seated(ul), Observer \notin Kicked(ul, us),
         NEW s \in Seats, ul[s] = Observer
  PROVE  /\ LeaveNtfs(ul, us) \in Seq(Packet)
         /\ NoneIn(LeaveNtfs(ul, us), {LeaveNtf(s)})
         /\ NoneIn(LeaveNtfs(ul, us), MenuPackets(s))
         /\ ~ LastIn(LeaveNtfs(ul, us), MenuPackets(s), Counts)
<1> DEFINE q == LeaveNtfs(ul, us)
<1>1. s \notin Heard(ul, us)
  BY HeardOfAll
<1>2. q \in Seq(Packet) /\ Silent(q, s) /\ \A n \in 1 .. Len(q) : q[n].id = "LEAVE"
  BY <1>1, LeaveNtfsSay
<1>3. Says(LeaveNtf(s), s)
  BY DEF Says, LeaveNtf
<1>4. \A n \in 1 .. Len(q) : q[n] # LeaveNtf(s)
  BY <1>2, <1>3 DEF Silent
<1>5. QED
  BY <1>2, <1>4 DEF NoneIn, LastIn, MenuPackets, Counts

\* Some packets without a word about the menu, and others
LEMMA PlainThen ==
  ASSUME NEW k \in Seq(Packet), NEW g \in Seq(Packet), NEW s,
         NoneIn(k, {LeaveNtf(s)}), NoneIn(k, MenuPackets(s)),
         ~ LastIn(k, MenuPackets(s), Counts), NoneIn(g, {LeaveNtf(s)})
  PROVE  /\ k \o g \in Seq(Packet) /\ NoneIn(k \o g, {LeaveNtf(s)})
         /\ LastIn(k \o g, MenuPackets(s), Counts) <=> LastIn(g, MenuPackets(s), Counts)
<1>1. k \o g \in Seq(Packet)
  BY ConcatMembers
<1>2. NoneIn(k \o g, {LeaveNtf(s)})
  BY ConcatLast
<1>3. LastIn(k \o g, MenuPackets(s), Counts) <=>
        \/ LastIn(g, MenuPackets(s), Counts)
        \/ NoneIn(g, MenuPackets(s)) /\ LastIn(k, MenuPackets(s), Counts)
  BY ConcatLast
<1>4. QED
  BY <1>1, <1>2, <1>3

\* What the observer is told of others while it keeps its seat
LEMMA OthersKeepMenu ==
  ASSUME ViewOK, NEW ul, NEW q, Push(ul, q), fault' = "none", Observer \in Seated(ul),
         screen' = screen, NEW s \in Seats, MenuTold(wire, screen, s, user[Observer]),
         q \in Seq(Packet), NoneIn(q, {LeaveNtf(s)}),
         LastIn(q, MenuPackets(s), Counts) => MayBet(user'[Observer]),
         MayBet(user[Observer]) => MayBet(user'[Observer])
  PROVE  MenuTold(wire', screen', s, user'[Observer])
<1>1. wire' = wire \o q /\ wire \in Seq(Packet)
  BY DEF Push, ViewOK
<1>2. QED
  BY <1>1, PushMenu

\* The room waits for bets again.
LEMMA RestartKeepsMenu ==
  ASSUME ViewOK, TypeOK', RoomInv, MenuInv, fault = "none", ViewRestartTimeout
  PROVE  MenuInv'
<1> DEFINE k == LeaveNtfs(userList, user)
           g == IF Observer \in Seated(userList') THEN <<CounterNtf(user')>> ELSE <<>>
<1> SUFFICES ASSUME fault' = "none", Live', NEW s \in Seats, userList'[s] = Observer
             PROVE  MenuTold(wire', screen', s, user'[Observer])
  BY DEF MenuInv
<1>1. /\ SetRoomStateToWaiting(userList, user, userCount)
      /\ screen' = screen /\ Push(userList, k \o g)
  BY DEF ViewRestartTimeout, RestartTimeout
<1>2. /\ userList' = [t \in Seats |-> IF userList[t] \in Kicked(userList, user) THEN NoUser
                                       ELSE userList[t]]
      /\ user' = [u \in Users |-> IF u \in Seated(userList) \ Kicked(userList, user)
                                  THEN [user[u] EXCEPT !.gameState = "BETTING"] ELSE user[u]]
  BY <1>1 DEF SetRoomStateToWaiting
<1>3. Observer # NoUser /\ Observer \in Users /\ Live
  BY <1>1, ObserverAssumption, UsersAssumption DEF Live
<1>4. userList[s] = Observer /\ Observer \notin Kicked(userList, user)
      /\ Observer \in Seated(userList)
  BY <1>2, <1>3 DEF Seated
<1>5. MayBet(user'[Observer])
  <2>1. user[Observer] \in UserRecord
    BY <1>3 DEF ViewOK, TypeOK
  <2>2. user'[Observer].gameState = "BETTING"
    BY <1>2, <1>3, <1>4, <2>1 DEF UserRecord
  <2>3. QED
    BY <2>2 DEF MayBet
<1>6. OneSeatEach(userList)
  BY DEF RoomInv, SeatsCounted, OneSeatEach
<1>7. k \in Seq(Packet) /\ NoneIn(k, {LeaveNtf(s)}) /\ NoneIn(k, MenuPackets(s))
      /\ ~ LastIn(k, MenuPackets(s), Counts)
  BY <1>4, <1>6, LeaveNtfsMenu
<1>8. g \in Seq(Packet) /\ NoneIn(g, {LeaveNtf(s)})
  <2>1. user'[Observer].gameState \in GameStates
    BY <1>3 DEF TypeOK, UserRecord
  <2>2. CounterNtf(user') \in Packet /\ CounterNtf(user') # LeaveNtf(s)
    <3>1. CounterNtf(user') \in GameNtf
      BY <2>1, GameNtfTypes DEF CounterNtf
    <3>2. CounterNtf(user').id # "LEAVE" /\ LeaveNtf(s).id = "LEAVE"
      BY DEF CounterNtf, LeaveNtf
    <3>3. QED
      BY <3>1, <3>2, GameNtfSilent
  <2>3. QED
    BY <2>2, OnePacket, OneIn, NoPacket
<1> HIDE DEF k, g
<1>9. k \o g \in Seq(Packet) /\ NoneIn(k \o g, {LeaveNtf(s)})
  BY <1>7, <1>8, PlainThen
<1>10. QED
  BY <1>1, <1>3, <1>4, <1>5, <1>9, OthersKeepMenu DEF MenuInv

\* Another user enters.
LEMMA EnterKeepsMenu ==
  ASSUME ViewOK, TypeOK', RoomInv, MenuInv, fault = "none", NEW u \in Users, u # Observer,
         ViewEnter(u)
  PROVE  MenuInv'
<1> DEFINE seat == First({s \in Seats : userList[s] = NoUser})
           ul   == [userList EXCEPT ![seat] = u]
           us   == [user EXCEPT ![u] = LoggedIn(user[u], chip[u])]
           k    == IF roomState \in {"NONE", "WAITING"} THEN LeaveNtfs(ul, us) ELSE <<>>
           p    == [id |-> "ENTER", slot |-> SeatOf(ul, u), user |-> UserInfo(user'[u])]
<1> SUFFICES ASSUME fault' = "none", Live', NEW s \in Seats, userList'[s] = Observer
             PROVE  MenuTold(wire', screen', s, user'[Observer])
  BY DEF MenuInv
<1>1. EnterUser(u) /\ Push(ul, k \o <<p>>) /\ screen' = screen
  BY DEF ViewEnter, EnterPackets
<1>2. /\ userList \in [Seats -> Users \cup {NoUser}] /\ OneSeatEach(userList)
      /\ userCount = Cardinality(Occupied(userList)) /\ Seated(userList) \subseteq connected
      /\ SeatingType(userList)
  BY DEF ViewOK, TypeOK, RoomInv, SeatsCounted, OneSeatEach, Occupied, SeatingType
<1>3. seat \in Seats /\ userList[seat] = NoUser /\ u \notin Seated(userList)
  BY <1>1, <1>2, FreeSeat DEF EnterUser
<1>4. Observer # NoUser /\ Observer \in Users /\ Live /\ u # NoUser
  BY <1>1, ObserverAssumption, UsersAssumption DEF Live
<1>5. \/ /\ roomState \in {"NONE", "WAITING"}
         /\ SetRoomStateToWaiting(ul, us, userCount + 1)
      \/ /\ roomState \notin {"NONE", "WAITING"}
         /\ userList' = ul /\ user' = us
  BY <1>1 DEF EnterUser
<1> HIDE DEF seat
<1>6. OneSeatEach(ul) /\ u \in Seated(ul) /\ ul[seat] = u
  <2>1. OneSeatEach(ul) /\ Seated(ul) = Seated(userList) \cup {u}
    BY <1>2, <1>3, SeatTaken
  <2>2. QED
    BY <1>2, <1>3, <2>1
<1>7. us[Observer] = user[Observer] /\ us[Observer] \in UserRecord
  BY <1>4 DEF ViewOK, TypeOK
<1> HIDE DEF us
<1>8. /\ ul[s] = Observer
      /\ roomState \in {"NONE", "WAITING"} => Observer \notin Kicked(ul, us)
  <2>1. CASE roomState \in {"NONE", "WAITING"} /\ SetRoomStateToWaiting(ul, us, userCount + 1)
    <3> HIDE DEF ul
    <3>1. userList'[s] = IF ul[s] \in Kicked(ul, us) THEN NoUser ELSE ul[s]
      BY <2>1 DEF SetRoomStateToWaiting
    <3>2. QED
      BY <1>4, <3>1
  <2>2. CASE roomState \notin {"NONE", "WAITING"} /\ userList' = ul
    BY <2>2
  <2>3. QED
    BY <1>5, <2>1, <2>2
<1>9. userList[s] = Observer /\ Observer \in Seated(ul)
  <2>1. userList[s] = Observer
    BY <1>2, <1>3, <1>8
  <2> HIDE DEF ul
  <2>2. Observer \in Seated(ul)
    BY <1>4, <1>8 DEF Seated
  <2>3. QED
    BY <2>1, <2>2
<1> HIDE DEF ul
<1>10. MayBet(user[Observer]) => MayBet(user'[Observer])
  <2>1. CASE roomState \in {"NONE", "WAITING"} /\ SetRoomStateToWaiting(ul, us, userCount + 1)
    <3>1. user'[Observer] = [us[Observer] EXCEPT !.gameState = "BETTING"]
      BY <1>4, <1>8, <1>9, <2>1 DEF SetRoomStateToWaiting
    <3>2. user'[Observer].gameState = "BETTING"
      BY <1>7, <3>1 DEF UserRecord
    <3>3. QED
      BY <3>2 DEF MayBet
  <2>2. CASE user' = us
    BY <1>7, <2>2
  <2>3. QED
    BY <1>5, <2>1, <2>2
<1>11. k \in Seq(Packet) /\ NoneIn(k, {LeaveNtf(s)}) /\ NoneIn(k, MenuPackets(s))
       /\ ~ LastIn(k, MenuPackets(s), Counts)
  <2>1. CASE roomState \in {"NONE", "WAITING"}
    BY <1>6, <1>8, <1>9, <2>1, LeaveNtfsMenu
  <2>2. CASE roomState \notin {"NONE", "WAITING"}
    <3>1. k = <<>>
      BY <2>2
    <3> HIDE DEF k
    <3>2. QED
      BY <3>1, NoPacket
  <2>3. QED
    BY <2>1, <2>2
<1>12. p \in Packet /\ p.id = "ENTER"
  <2>1. SeatOf(ul, u) \in Seats
    BY <1>6, SeatOfSeated
  <2>2. UserInfo(user'[u]) \in UserInfos
    BY UserInfoType DEF TypeOK
  <2>3. QED
    BY <2>1, <2>2 DEF Packet, EnterRes
<1> HIDE DEF k, p
<1>13. <<p>> \in Seq(Packet) /\ NoneIn(<<p>>, {LeaveNtf(s)})
       /\ ~ LastIn(<<p>>, MenuPackets(s), Counts)
  <2>1. p # LeaveNtf(s) /\ p \notin Counts
    BY <1>12 DEF LeaveNtf, Counts
  <2>2. QED
    BY <1>12, <2>1, OnePacket, OneIn
<1>14. k \o <<p>> \in Seq(Packet) /\ NoneIn(k \o <<p>>, {LeaveNtf(s)})
       /\ ~ LastIn(k \o <<p>>, MenuPackets(s), Counts)
  BY <1>11, <1>13, PlainThen
<1>15. QED
  BY <1>1, <1>4, <1>9, <1>10, <1>14, OthersKeepMenu DEF MenuInv
\* A counter is for a player who has to bet if it counts.
LEMMA CounterMenu ==
  ASSUME NEW us, us[Observer].gameState \in GameStates, NEW s
  PROVE  /\ <<CounterNtf(us)>> \in Seq(Packet) /\ NoneIn(<<CounterNtf(us)>>, {LeaveNtf(s)})
         /\ LastIn(<<CounterNtf(us)>>, MenuPackets(s), Counts) => MayBet(us[Observer])
<1> DEFINE p == CounterNtf(us)
<1>1. p = [id |-> "COUNTER", to |-> us[Observer].gameState]
  BY DEF CounterNtf
<1>2. p \in Packet
  BY <1>1, GameNtfTypes, GameNtfSilent
<1>3. p # LeaveNtf(s)
  BY <1>1 DEF LeaveNtf
<1>4. p \in Counts => MayBet(us[Observer])
  BY <1>1 DEF Counts, MayBet
<1> HIDE DEF p
<1>5. <<p>> \in Seq(Packet) /\ NoneIn(<<p>>, {LeaveNtf(s)})
      /\ (LastIn(<<p>>, MenuPackets(s), Counts) <=> p \in Counts)
  BY <1>2, <1>3, OnePacket, OneIn
<1>6. QED
  BY <1>4, <1>5 DEF p

\* Another user's session ends.
LEMMA CloseKeepsMenu ==
  ASSUME ViewOK, TypeOK', RoomInv, MenuInv, fault = "none", NEW u \in Users, u # Observer,
         ViewClose(u)
  PROVE  MenuInv'
<1> DEFINE seat == SeatOf(userList, u)
           k == <<LeaveNtf(seat)>>
           g == IF userCount # 1 /\ OnTurn(u) THEN <<TurnNtf>> ELSE <<>>
           done == [user EXCEPT ![u].gameState = "ACTION_DONE"]
<1> SUFFICES ASSUME fault' = "none", Live', NEW s \in Seats, userList'[s] = Observer
             PROVE  MenuTold(wire', screen', s, user'[Observer])
  BY DEF MenuInv
<1>1. CloseSession(u) /\ screen' = screen /\ Live
  BY DEF ViewClose, Live
<1>2. CASE u \notin Seated(userList)
  <2>1. UNCHANGED <<wire, userList, user, screen>>
    BY <1>1, <1>2 DEF ViewClose, CloseSession
  <2>2. QED
    BY <1>1, <2>1 DEF MenuInv
<1>3. CASE u \in Seated(userList)
  <2>1. LeaveRoom(u) /\ userList' = SeatGivenBack(u) /\ Push(userList, k \o g)
    BY <1>1, <1>3 DEF ViewClose, CloseSession, LeaveRoom
  <2>2. seat \in Seats /\ userList[seat] = u /\ u # NoUser /\ Observer # NoUser /\ Observer \in Users
    BY <1>3, SeatOfSeated, ObserverAssumption, UsersAssumption
  <2>3. \A t \in Seats : userList'[t] = IF t = seat THEN NoUser ELSE userList[t]
    BY <2>1, <2>2 DEF SeatGivenBack, RoomInv, SeatsCounted
  <2>4. s # seat /\ userList[s] = Observer /\ Observer \in Seated(userList)
    BY <2>2, <2>3 DEF Seated
  <2>5. LeaveNtf(seat) \in Packet /\ LeaveNtf(seat).id = "LEAVE" /\ LeaveNtf(seat) # LeaveNtf(s)
    BY <2>2, <2>4 DEF LeaveNtf, Packet, LeaveRes
  <2>6. k \in Seq(Packet) /\ NoneIn(k, {LeaveNtf(s)}) /\ NoneIn(k, MenuPackets(s))
        /\ ~ LastIn(k, MenuPackets(s), Counts)
    <3>1. LeaveNtf(seat) \notin MenuPackets(s) /\ LeaveNtf(seat) \notin Counts
      BY <2>5 DEF MenuPackets, Counts
    <3>2. QED
      BY <2>5, <3>1, OnePacket, OneIn
  <2>7. done \in [Users -> UserRecord] /\ done[Observer] = user[Observer]
    <3>1. user \in [Users -> UserRecord] /\ user[u] \in UserRecord
      BY DEF ViewOK, TypeOK
    <3>2. [user[u] EXCEPT !.gameState = "ACTION_DONE"] \in UserRecord
      BY <3>1 DEF UserRecord, GameStates
    <3>3. QED
      BY <2>2, <3>1, <3>2
  <2>8. SeatingType(SeatGivenBack(u)) /\ chip \in [Users -> Int] /\ buttons \subseteq Choices
    BY DEF ViewOK, TypeOK, SeatingType, SeatGivenBack
  <2>9. g \in Seq(RoundNtf)
    <3>1. CASE userCount # 1 /\ OnTurn(u)
      <4>1. NotifyChangeTurn(SeatGivenBack(u), done, chip)
        BY <2>1, <3>1 DEF LeaveRoom
      <4>2. TurnTold
        BY <2>1, <2>7, <2>8, <4>1, ChangeTurnTold
      <4>3. QED
        BY <3>1, <4>2, TurnNtfType, OnePacket
    <3>2. CASE ~ (userCount # 1 /\ OnTurn(u))
      BY <3>2, EmptySeq
    <3>3. QED
      BY <3>1, <3>2
  <2>10. MayBet(user[Observer]) => MayBet(user'[Observer])
    <3>1. CASE user' = user
      BY <3>1
    <3>2. CASE NotifyChangeTurn(SeatGivenBack(u), done, chip)
      <4> HIDE DEF done
      <4>1. QED
        BY <2>7, <2>8, <3>2, TurnKeepsBettor
    <3>3. QED
      BY <2>1, <3>1, <3>2 DEF LeaveRoom
  <2> HIDE DEF k, g
  <2>11. g \in Seq(Packet) /\ NoneIn(g, {LeaveNtf(s)}) /\ ~ LastIn(g, MenuPackets(s), Counts)
    BY <2>9, RoundMenu
  <2>12. k \o g \in Seq(Packet) /\ NoneIn(k \o g, {LeaveNtf(s)})
         /\ ~ LastIn(k \o g, MenuPackets(s), Counts)
    BY <2>6, <2>11, PlainThen
  <2>13. MenuTold(wire, screen, s, user[Observer])
    BY <1>1, <2>4 DEF MenuInv
  <2>14. QED
    BY <1>1, <2>1, <2>4, <2>10, <2>12, <2>13, OthersKeepMenu
<1>4. QED
  BY <1>2, <1>3

\* The list, and the counter of a room that waits for bets
LEMMA ListKeepsMenu ==
  ASSUME ViewOK, MenuInv, fault = "none", NEW u, UserListReq(u)
  PROVE  MenuInv'
<1> DEFINE taken == {t \in Seats : userList[t] # NoUser}
           p == [id |-> "LIST", slot |-> SeatOf(userList, u),
                 users |-> [s \in taken |-> UserInfo(user[userList[s]])]]
           k == IF u # Observer THEN <<>> ELSE <<p>>
           g == IF roomState = "WAITING" /\ Observer \in Seated(userList)
                THEN <<CounterNtf(user)>> ELSE <<>>
<1> SUFFICES ASSUME fault' = "none", Live', NEW s \in Seats, userList'[s] = Observer
             PROVE  MenuTold(wire', screen', s, user'[Observer])
  BY DEF MenuInv
<1>1. UNCHANGED <<screen, userList, user>> /\ Live
  BY DEF UserListReq, Crash, vars, Live
<1>2. Observer \in Users /\ Observer \in Seated(userList) /\ userList[s] = Observer
  BY <1>1, ObserverAssumption, UsersAssumption DEF Seated
<1>3. MenuTold(wire, screen, s, user[Observer])
  BY <1>1, <1>2 DEF MenuInv
<1>4. CASE wire' = wire
  BY <1>1, <1>3, <1>4
<1>5. CASE u \in Seated(userList) /\ Push(userList, k \o g)
  <2>1. g \in Seq(Packet) /\ NoneIn(g, {LeaveNtf(s)})
        /\ (LastIn(g, MenuPackets(s), Counts) => MayBet(user[Observer]))
    <3>1. user[Observer].gameState \in GameStates
      BY <1>2 DEF ViewOK, TypeOK, UserRecord
    <3>2. CASE g = <<CounterNtf(user)>>
      <4> HIDE DEF g
      <4>1. QED
        BY <3>1, <3>2, CounterMenu
    <3>3. CASE g = <<>>
      <4> HIDE DEF g
      <4>1. QED
        BY <3>3, NoPacket
    <3>4. QED
      BY <3>2, <3>3
  <2> HIDE DEF g
  <2>2. k \in Seq(Packet) /\ NoneIn(k, {LeaveNtf(s)}) /\ NoneIn(k, MenuPackets(s))
        /\ ~ LastIn(k, MenuPackets(s), Counts)
    <3>1. CASE u # Observer
      <4>1. k = <<>>
        BY <3>1
      <4> HIDE DEF k
      <4>2. QED
        BY <4>1, NoPacket
    <3>2. CASE u = Observer
      <4>1. SeatOf(userList, u) \in taken
        BY <1>2, <1>5, <3>2, SeatOfSeated, UsersAssumption
      <4>2. [t \in taken |-> UserInfo(user[userList[t]])] \in [taken -> UserInfos]
        <5>1. ASSUME NEW t \in taken PROVE UserInfo(user[userList[t]]) \in UserInfos
          BY UserInfoType DEF ViewOK, TypeOK
        <5>2. QED
          BY <5>1
      <4>3. p \in [id : {"LIST"}, slot : taken, users : [taken -> UserInfos]]
        BY <4>1, <4>2
      <4>4. p \in Packet
        <5>1. taken \in SUBSET Seats
          OBVIOUS
        <5>2. p \in ListRes
          BY <4>3, <5>1 DEF ListRes
        <5>3. QED
          BY <5>2 DEF Packet
      <4>5. p.id = "LIST" /\ k = <<p>>
        BY <3>2
      <4> HIDE DEF p, k
      <4>6. p # LeaveNtf(s) /\ p \notin MenuPackets(s) /\ p \notin Counts
        BY <4>5 DEF LeaveNtf, MenuPackets, Counts
      <4>7. QED
        BY <4>4, <4>5, <4>6, OnePacket, OneIn
    <3>3. QED
      BY <3>1, <3>2
  <2> HIDE DEF k
  <2>3. k \o g \in Seq(Packet) /\ NoneIn(k \o g, {LeaveNtf(s)})
        /\ (LastIn(k \o g, MenuPackets(s), Counts) => MayBet(user[Observer]))
    BY <2>1, <2>2, PlainThen
  <2>4. QED
    BY <1>1, <1>2, <1>3, <1>5, <2>3, OthersKeepMenu
<1>6. QED
  BY <1>4, <1>5 DEF UserListReq

\* The observer enters: the login scene has no menu.
LEMMA OwnEntryMenu ==
  ASSUME ViewOK, RoomInv, ViewEnter(Observer)
  PROVE  MenuInv'
<1> DEFINE seat == First({s \in Seats : userList[s] = NoUser})
           ul   == [userList EXCEPT ![seat] = Observer]
           us   == [user EXCEPT ![Observer] = LoggedIn(user[Observer], chip[Observer])]
           e    == [id |-> "ENTER_RES"]
           k    == IF roomState \in {"NONE", "WAITING"} THEN LeaveNtfs(ul, us) ELSE <<>>
<1> SUFFICES ASSUME fault' = "none", Live', NEW s \in Seats, userList'[s] = Observer
             PROVE  MenuTold(wire', screen', s, user'[Observer])
  BY DEF MenuInv
<1>1. EnterUser(Observer) /\ screen' = Blank("login") /\ wire' = k \o <<e>>
  BY DEF ViewEnter, EnterPackets
<1>2. Observer # NoUser /\ Observer \in Users
  BY ObserverAssumption, UsersAssumption
<1>3. /\ userList \in [Seats -> Users \cup {NoUser}] /\ OneSeatEach(userList)
      /\ userCount = Cardinality(Occupied(userList)) /\ Seated(userList) \subseteq connected
      /\ SeatingType(userList)
  BY DEF ViewOK, TypeOK, RoomInv, SeatsCounted, OneSeatEach, Occupied, SeatingType
<1>4. seat \in Seats /\ userList[seat] = NoUser /\ Observer \notin Seated(userList)
  BY <1>1, <1>3, FreeSeat DEF EnterUser
<1> HIDE DEF seat
<1>5. OneSeatEach(ul) /\ Observer \in Seated(ul)
  <2>1. OneSeatEach(ul) /\ Seated(ul) = Seated(userList) \cup {Observer}
    BY <1>2, <1>3, <1>4, SeatTaken
  <2> HIDE DEF ul
  <2>2. QED
    BY <2>1
<1>6. /\ roomState \in {"NONE", "WAITING"} => Observer \notin Kicked(ul, us)
      /\ ul[s] = Observer
  <2>1. CASE /\ roomState \in {"NONE", "WAITING"}
             /\ SetRoomStateToWaiting(ul, us, userCount + 1)
             /\ fault' = IF Observer \in Kicked(ul, us) THEN "null_room" ELSE fault
    <3> HIDE DEF ul, us
    <3>1. Observer \notin Kicked(ul, us)
      BY <2>1
    <3>2. userList'[s] = IF ul[s] \in Kicked(ul, us) THEN NoUser ELSE ul[s]
      BY <2>1 DEF SetRoomStateToWaiting
    <3>3. QED
      BY <1>2, <3>1, <3>2
  <2>2. CASE roomState \notin {"NONE", "WAITING"} /\ userList' = ul
    BY <2>2
  <2>3. QED
    BY <1>1, <2>1, <2>2 DEF EnterUser, seat
<1> HIDE DEF ul, us
<1>7. k \in Seq(Packet) /\ NoneIn(k, {LeaveNtf(s)}) /\ NoneIn(k, MenuPackets(s))
      /\ ~ LastIn(k, MenuPackets(s), Counts)
  <2>1. CASE roomState \in {"NONE", "WAITING"}
    BY <1>5, <1>6, <2>1, LeaveNtfsMenu
  <2>2. CASE roomState \notin {"NONE", "WAITING"}
    <3>1. k = <<>>
      BY <2>2
    <3> HIDE DEF k
    <3>2. QED
      BY <3>1, NoPacket
  <2>3. QED
    BY <2>1, <2>2
<1>8. <<e>> \in Seq(Packet) /\ NoneIn(<<e>>, {LeaveNtf(s)})
      /\ ~ LastIn(<<e>>, MenuPackets(s), Counts)
  <2>1. e \in Packet /\ e.id = "ENTER_RES"
    BY DEF Packet
  <2>2. e # LeaveNtf(s) /\ e \notin Counts
    <3>1. LeaveNtf(s).id = "LEAVE"
      BY DEF LeaveNtf
    <3> HIDE DEF e
    <3>2. QED
      BY <2>1, <3>1 DEF Counts
  <2> HIDE DEF e
  <2>3. QED
    BY <2>1, <2>2, OnePacket, OneIn
<1> HIDE DEF k, e
<1>9. NoneIn(wire', {LeaveNtf(s)}) /\ ~ LastIn(wire', MenuPackets(s), Counts)
  BY <1>1, <1>7, <1>8, PlainThen
<1>10. ~ screen'.slider
  BY <1>1 DEF Blank
<1>11. QED
  BY <1>9, <1>10 DEF MenuTold, WillSlide
-----------------------------------------------------------------------------
(* The client's handlers, as far as they are about the menu                *)

\* What the packet p makes of the slider, and of what excuses it
MenuFollows(p, new) ==
  /\ new.slider = IF p.id = "COUNTER" THEN TRUE
                  ELSE screen.slider /\ ~ (p.id = "BET" /\ OwnSlot(p.slot))
  /\ \A s \in Seats :
       "slider" \in new.misled[s] <=>
         IF p.id = "COUNTER" THEN p.to # "BETTING" \/ screen.scene = "scene"
         ELSE /\ "slider" \in screen.misled[s]
              /\ ~ (p.id = "LEAVE" /\ p.slot = s)
              /\ ~ (p.id = "BET" /\ OwnSlot(p.slot) /\ p.slot = s)

\* A handler that leaves the menu alone
LEMMA MenuLeft ==
  ASSUME screen \in FullScreen, NEW p, p.id \notin {"COUNTER", "BET", "LEAVE"},
         NEW new, Display(new), new.slider = screen.slider,
         \A s \in Seats : "slider" \in new.misled[s] <=> "slider" \in screen.misled[s]
  PROVE  Lost \/ MenuFollows(p, screen')
<1>1. screen.slider \in BOOLEAN
  BY DEF FullScreen
<1>2. QED
  BY <1>1 DEF Display, MenuFollows

\* The money of a seat excuses no slider.
LEMMA MoneyToldMenu ==
  ASSUME NEW s, NEW causes
  PROVE  "slider" \in MoneyTold(s, causes) <=> "slider" \in causes
BY DEF MoneyTold

\* The answer, the list, a player who enters
LEMMA ComersMenu ==
  ASSUME screen \in FullScreen, NEW p \in Packet,
         \/ p.id = "ENTER_RES" /\ OpenGameScene
         \/ p.id = "LIST" /\ UserListRes(p)
         \/ p.id = "ENTER" /\ EnterUserNtf(p)
  PROVE  Lost \/ MenuFollows(p, screen')
<1>1. screen.misled \in [Seats -> SUBSET Causes]
  BY DEF FullScreen
<1>2. CASE p.id = "ENTER_RES" /\ OpenGameScene
  <2> DEFINE new == [screen EXCEPT !.scene = "scene"]
  <2>1. Display(new)
    BY <1>2 DEF OpenGameScene
  <2>2. new.slider = screen.slider /\ new.misled = screen.misled
    BY DEF FullScreen
  <2> HIDE DEF new
  <2>3. QED
    BY <1>2, <2>1, <2>2, MenuLeft
<1>3. CASE p.id = "LIST" /\ UserListRes(p)
  <2> DEFINE listed == DOMAIN p.users
             view == [s \in Seats |-> IF s \in listed THEN SeatedAs(screen.view[s], p.users[s])
                                      ELSE screen.view[s]]
             misled == [s \in Seats |-> IF s \in listed THEN MoneyTold(s, screen.misled[s])
                                        ELSE screen.misled[s]]
             new == [screen EXCEPT !.scene = "game", !.slot = p.slot, !.view = view,
                                   !.misled = misled]
  <2>1. Display(new)
    BY <1>3 DEF UserListRes
  <2>2. \A s \in Seats : "slider" \in misled[s] <=> "slider" \in screen.misled[s]
    BY MoneyToldMenu
  <2> HIDE DEF view, misled
  <2>3. new.slider = screen.slider /\ new.misled = misled
    BY DEF FullScreen
  <2> HIDE DEF new
  <2>4. QED
    BY <1>3, <2>1, <2>2, <2>3, MenuLeft
<1>4. CASE p.id = "ENTER" /\ EnterUserNtf(p)
  <2> DEFINE node == SeatedAs(screen.view[p.slot], p.user)
             causes == MoneyTold(p.slot, screen.misled[p.slot])
             new == [screen EXCEPT !.view[p.slot] = node, !.misled[p.slot] = causes]
  <2>1. Display(new)
    BY <1>4 DEF EnterUserNtf
  <2>2. "slider" \in causes <=> "slider" \in screen.misled[p.slot]
    BY MoneyToldMenu
  <2> HIDE DEF node, causes
  <2>3. new.slider = screen.slider /\ new.misled = [screen.misled EXCEPT ![p.slot] = causes]
    BY DEF FullScreen
  <2>4. \A s \in Seats : "slider" \in new.misled[s] <=> "slider" \in screen.misled[s]
    BY <1>1, <2>2, <2>3
  <2> HIDE DEF new
  <2>5. QED
    BY <1>4, <2>1, <2>3, <2>4, MenuLeft
<1>5. QED
  BY <1>2, <1>3, <1>4

\* A player who leaves
LEMMA LeaverMenu ==
  ASSUME screen \in FullScreen, NEW p \in LeaveRes, LeaveUserNtf(p)
  PROVE  Lost \/ MenuFollows(p, screen')
<1> DEFINE node == Cleared(screen.view[p.slot])
           new == [screen EXCEPT !.view[p.slot] = node, !.misled[p.slot] = {}]
<1>1. p.slot \in Seats /\ p.id = "LEAVE"
  BY DEF LeaveRes
<1>2. Lost \/ Display(new)
  BY DEF LeaveUserNtf
<1> HIDE DEF node
<1>3. new.slider = screen.slider /\ new.misled = [screen.misled EXCEPT ![p.slot] = {}]
      /\ screen.misled \in [Seats -> SUBSET Causes] /\ screen.slider \in BOOLEAN
  BY DEF FullScreen
<1> HIDE DEF new
<1>4. \A s \in Seats : "slider" \in new.misled[s] <=> "slider" \in screen.misled[s] /\ s # p.slot
  BY <1>1, <1>3
<1>5. MenuFollows(p, new)
  BY <1>1, <1>3, <1>4 DEF MenuFollows
<1>6. QED
  BY <1>2, <1>5 DEF Display

\* A bet
LEMMA BetMenu ==
  ASSUME screen \in FullScreen, NEW p \in GameNtf, p.id = "BET", GameBetNtf(p)
  PROVE  Lost \/ MenuFollows(p, screen')
<1> DEFINE node == BetFromMoney(screen.view[p.slot], p.bet)
           slider == SliderAfterBet(p.slot)
           causes == IF OwnSlot(p.slot) THEN screen.misled[p.slot] \ {"slider"}
                     ELSE screen.misled[p.slot]
           new == [screen EXCEPT !.view[p.slot] = node, !.slider = slider,
                                 !.misled[p.slot] = causes]
<1>1. p.slot \in Seats
  BY DEF GameNtf
<1>2. slider = (screen.slider /\ ~ OwnSlot(p.slot))
  BY DEF SliderAfterBet
<1>3. "slider" \in causes <=> "slider" \in screen.misled[p.slot] /\ ~ OwnSlot(p.slot)
  OBVIOUS
<1>4. Display(new)
  BY DEF GameBetNtf
<1> HIDE DEF node, slider, causes
<1>5. new.slider = slider /\ new.misled = [screen.misled EXCEPT ![p.slot] = causes]
      /\ screen.misled \in [Seats -> SUBSET Causes] /\ screen.slider \in BOOLEAN
  BY DEF FullScreen
<1> HIDE DEF new
<1>6. \A s \in Seats : "slider" \in new.misled[s] <=>
                         "slider" \in screen.misled[s] /\ ~ (OwnSlot(p.slot) /\ p.slot = s)
  BY <1>1, <1>3, <1>5
<1>7. MenuFollows(p, new)
  BY <1>2, <1>5, <1>6 DEF MenuFollows
<1>8. QED
  BY <1>4, <1>7 DEF Display

\* The counter
LEMMA SliderComes ==
  ASSUME screen \in FullScreen, NEW p \in GameNtf, p.id = "COUNTER", BetCounter(p)
  PROVE  Lost \/ MenuFollows(p, screen')
<1> DEFINE astray == p.to # "BETTING" \/ screen.scene = "scene"
           view == [s \in Seats |-> HandsCleared(screen.view[s])]
           misled == [s \in Seats |-> (screen.misled[s] \ {"cards", "slider"})
                                        \cup (IF astray THEN {"slider"} ELSE {})]
           new == [screen EXCEPT !.view = view, !.slider = TRUE, !.misled = misled]
<1>1. \A s \in Seats : "slider" \in misled[s] <=> astray
  OBVIOUS
<1>2. Display(new)
  BY DEF BetCounter
<1> HIDE DEF view, misled
<1>3. new.slider = TRUE /\ new.misled = misled
  BY DEF FullScreen
<1> HIDE DEF new
<1>4. MenuFollows(p, new)
  BY <1>1, <1>3 DEF MenuFollows
<1>5. QED
  BY <1>2, <1>4 DEF Display

\* The packets of a round that leave the menu alone
LEMMA RoundLeavesMenu ==
  ASSUME screen \in FullScreen, NEW p \in GameNtf,
         \/ p.id = "START" /\ GameStart(p)
         \/ p.id = "TURN" /\ ChangeTurn(p)
         \/ p.id = "CHOICE" /\ GameChoiceNtf(p)
         \/ p.id = "RESULT" /\ DealerResult(p)
  PROVE  Lost \/ MenuFollows(p, screen')
<1>1. screen.misled \in [Seats -> SUBSET Causes]
  BY DEF FullScreen
<1>2. CASE p.id = "START" /\ GameStart(p)
  <2> DEFINE dealtTo == {s \in Seats : screen.view[s].on /\ p.cards[s] > 0}
             view == [s \in Seats |-> IF screen.view[s].on
                                      THEN WithDealt(screen.view[s], p.cards[s])
                                      ELSE screen.view[s]]
             misled == [s \in Seats |-> IF s \in dealtTo /\ screen.scene = "scene"
                                        THEN screen.misled[s] \cup {"cards"}
                                        ELSE screen.misled[s]]
             new == [screen EXCEPT !.view = view, !.misled = misled]
  <2>1. Display(new)
    BY <1>2 DEF GameStart
  <2> HIDE DEF dealtTo
  <2>2. \A s \in Seats : "slider" \in misled[s] <=> "slider" \in screen.misled[s]
    OBVIOUS
  <2> HIDE DEF view, misled
  <2>3. new.slider = screen.slider /\ new.misled = misled
    BY DEF FullScreen
  <2> HIDE DEF new
  <2>4. QED
    BY <1>2, <2>1, <2>2, <2>3, MenuLeft
<1>3. CASE p.id = "TURN" /\ ChangeTurn(p)
  <2> DEFINE new == [screen EXCEPT !.view[p.slot].top = p.hand]
  <2>1. Display(new)
    BY <1>3 DEF ChangeTurn
  <2>2. new.slider = screen.slider /\ new.misled = screen.misled
    BY DEF FullScreen
  <2> HIDE DEF new
  <2>3. QED
    BY <1>3, <2>1, <2>2, MenuLeft
<1>4. CASE p.id = "CHOICE" /\ GameChoiceNtf(p)
  <2> DEFINE node == WithChoice(screen.view[p.slot], p)
             causes == MoneyTold(p.slot, screen.misled[p.slot])
                         \cup (IF screen.scene = "scene" /\ p.choice # "STAND"
                               THEN {"cards"} ELSE {})
             new == [screen EXCEPT !.view[p.slot] = node, !.misled[p.slot] = causes]
  <2>1. Display(new)
    BY <1>4 DEF GameChoiceNtf
  <2>2. "slider" \in causes <=> "slider" \in screen.misled[p.slot]
    BY MoneyToldMenu
  <2> HIDE DEF node, causes
  <2>3. new.slider = screen.slider /\ new.misled = [screen.misled EXCEPT ![p.slot] = causes]
    BY DEF FullScreen
  <2>4. \A s \in Seats : "slider" \in new.misled[s] <=> "slider" \in screen.misled[s]
    BY <1>1, <2>2, <2>3
  <2> HIDE DEF new
  <2>5. QED
    BY <1>4, <2>1, <2>3, <2>4, MenuLeft
<1>5. CASE p.id = "RESULT" /\ DealerResult(p)
  <2> DEFINE late == [s \in WithCards \cup DOMAIN screen.late |->
                        IF s \in WithCards THEN p.money[s] ELSE screen.late[s]]
             misled == [s \in Seats |-> IF s \in WithCards THEN screen.misled[s] \ {"money"}
                                        ELSE IF s \in p.played THEN screen.misled[s] \cup {"money"}
                                        ELSE screen.misled[s]]
             new == [screen EXCEPT !.late = late, !.misled = misled]
  <2>1. Display(new)
    BY <1>5 DEF DealerResult
  <2>2. \A s \in Seats : "slider" \in misled[s] <=> "slider" \in screen.misled[s]
    OBVIOUS
  <2> HIDE DEF late, misled
  <2>3. new.slider = screen.slider /\ new.misled = misled
    BY DEF FullScreen
  <2> HIDE DEF new
  <2>4. QED
    BY <1>5, <2>1, <2>2, <2>3, MenuLeft
<1>6. QED
  BY <1>2, <1>3, <1>4, <1>5

\* A packet that is handled by the scene that waits for it
LEMMA RecvMenu ==
  ASSUME screen \in FullScreen, NEW p \in Packet, LoginSceneRecv(p) \/ GameSceneRecv(p)
  PROVE  Lost \/ MenuFollows(p, screen')
<1>1. p.id \in {"BET", "COUNTER", "START", "TURN", "CHOICE", "RESULT"} => p \in GameNtf
  BY PacketType
<1>2. p.id = "LEAVE" => p \in LeaveRes
  BY PacketType
<1>3. CASE LoginSceneRecv(p)
  BY <1>3, ComersMenu DEF LoginSceneRecv
<1>4. CASE GameSceneRecv(p)
  BY <1>1, <1>2, <1>4, ComersMenu, LeaverMenu, BetMenu, SliderComes, RoundLeavesMenu
     DEF GameSceneRecv
<1>5. QED
  BY <1>3, <1>4

\* Handling a packet keeps what is known of the menu.
LEMMA TailMenu ==
  ASSUME wire \in Seq(Packet), wire # <<>>, NEW new, Follows(Head(wire), new),
         MenuFollows(Head(wire), new), NEW s \in Seats, NEW r,
         screen.scene = "game" => screen.slot = s,
         Head(wire).id = "ENTER_RES" => screen.scene = "login",
         Head(wire).id # "ENTER_RES" => screen.scene \in {"scene", "game"},
         MenuTold(wire, screen, s, r)
  PROVE  MenuTold(Tail(wire), new, s, r)
<1> DEFINE p == Head(wire)
           t == Tail(wire)
<1>1. p \in Packet /\ t \in Seq(Packet) /\ wire = <<p>> \o t /\ <<p>> \in Seq(Packet)
  BY HeadSays, OnePacket
<1>2. /\ new.slider = IF p.id = "COUNTER" THEN TRUE
                      ELSE screen.slider /\ ~ (p.id = "BET" /\ p.slot = screen.slot)
      /\ "slider" \in new.misled[s] <=>
           IF p.id = "COUNTER" THEN p.to # "BETTING" \/ screen.scene = "scene"
           ELSE /\ "slider" \in screen.misled[s]
                /\ ~ (p.id = "LEAVE" /\ p.slot = s)
                /\ ~ (p.id = "BET" /\ p.slot = screen.slot /\ p.slot = s)
  BY DEF MenuFollows, OwnSlot
<1>3. /\ new.scene = IF p.id = "LIST" THEN "game"
                     ELSE IF p.id = "ENTER_RES" THEN "scene" ELSE screen.scene
      /\ p.id = "ENTER_RES" => screen.scene = "login"
      /\ p.id # "ENTER_RES" => screen.scene \in {"scene", "game"}
  BY DEF Follows
<1> HIDE DEF p, t
<1>4. /\ NoneIn(wire, {LeaveNtf(s)}) <=> NoneIn(<<p>>, {LeaveNtf(s)}) /\ NoneIn(t, {LeaveNtf(s)})
      /\ NoneIn(wire, MenuPackets(s)) <=> NoneIn(<<p>>, MenuPackets(s)) /\ NoneIn(t, MenuPackets(s))
      /\ LastIn(wire, MenuPackets(s), Counts) <=>
           \/ LastIn(t, MenuPackets(s), Counts)
           \/ NoneIn(t, MenuPackets(s)) /\ LastIn(<<p>>, MenuPackets(s), Counts)
  BY <1>1, ConcatLast
<1>5. /\ NoneIn(<<p>>, {LeaveNtf(s)}) <=> p # LeaveNtf(s)
      /\ NoneIn(<<p>>, MenuPackets(s)) <=> p \notin MenuPackets(s)
      /\ LastIn(<<p>>, MenuPackets(s), Counts) <=> p \in Counts
  BY OneIn
<1>6. NoneIn(t, {LeaveNtf(s)}) /\ p # LeaveNtf(s)
  BY <1>4, <1>5 DEF MenuTold
<1>7. ~ (p.id = "LEAVE" /\ p.slot = s)
  <2>1. p.id = "LEAVE" => p \in LeaveRes
    BY <1>1, PacketType
  <2>2. ASSUME p \in LeaveRes, p.slot = s PROVE p = LeaveNtf(s)
    BY <2>2 DEF LeaveRes, LeaveNtf
  <2>3. QED
    BY <1>6, <2>1, <2>2
<1>8. /\ p \in Counts <=> p.id = "COUNTER" /\ p.to = "BETTING"
      /\ p \in MenuPackets(s) <=> p.id = "COUNTER" \/ (p.id = "BET" /\ p.slot = s)
  BY <1>1 DEF Counts, MenuPackets
<1>9. screen.scene # "game" /\ screen.slider => "slider" \in screen.misled[s]
  BY DEF MenuTold
<1>10. new.scene # "game" /\ new.slider => "slider" \in new.misled[s]
  <2> SUFFICES ASSUME new.scene # "game", new.slider PROVE "slider" \in new.misled[s]
    OBVIOUS
  <2>1. screen.scene # "game"
    BY <1>3
  <2>2. CASE p.id = "COUNTER"
    <3>1. screen.scene = "scene"
      BY <1>3, <2>1, <2>2
    <3>2. QED
      BY <1>2, <2>2, <3>1
  <2>3. CASE p.id # "COUNTER"
    <3>1. screen.slider /\ ~ (p.id = "BET" /\ p.slot = screen.slot)
      BY <1>2, <2>3
    <3>2. "slider" \in screen.misled[s]
      BY <1>9, <2>1, <3>1
    <3>3. QED
      BY <1>2, <1>7, <2>3, <3>1, <3>2
  <2>4. QED
    BY <2>2, <2>3
<1>11. WillSlide(t, new, s) => WillSlide(wire, screen, s)
  <2>1. CASE LastIn(t, MenuPackets(s), Counts)
    BY <1>4, <2>1 DEF WillSlide
  <2>2. CASE NoneIn(t, MenuPackets(s)) /\ new.slider /\ "slider" \notin new.misled[s]
    <3>1. CASE p.id = "COUNTER"
      BY <1>2, <1>4, <1>5, <1>8, <2>2, <3>1 DEF WillSlide
    <3>2. CASE p.id = "BET" /\ p.slot = s
      <4>1. screen.slot # s
        BY <1>2, <2>2, <3>2
      <4>2. new.scene # "game"
        BY <1>3, <3>2, <4>1
      <4>3. QED
        BY <1>10, <2>2, <4>2
    <3>3. CASE p.id # "COUNTER" /\ ~ (p.id = "BET" /\ p.slot = s)
      <4>1. screen.slider /\ "slider" \notin screen.misled[s]
        BY <1>2, <1>7, <2>2, <3>3
      <4>2. NoneIn(wire, MenuPackets(s))
        BY <1>4, <1>5, <1>8, <2>2, <3>3
      <4>3. QED
        BY <4>1, <4>2 DEF WillSlide
    <3>4. QED
      BY <3>1, <3>2, <3>3
  <2>3. QED
    BY <2>1, <2>2 DEF WillSlide
<1>12. WillSlide(wire, screen, s) => MayBet(r)
  BY DEF MenuTold
<1>13. QED
  BY <1>6, <1>10, <1>11, <1>12 DEF MenuTold, t
\* The observer's client handles a packet.
LEMMA RecvKeepsMenu ==
  ASSUME ViewOK, RoomInv, SeatsInv, MenuInv, fault = "none", Recv
  PROVE  MenuInv'
<1> DEFINE p == Head(wire)
<1> SUFFICES ASSUME fault' = "none", Live', NEW s \in Seats, userList'[s] = Observer
             PROVE  MenuTold(wire', screen', s, user'[Observer])
  BY DEF MenuInv
<1>1. wire \in Seq(Packet) /\ wire # <<>> /\ screen \in FullScreen
  BY DEF ViewOK, Recv
<1>2. UNCHANGED <<userList, user>> /\ (LoginSceneRecv(p) \/ GameSceneRecv(p)) /\ Live
  BY DEF Recv, vars, LoginSceneRecv, GameSceneRecv, Live
<1>3. p \in Packet
  BY <1>1, HeadSays
<1>4. ~ Lost
  BY BlankType DEF Lost, Live, Scenes
<1>5. /\ Follows(p, screen') /\ wire' = Tail(wire)
      /\ p.id = "ENTER_RES" => screen.scene = "login"
      /\ p.id # "ENTER_RES" => screen.scene \in {"scene", "game"}
  BY <1>1, <1>2, <1>3, <1>4, RecvFollows
<1>6. MenuFollows(p, screen')
  BY <1>1, <1>2, <1>3, <1>4, RecvMenu
<1>7. userList[s] = Observer /\ Observer \in Seated(userList) /\ Observer # NoUser
  BY <1>2, ObserverAssumption, UsersAssumption DEF Seated
<1>8. MenuTold(wire, screen, s, user[Observer])
  BY <1>2, <1>7 DEF MenuInv
<1>9. screen.scene = "game" => screen.slot = s
  <2>1. screen.slot \in Seats
    BY <1>1 DEF FullScreen
  <2>2. screen.scene = "game" => userList[screen.slot] = Observer
    BY <1>2, <1>7 DEF SeatsInv, Present
  <2>3. QED
    BY <1>7, <2>1, <2>2 DEF RoomInv, SeatsCounted
<1> HIDE DEF p
<1>10. MenuTold(Tail(wire), screen', s, user[Observer])
  BY <1>1, <1>5, <1>6, <1>8, <1>9, TailMenu DEF p
<1>11. QED
  BY <1>2, <1>5, <1>10

\* The client's own steps: the click hides the slider.
LEMMA OwnStepKeepsMenu ==
  ASSUME ViewOK, MenuInv, fault = "none", DelayOver \/ BetButton
  PROVE  MenuInv'
<1> SUFFICES ASSUME fault' = "none", Live', NEW s \in Seats, userList'[s] = Observer
             PROVE  MenuTold(wire', screen', s, user'[Observer])
  BY DEF MenuInv
<1>1. UNCHANGED <<userList, user, wire>> /\ screen \in FullScreen
  BY DEF DelayOver, BetButton, vars, ViewOK
<1>2. CASE DelayOver
  <2> DEFINE view == [t \in Seats |-> IF t \in DOMAIN screen.late
                                      THEN [screen.view[t] EXCEPT !.bet = 0,
                                                                  !.money = screen.late[t]]
                                      ELSE screen.view[t]]
  <2>1. screen' = [screen EXCEPT !.late = <<>>, !.view = view]
    BY <1>2 DEF DelayOver
  <2> HIDE DEF view
  <2>2. screen'.scene = screen.scene /\ screen'.slider = screen.slider
        /\ screen'.misled = screen.misled
    BY <1>1, <2>1 DEF FullScreen
  <2>3. MenuTold(wire, screen, s, user[Observer])
    BY <1>1, <2>2 DEF MenuInv, Live
  <2>4. QED
    BY <1>1, <2>2, <2>3 DEF MenuTold, WillSlide
<1>3. CASE BetButton
  <2> DEFINE misled == [t \in Seats |-> screen.misled[t] \ {"slider"}]
  <2>1. screen' = [screen EXCEPT !.slider = FALSE, !.misled = misled]
    BY <1>3 DEF BetButton
  <2> HIDE DEF misled
  <2>2. screen'.scene = screen.scene /\ ~ screen'.slider
    BY <1>1, <2>1 DEF FullScreen
  <2>3. MenuTold(wire, screen, s, user[Observer])
    BY <1>1, <2>2 DEF MenuInv, Live
  <2>4. QED
    BY <1>1, <2>2, <2>3 DEF MenuTold, WillSlide
<1>4. QED
  BY <1>2, <1>3

\* No step of the room with its observer leaves a choice under way.
LEMMA NothingIsSent ==
  ASSUME TypeOK, NothingSent, ViewNext
  PROVE  NothingSent'
<1>1. sent \in [Users -> Choices \cup {"none"}]
  BY DEF TypeOK
<1>2. ASSUME NEW u \in Users, sent' = sent \/ sent' = [sent EXCEPT ![u] = "none"]
      PROVE  NothingSent'
  BY <1>1, <1>2 DEF NothingSent
<1>3. ASSUME NEW u \in Users, Connects(u) \/ Disconnects(u) PROVE NothingSent'
  <2>1. sent' = sent \/ sent' = [sent EXCEPT ![u] = "none"]
    BY <1>3 DEF Connects, Disconnects, ViewEnter, ViewClose, EnterUser, CloseSession
  <2>2. QED
    BY <1>2, <2>1
<1>4. ASSUME NEW u \in Users, OtherBet(u) \/ ViewChoice(u) \/ UserListReq(u) PROVE NothingSent'
  <2>1. sent' = sent \/ sent' = [sent EXCEPT ![u] = "none"]
    BY <1>4 DEF OtherBet, ViewBet, GameBet, ViewChoice, Stand, Hit, DoubleDown, Split,
                ChoiceArrives, UserListReq, vars
  <2>2. QED
    BY <1>2, <2>1
<1>5. ASSUME ObserverBet \/ ViewBettingTimeout \/ ViewHandoutTimeout \/ ViewTurnTimeout
               \/ ViewRestartTimeout \/ ClientStep
      PROVE  NothingSent'
  <2>1. sent' = sent
    BY <1>5 DEF ObserverBet, ViewBet, GameBet, ViewBettingTimeout, ViewHandoutTimeout,
                ViewTurnTimeout, ViewRestartTimeout, ClientStep, Recv, DelayOver, BetButton, vars
  <2>2. QED
    BY <1>2, <2>1, ObserverAssumption
<1>6. QED
  BY <1>3, <1>4, <1>5 DEF ViewNext, RoomStep

\* Every step keeps what is known of the menu.
LEMMA MenuStep ==
  ASSUME ViewOK, RoomInv, SeatsInv, MenuInv, NothingSent, [ViewNext]_viewVars
  PROVE  MenuInv' /\ NothingSent'
<1>1. CASE UNCHANGED viewVars
  <2>1. UNCHANGED <<wire, screen, userList, user, fault, sent>>
    BY <1>1 DEF viewVars, vars
  <2>2. QED
    BY <2>1 DEF MenuInv, Live, NothingSent
<1>2. CASE ViewNext
  <2>1. fault = "none" /\ TypeOK /\ TypeOK' /\ RoomInv' /\ bid \subseteq Bets
    BY <1>2, RoomUnderneath DEF ViewNext, ViewOK
  <2>2. NothingSent'
    BY <1>2, <2>1, NothingIsSent
  <2>3. ASSUME NEW u \in Users, Connects(u) PROVE MenuInv'
    BY <2>1, <2>3, OwnEntryMenu, EnterKeepsMenu DEF Connects
  <2>4. ASSUME NEW u \in Users, Disconnects(u) PROVE MenuInv'
    <3>1. CASE u = Observer
      <4>1. screen'.scene = "gone"
        BY <2>4, <3>1, BlankType DEF Disconnects, ViewClose, Scenes
      <4>2. QED
        BY <4>1 DEF MenuInv, Live
    <3>2. CASE u # Observer
      BY <2>1, <2>4, <3>2, CloseKeepsMenu DEF Disconnects
    <3>3. QED
      BY <3>1, <3>2
  <2>5. \A money \in Bets : Amount(money) \in Nat
    BY ChipsAssumption, BetAssumption DEF Amount
  <2>6. ASSUME NEW u \in Users, NEW money \in Bets, ViewBet(u, money) PROVE MenuInv'
    <3>1. Amount(money) = IF money < MinBet THEN MinBet ELSE money
      BY DEF Amount
    <3>2. BetsApplied({u}, Amount(money)) /\ Push(userList, BetNtfs({u}, Amount(money)))
          /\ screen' = screen
      BY <2>6, <3>1 DEF ViewBet, GameBet
    <3>3. QED
      BY <2>1, <2>5, <3>2, BetsMenu
  <2>7. ASSUME NEW u \in Users, OtherBet(u) PROVE MenuInv'
    BY <2>6, <2>7 DEF OtherBet
  <2>8. ASSUME NEW u \in Users, ViewChoice(u) PROVE MenuInv'
    <3>1. GamePush /\ userList' = userList /\ screen' = screen
      BY <2>1, <2>8, ChoicePush, ChoiceMovesNobody
    <3>2. MayBet(user[Observer]) => MayBet(user'[Observer])
      BY <2>1, <2>8, ChoiceKeepsBettor
    <3>3. QED
      BY <2>1, <3>1, <3>2, GameKeepsMenu
  <2>9. ASSUME NEW u \in Users, UserListReq(u) PROVE MenuInv'
    BY <2>1, <2>9, ListKeepsMenu
  <2>10. ASSUME ObserverBet PROVE MenuInv'
    <3>1. PICK money \in bid : ViewBet(Observer, money) \/ UNCHANGED <<vars, wire, asked, screen>>
      BY <2>10 DEF ObserverBet
    <3>2. CASE ViewBet(Observer, money)
      BY <2>1, <2>6, <3>2, ObserverAssumption
    <3>3. CASE UNCHANGED <<vars, wire, asked, screen>>
      <4>1. UNCHANGED <<wire, screen, userList, user, fault>>
        BY <3>3 DEF vars
      <4>2. QED
        BY <4>1 DEF MenuInv, Live
    <3>4. QED
      BY <3>1, <3>2, <3>3
  <2>11. ASSUME ViewBettingTimeout PROVE MenuInv'
    <3> DEFINE late == {u \in Seated(userList) : user[u].gameState = "BETTING"
                                                  /\ user[u].money >= MinBet}
    <3>1. BetsApplied(late, MinBet) /\ Push(userList, BetNtfs(late, MinBet)) /\ screen' = screen
      BY <2>11 DEF ViewBettingTimeout, BettingTimeout
    <3> HIDE DEF late
    <3>2. QED
      BY <2>1, <3>1, BetsMenu, BetAssumption
  <2>12. ASSUME ViewHandoutTimeout PROVE MenuInv'
    <3>1. GamePush /\ userList' = userList /\ screen' = screen
      BY <2>1, <2>12, HandoutTimeoutPush
    <3>2. NotifyChangeTurn(userList, user, chip)
      BY <2>12 DEF ViewHandoutTimeout, HandoutTimeout
    <3>3. MayBet(user[Observer]) => MayBet(user'[Observer])
      BY <2>1, <3>2, TurnKeepsBettor DEF TypeOK, SeatingType
    <3>4. QED
      BY <2>1, <3>1, <3>3, GameKeepsMenu
  <2>13. ASSUME ViewTurnTimeout PROVE MenuInv'
    <3>1. GamePush /\ userList' = userList /\ screen' = screen
      BY <2>1, <2>13, TurnTimeoutPush
    <3>2. MayBet(user[Observer]) => MayBet(user'[Observer])
      BY <2>1, <2>13, TurnTimeoutKeepsBettor DEF ViewTurnTimeout
    <3>3. QED
      BY <2>1, <3>1, <3>2, GameKeepsMenu
  <2>14. ASSUME ViewRestartTimeout PROVE MenuInv'
    BY <2>1, <2>14, RestartKeepsMenu
  <2>15. ASSUME ClientStep PROVE MenuInv'
    BY <2>1, <2>15, RecvKeepsMenu, OwnStepKeepsMenu DEF ClientStep
  <2>16. QED
    BY <1>2, <2>2, <2>3, <2>4, <2>7, <2>8, <2>9, <2>10, <2>11, <2>12, <2>13, <2>14, <2>15
       DEF ViewNext, RoomStep
<1>3. QED
  BY <1>1, <1>2

\* The inductive invariant of the menu
LEMMA MenuInvariant ==
  ViewSpec => [](ViewOK /\ RoomInv /\ SeatsInv /\ MenuInv /\ NothingSent)
<1>1. ViewInit => MenuInv /\ NothingSent
  <2> SUFFICES ASSUME ViewInit PROVE MenuInv /\ NothingSent
    OBVIOUS
  <2>1. screen.scene = "off" /\ sent = [u \in Users |-> "none"]
    BY BlankType DEF ViewInit, Init, Scenes
  <2>2. QED
    BY <2>1 DEF MenuInv, Live, NothingSent
<1>2. /\ ViewOK /\ RoomInv /\ SeatsInv /\ MenuInv /\ NothingSent
      /\ [ViewNext]_viewVars
      => (MenuInv /\ NothingSent)'
  BY MenuStep
<1>3. QED
  BY <1>1, <1>2, ViewInvariant, PTL DEF ViewSpec

\* A player whose turn it is never has the bet slider over the choices: in
\* whatever order players come, bet, are forced to bet and leave, the bet that
\* takes its slider away is behind the counter that brings it
\* (GameScene.cpp:266-304, Room.cpp:131-175).  The exception is a counter that
\* came when the room was no longer waiting for its bet.
THEOREM TurnsCanBePlayed == ViewSpec => []TurnCanBePlayed
<1>1. ASSUME ViewOK, SeatsInv, MenuInv PROVE TurnCanBePlayed
  <2> SUFFICES ASSUME Quiet, Observer \in Seated(userList),
                      user[Observer].gameState = "ACTIONING",
                      "slider" \notin screen.misled[screen.slot], screen.slider
               PROVE  FALSE
    BY DEF TurnCanBePlayed
  <2> DEFINE s == screen.slot
  <2>1. screen.scene = "game" /\ fault = "none" /\ Live /\ wire = <<>>
    BY DEF Quiet, Live
  <2>2. s \in Seats
    BY <1>1 DEF ViewOK, FullScreen
  <2>3. userList[s] = Observer
    BY <1>1, <2>1 DEF SeatsInv, Present
  <2>4. MenuTold(wire, screen, s, user[Observer])
    BY <1>1, <2>1, <2>2, <2>3 DEF MenuInv
  <2>5. NoneIn(wire, MenuPackets(s))
    BY <2>1, NoPacket
  <2>6. MayBet(user[Observer])
    BY <2>4, <2>5 DEF MenuTold, WillSlide
  <2>7. QED
    BY <2>6 DEF MayBet
<1>2. QED
  BY <1>1, MenuInvariant, PTL
=============================================================================
