---------------------------- MODULE GameRoomProofs ----------------------------
(***************************************************************************)
(* Theorems about the game room, for every number of users and seats: its  *)
(* types, its seats, its deck and whoever has to act; then its money and   *)
(* the hands a choice finds, first whenever choices arrive, then with      *)
(* choices that are handled on their senders' turns.                       *)
(***************************************************************************)
EXTENDS TimedRoom, FiniteSetTheorems, WellFoundedInduction, TLAPS

-----------------------------------------------------------------------------
(* The operations of a User keep its type.                                 *)

\* A hand takes a card while it has a free slot.
LEMMA WithCardType ==
  ASSUME NEW h \in Hand, h.num < HandSlots
  PROVE  /\ WithCard(h) \in Hand
         /\ WithCard(h).num = h.num + 1
         /\ WithCard(h).state = h.state
<1>1. h.num \in Nat /\ h.num + 1 \in 0 .. HandSlots
  BY SlotsAssumption DEF Hand
<1>2. (h.first \/ h.num = 0) \in BOOLEAN
  OBVIOUS
<1>3. QED
  BY <1>1, <1>2 DEF WithCard, Hand

\* The initial record of a user has its type.
LEMMA NewUserType == NewUser \in UserRecord
<1>1. EmptyHand \in Hand
  BY SlotsAssumption DEF EmptyHand, Hand, HandStates
<1>2. QED
  BY <1>1 DEF NewUser, UserRecord, GameStates, Hands

\* Clearing the hands of a user, at login or for the next game, keeps the type.
LEMMA InitHandType ==
  ASSUME NEW p \in UserRecord
  PROVE  InitHand(p) \in [Hands -> Hand]
BY DEF InitHand, UserRecord, Hand, HandStates

\* A user who logs in (User::Init, EnterRoom) is still a user.
LEMMA LoggedInType ==
  ASSUME NEW p \in UserRecord, NEW money \in Int
  PROVE  LoggedIn(p, money) \in UserRecord
BY InitHandType DEF LoggedIn, UserRecord, GameStates

\* User::ResetForNextGame leaves a user.
LEMMA ResetType ==
  ASSUME NEW p \in UserRecord
  PROVE  ResetForNextGame(p) \in UserRecord
<1>1. EmptyHand \in Hand
  BY SlotsAssumption DEF EmptyHand, Hand, HandStates
<1>2. [h \in Hands |-> EmptyHand] \in [Hands -> Hand] /\ 0 \in Hands
  BY <1>1 DEF Hands
<1>3. QED
  BY <1>2 DEF ResetForNextGame, UserRecord, GameStates

\* A user whose current hand is replaced by a hand keeps its type.
LEMMA HandReplacedType ==
  ASSUME NEW p \in UserRecord, NEW i \in Hands, NEW h \in Hand
  PROVE  /\ [p EXCEPT !.hand[i] = h] \in UserRecord
         /\ p.hand[i] \in Hand
BY DEF UserRecord

\* Going to the other hand, or to the end of the turn, keeps the type.
LEMMA SwitchType ==
  ASSUME NEW p \in UserRecord
  PROVE  /\ SwitchHandIfSplitExist(p) \in UserRecord
         /\ AfterChoiceNtf(p) \in UserRecord
BY DEF SwitchHandIfSplitExist, AfterChoiceNtf, UserRecord, GameStates, Hands

\* A hand that stands, as after STAND or a time-out, keeps the type.
LEMMA StoodType ==
  ASSUME NEW p \in UserRecord
  PROVE  /\ [p EXCEPT !.hand[p.curHand].state = "STAND"] \in UserRecord
         /\ ForceNextTurn(p) \in UserRecord
<1>1. [p.hand EXCEPT ![p.curHand].state = "STAND"] \in [Hands -> Hand]
  BY DEF UserRecord, Hand, HandStates
<1>2. QED
  BY <1>1 DEF ForceNextTurn, UserRecord, GameStates

\* Doubling down takes money, which may be any integer, and marks the hand.
LEMMA DoubledDownType ==
  ASSUME NEW p \in UserRecord
  PROVE  DoubledDown(p) \in UserRecord
<1>1. [p EXCEPT !.hand[p.curHand].doubledown = TRUE] \in UserRecord
  BY DEF UserRecord, Hand
<1>2. p.money - p.bet \in Int
  BY DEF UserRecord
<1>3. QED
  BY <1>1, <1>2 DEF DoubledDown, UserRecord

\* Filling the first slot of a hand leaves a hand.
LEMMA OpenedHandType ==
  ASSUME NEW f \in [Hands -> Hand], NEW i \in Hands
  PROVE  [f EXCEPT ![i].first = TRUE] \in [Hands -> Hand]
BY DEF Hand

\* User::Split leaves a user.
LEMMA SplitType ==
  ASSUME NEW p \in UserRecord
  PROVE  SplitUser(p) \in UserRecord
<1>1. p.money - p.bet \in Int
  BY DEF UserRecord
<1>2. [[p.hand EXCEPT ![p.curHand].num = 1] EXCEPT ![1].num = 1, ![1].first = TRUE]
        \in [Hands -> Hand]
  <2>1. 1 \in 0 .. HandSlots
    BY SlotsAssumption
  <2>2. [p.hand EXCEPT ![p.curHand].num = 1] \in [Hands -> Hand]
    BY <2>1 DEF UserRecord, Hand
  <2>3. [[p.hand EXCEPT ![p.curHand].num = 1] EXCEPT ![1].num = 1] \in [Hands -> Hand]
    BY <2>1, <2>2, ZenonT(40) DEF Hand
  <2>4. QED
    BY <2>3, OpenedHandType, 1 \in Hands DEF Hands
<1>3. QED
  BY <1>1, <1>2 DEF SplitUser, UserRecord

\* A bet (User::ApplyBet) leaves a user.
LEMMA BetPlacedType ==
  ASSUME NEW p \in UserRecord, NEW amount \in Nat
  PROVE  BetPlaced(p, amount) \in UserRecord
<1>1. p.money - amount \in Int
  BY DEF UserRecord
<1>2. QED
  BY <1>1 DEF BetPlaced, UserRecord, GameStates

\* Two cards dealt to a hand with room for them leave a user.
LEMMA DealtType ==
  ASSUME NEW p \in UserRecord, p.hand[0].num + 2 <= HandSlots, NEW b \in BOOLEAN
  PROVE  Dealt(p, b) \in UserRecord
<1>1. p.hand[0] \in Hand /\ p.hand[0].num \in Nat
  BY DEF UserRecord, Hand, Hands
<1>2. WithCard(p.hand[0]) \in Hand /\ WithCard(p.hand[0]).num < HandSlots
  BY <1>1, WithCardType, SlotsAssumption
<1>3. WithCard(WithCard(p.hand[0])) \in Hand
  BY <1>2, WithCardType
<1>4. DealtHand(p.hand[0], b) \in Hand
  BY <1>3 DEF DealtHand, Hand, HandStates
<1>5. [p.hand EXCEPT ![0] = DealtHand(p.hand[0], b)] \in [Hands -> Hand]
  BY <1>4 DEF UserRecord, Hands
<1>6. QED
  BY <1>5 DEF Dealt, UserRecord, GameStates

-----------------------------------------------------------------------------
(* What the room does to several users at once keeps the types.            *)

SeatingType(ul) == ul \in [Seats -> Users \cup {NoUser}]

\* Who sits in a room is a user.
LEMMA SeatedType ==
  ASSUME NEW ul, SeatingType(ul)
  PROVE  Seated(ul) \subseteq Users
BY DEF SeatingType, Seated

\* One user's record replaced: what every handler of one client does
LEMMA UserReplacedType ==
  ASSUME NEW us \in [Users -> UserRecord], NEW u \in Users, NEW p \in UserRecord
  PROVE  [us EXCEPT ![u] = p] \in [Users -> UserRecord]
OBVIOUS

\* Giving the turn to the next user keeps the type.
LEMMA TurnGivenType ==
  ASSUME NEW ul, NEW us \in [Users -> UserRecord]
  PROVE  TurnGiven(ul, us) \in [Users -> UserRecord]
BY DEF TurnGiven, UserRecord, GameStates

\* What a game pays is never negative.
LEMMA EarnMoneyType ==
  ASSUME NEW d \in DealerStates, NEW p \in UserRecord
  PROVE  EarnMoney(d, p) \subseteq Nat
<1>1. ASSUME NEW h \in Hand PROVE Factors(d, h) \subseteq Nat
  BY DEF Factors, Hand
<1>2. p.hand[0] \in Hand /\ p.hand[1] \in Hand /\ p.bet \in Nat
  BY DEF UserRecord, Hands
<1>3. ASSUME NEW a \in Nat, NEW b \in Nat PROVE p.bet * (a + b) \in Nat
  BY <1>2
<1>4. QED
  BY <1>1, <1>2, <1>3 DEF EarnMoney

\* What the end of a game sets is typed; it leaves the room in its calculating
\* state unless the dealer's cards overflow.
LEMMA SettledType ==
  ASSUME NEW ul, SeatingType(ul), NEW us \in [Users -> UserRecord],
         NEW db \in [Users -> Int], NEW d \in DealerStates,
         \E earn \in [Seated(ul) -> UNION {EarnMoney(d, us[u]) : u \in Seated(ul)}] :
           /\ \A u \in Seated(ul) : earn[u] \in EarnMoney(d, us[u])
           /\ Settled(ul, us, db, earn)
  PROVE  /\ user' \in [Users -> UserRecord]
         /\ chip' \in [Users -> Int]
         /\ buttons' \subseteq Choices
         /\ roomState' = "CALCULATE" /\ dealt' = FALSE /\ fault' = fault
<1>1. PICK earn \in [Seated(ul) -> UNION {EarnMoney(d, us[u]) : u \in Seated(ul)}] :
        /\ \A u \in Seated(ul) : earn[u] \in EarnMoney(d, us[u])
        /\ Settled(ul, us, db, earn)
  OBVIOUS
<1>2. Seated(ul) \subseteq Users
  BY SeatedType
<1>3. \A u \in Seated(ul) : EarnMoney(d, us[u]) \subseteq Nat
  BY <1>2, EarnMoneyType
<1>4. \A u \in Seated(ul) : earn[u] \in Nat
  BY <1>1, <1>3
<1>5. ASSUME NEW u \in Seated(ul)
      PROVE  /\ [ResetForNextGame(us[u]) EXCEPT !.money = @ + earn[u]] \in UserRecord
             /\ db[u] + earn[u] \in Int
  <2>1. ResetForNextGame(us[u]) \in UserRecord
    BY <1>2, ResetType
  <2> DEFINE money == ResetForNextGame(us[u]).money
  <2>2. money \in Int /\ db[u] \in Int /\ earn[u] \in Int
    <3>1. money \in Int
      BY <2>1 DEF UserRecord
    <3>2. db[u] \in Int
      BY <1>2
    <3>3. earn[u] \in Int
      BY <1>4
    <3>4. QED
      BY <3>1, <3>2, <3>3
  <2> HIDE DEF money
  <2>3. money + earn[u] \in Int /\ db[u] + earn[u] \in Int
    BY <2>2
  <2>4. QED
    BY <2>1, <2>3 DEF money, UserRecord
<1>6. user' \in [Users -> UserRecord] /\ chip' \in [Users -> Int]
  BY <1>1, <1>5 DEF Settled
<1>7. QED
  BY <1>1, <1>6 DEF Settled, RoomReset

\* EndOfGame, settled or broken off, keeps the types.
LEMMA EndOfGameType ==
  ASSUME NEW ul, SeatingType(ul), NEW us \in [Users -> UserRecord],
         NEW db \in [Users -> Int], EndOfGame(ul, us, db), buttons \subseteq Choices
  PROVE  /\ user' \in [Users -> UserRecord]
         /\ chip' \in [Users -> Int]
         /\ buttons' \subseteq Choices
         /\ \/ roomState' = "CALCULATE" /\ dealt' = FALSE /\ fault' = fault
            \/ fault' = "dealer_overflow" /\ UNCHANGED <<roomState, dealt>>
<1>1. CASE Broken("dealer_overflow", us, db)
  BY <1>1 DEF Broken
<1>2. ASSUME NEW d \in DealerStates,
             \E earn \in [Seated(ul) -> UNION {EarnMoney(d, us[u]) : u \in Seated(ul)}] :
               /\ \A u \in Seated(ul) : earn[u] \in EarnMoney(d, us[u])
               /\ Settled(ul, us, db, earn)
      PROVE  /\ user' \in [Users -> UserRecord]
             /\ chip' \in [Users -> Int]
             /\ buttons' \subseteq Choices
             /\ roomState' = "CALCULATE" /\ dealt' = FALSE /\ fault' = fault
  BY <1>2, SettledType
<1>3. QED
  BY <1>1, <1>2 DEF EndOfGame

\* The buttons enabled on a turn are choices.
LEMMA ButtonsType ==
  ASSUME NEW p
  PROVE  ButtonsOnTurn(p) \subseteq Choices
         /\ \A choice : ButtonsAfter(choice, p) \subseteq Choices
BY DEF ButtonsOnTurn, ButtonsAfter, Choices

\* Passing the turn on: somebody gets it, the game ends, or the deck is empty.
LEMMA ChangeTurnType ==
  ASSUME NEW ul, SeatingType(ul), NEW us \in [Users -> UserRecord],
         NEW db \in [Users -> Int], NotifyChangeTurn(ul, us, db),
         roomState \in RoomStates, dealt \in BOOLEAN, fault \in Faults,
         buttons \subseteq Choices
  PROVE  /\ user' \in [Users -> UserRecord] /\ chip' \in [Users -> Int]
         /\ buttons' \subseteq Choices
         /\ roomState' \in RoomStates /\ dealt' \in BOOLEAN /\ fault' \in Faults
<1>1. CASE PlayableSeats(ul, us) # {}
  BY <1>1, TurnGivenType, ButtonsType DEF NotifyChangeTurn, RoomStates
<1>2. CASE PlayableSeats(ul, us) = {} /\ dealt
  BY <1>2, EndOfGameType DEF NotifyChangeTurn, RoomStates, Faults
<1>3. CASE PlayableSeats(ul, us) = {} /\ ~ dealt
  BY <1>3 DEF NotifyChangeTurn, Broken, Faults
<1>4. QED
  BY <1>1, <1>2, <1>3

\* Kicking whom cannot bet and asking the others to
LEMMA WaitingType ==
  ASSUME NEW ul, SeatingType(ul), NEW us \in [Users -> UserRecord], NEW n \in Int,
         SetRoomStateToWaiting(ul, us, n), dealt \in BOOLEAN,
         Cardinality(Kicked(ul, us)) \in Int
  PROVE  /\ SeatingType(userList)' /\ userCount' \in Int
         /\ user' \in [Users -> UserRecord]
         /\ roomState' \in RoomStates /\ dealt' \in BOOLEAN
<1>1. \A p \in UserRecord : [p EXCEPT !.gameState = "BETTING"] \in UserRecord
  BY DEF UserRecord, GameStates
<1>2. user' \in [Users -> UserRecord]
  BY <1>1 DEF SetRoomStateToWaiting
<1>3. userCount' \in Int /\ roomState' \in RoomStates /\ dealt' \in BOOLEAN
  BY DEF SetRoomStateToWaiting, StateWithUsers, RoomStates
<1>4. SeatingType(userList)'
  BY DEF SetRoomStateToWaiting, SeatingType
<1>5. QED
  BY <1>2, <1>3, <1>4

\* A room has finitely many seats, numbered from 0.
LEMMA SeatsFinite == IsFiniteSet(Seats) /\ Seats \subseteq Nat
BY SeatsAssumption, FS_Interval DEF Seats

\* Only finitely many players can be kicked.
LEMMA KickedFinite ==
  ASSUME NEW ul, SeatingType(ul), NEW us
  PROVE  IsFiniteSet(Kicked(ul, us)) /\ Cardinality(Kicked(ul, us)) \in Nat
<1>1. Kicked(ul, us) \in SUBSET Users
  BY SeatedType DEF Kicked
<1>2. QED
  BY <1>1, UsersAssumption, FS_Subset, FS_CardinalityType

-----------------------------------------------------------------------------
(* Type correctness                                                        *)

\* The types hold in a fresh room.
LEMMA InitType == Init => TypeOK
<1> SUFFICES ASSUME Init PROVE TypeOK
  OBVIOUS
<1>1. userList \in [Seats -> Users \cup {NoUser}] /\ userCount \in Int
  BY DEF Init
<1>2. user \in [Users -> UserRecord]
  BY NewUserType DEF Init
<1>3. chip \in [Users -> Int] /\ stake \in [Users -> Int]
  <2>1. \A c \in Chips : c \in Int
    BY ChipsAssumption
  <2>2. QED
    BY <2>1 DEF Init
<1>4. QED
  BY <1>1, <1>2, <1>3 DEF Init, TypeOK, RoomStates, Faults

\* Entering (Room::EnterUser) keeps the types.
LEMMA EnterType ==
  ASSUME TypeOK, fault = "none", NEW u \in Users, EnterUser(u)
  PROVE  TypeOK'
<1> DEFINE seat == First({s \in Seats : userList[s] = NoUser})
           ul   == [userList EXCEPT ![seat] = u]
           us   == [user EXCEPT ![u] = LoggedIn(user[u], chip[u])]
<1>1. SeatingType(ul)
  BY DEF TypeOK, SeatingType
<1>2. us \in [Users -> UserRecord]
  BY LoggedInType DEF TypeOK
<1>3. /\ connected' = connected \cup {u}
      /\ stake' = [stake EXCEPT ![u] = 0]
      /\ chip' = chip /\ buttons' = buttons /\ sent' = sent
  BY DEF EnterUser
<1>4. connected' \subseteq Users /\ stake' \in [Users -> Int] /\ buttons' \subseteq Choices
      /\ chip' \in [Users -> Int] /\ sent' \in [Users -> Choices \cup {"none"}]
  BY <1>3 DEF TypeOK
<1>5. CASE /\ SetRoomStateToWaiting(ul, us, userCount + 1)
           /\ fault' = IF u \in Kicked(ul, us) THEN "null_room" ELSE fault
  <2>1. dealt \in BOOLEAN /\ userCount + 1 \in Int /\ Cardinality(Kicked(ul, us)) \in Int
    BY <1>1, KickedFinite DEF TypeOK
  <2>2. /\ SeatingType(userList)' /\ userCount' \in Int
        /\ user' \in [Users -> UserRecord]
        /\ roomState' \in RoomStates /\ dealt' \in BOOLEAN
    BY <1>1, <1>2, <1>5, <2>1, WaitingType
  <2>3. fault' \in Faults
    BY <1>5 DEF Faults, TypeOK
  <2>4. QED
    BY <1>4, <2>2, <2>3 DEF TypeOK, SeatingType
<1>6. CASE /\ userList' = ul /\ userCount' = userCount + 1 /\ user' = us
           /\ UNCHANGED <<roomState, dealt, fault>>
  BY <1>1, <1>2, <1>4, <1>6 DEF TypeOK, SeatingType
<1>7. QED
  BY <1>5, <1>6 DEF EnterUser

\* Leaving (Room::LeaveRoom) keeps the types.
LEMMA LeaveType ==
  ASSUME TypeOK, NEW u \in Users, LeaveRoom(u),
         sent' \in [Users -> Choices \cup {"none"}], connected' \subseteq Users
  PROVE  TypeOK'
<1> DEFINE ul   == SeatGivenBack(u)
           done == [user EXCEPT ![u].gameState = "ACTION_DONE"]
<1>1. SeatingType(ul)
  BY DEF TypeOK, SeatingType, SeatGivenBack
<1>2. done \in [Users -> UserRecord]
  BY SMTT(30) DEF TypeOK, UserRecord, GameStates
<1>3. userList' = ul /\ userCount' \in Int /\ stake' \in [Users -> Int]
  BY DEF LeaveRoom, TypeOK
<1>4. CASE roomState' = "NONE" /\ dealt' = FALSE /\ buttons' = {} /\ UNCHANGED <<user, chip, fault>>
  BY <1>1, <1>3, <1>4 DEF TypeOK, SeatingType, RoomStates
<1>5. CASE NotifyChangeTurn(ul, done, chip)
  BY <1>1, <1>2, <1>3, <1>5, ChangeTurnType DEF TypeOK, SeatingType
<1>6. CASE UNCHANGED <<roomState, dealt, user, chip, buttons, fault>>
  BY <1>1, <1>3, <1>6 DEF TypeOK, SeatingType
<1>7. QED
  BY <1>4, <1>5, <1>6 DEF LeaveRoom

\* The end of a session (NtfSysCloseSesson) keeps the types.
LEMMA CloseType ==
  ASSUME TypeOK, NEW u \in Users, CloseSession(u)
  PROVE  TypeOK'
<1>1. sent' \in [Users -> Choices \cup {"none"}] /\ connected' \subseteq Users
  BY DEF CloseSession, TypeOK
<1>2. CASE LeaveRoom(u)
  BY <1>1, <1>2, LeaveType
<1>3. CASE UNCHANGED <<roomState, userList, userCount, dealt, user, chip, buttons, fault,
                     stake>>
  BY <1>1, <1>3 DEF TypeOK
<1>4. QED
  BY <1>2, <1>3 DEF CloseSession

\* NotifyStartGame keeps the types: it deals only where two slots are free.
LEMMA StartType ==
  ASSUME TypeOK, NEW us \in [Users -> UserRecord], NotifyStartGame(us)
  PROVE  /\ user' \in [Users -> UserRecord]
         /\ roomState' \in RoomStates /\ dealt' \in BOOLEAN /\ fault' \in Faults
<1>1. CASE \A u \in Seated(userList) : us[u].hand[0].num + 2 <= HandSlots
  <2>1. PICK lucky \in SUBSET {u \in Seated(userList) : us[u].hand[0].num = 0} :
          /\ user' = [u \in Users |-> IF u \in Seated(userList)
                                      THEN Dealt(us[u], u \in lucky) ELSE us[u]]
          /\ GameStarted
          /\ UNCHANGED fault
    BY <1>1 DEF NotifyStartGame
  <2>2. ASSUME NEW u \in Users, u \in Seated(userList)
        PROVE  Dealt(us[u], u \in lucky) \in UserRecord
    <3>1. us[u] \in UserRecord /\ us[u].hand[0].num + 2 <= HandSlots
      BY <1>1, <2>2
    <3>2. (u \in lucky) \in BOOLEAN
      OBVIOUS
    <3>3. QED
      BY <3>1, <3>2, DealtType
  <2>3. QED
    BY <2>1, <2>2 DEF GameStarted, TypeOK, RoomStates
<1>2. CASE ~ \A u \in Seated(userList) : us[u].hand[0].num + 2 <= HandSlots
  BY <1>2 DEF NotifyStartGame, TypeOK, Faults
<1>3. QED
  BY <1>1, <1>2

\* Bets, and the game the last one starts, keep the types.
LEMMA BetsType ==
  ASSUME TypeOK, NEW bettors \in SUBSET Users, NEW amount \in Nat,
         BetsApplied(bettors, amount), UNCHANGED sent
  PROVE  TypeOK'
<1> DEFINE us == [u \in Users |-> IF u \in bettors THEN BetPlaced(user[u], amount)
                                                   ELSE user[u]]
<1>1. us \in [Users -> UserRecord]
  BY BetPlacedType DEF TypeOK
<1>2. /\ chip' = Debited(bettors, amount)
      /\ stake' = [u \in Users |-> IF u \in bettors THEN stake[u] + amount ELSE stake[u]]
      /\ UNCHANGED <<userList, userCount, connected, buttons>>
  BY DEF BetsApplied
<1>3. chip' \in [Users -> Int] /\ stake' \in [Users -> Int]
  BY <1>2 DEF Debited, TypeOK
<1>4. CASE NotifyStartGame(us)
  BY <1>1, <1>2, <1>3, <1>4, StartType DEF TypeOK
<1>5. CASE user' = us /\ UNCHANGED <<roomState, dealt, fault>>
  BY <1>1, <1>2, <1>3, <1>5 DEF TypeOK
<1>6. QED
  BY <1>4, <1>5 DEF BetsApplied

\* GAME_BET keeps the types.
LEMMA GameBetType ==
  ASSUME TypeOK, NEW u \in Users, NEW money \in Bets, GameBet(u, money)
  PROVE  TypeOK'
<1> DEFINE amount == IF money < MinBet THEN MinBet ELSE money
<1>1. amount \in Nat /\ {u} \in SUBSET Users
  BY ChipsAssumption, BetAssumption
<1>2. BetsApplied({u}, amount) /\ UNCHANGED sent
  BY DEF GameBet
<1>3. QED
  BY <1>1, <1>2, BetsType

\* A choice that was applied: the turn stays, is passed on, or the game ends.
LEMMA ChoiceAppliedType ==
  ASSUME TypeOK, NEW u \in Users, NEW p \in UserRecord, NEW db \in [Users -> Int],
         NEW sk \in [Users -> Int], NEW choice, ChoiceApplied(u, choice, p, db, sk),
         sent' \in [Users -> Choices \cup {"none"}]
  PROVE  TypeOK'
<1> DEFINE us == [user EXCEPT ![u] = AfterChoiceNtf(p)]
<1>1. us \in [Users -> UserRecord]
  BY SwitchType, UserReplacedType DEF TypeOK
<1>2. stake' = sk /\ UNCHANGED <<userList, userCount, connected>>
  BY DEF ChoiceApplied
<1>3. CASE user' = TurnGiven(userList, us) /\ chip' = db
           /\ buttons' = ButtonsAfter(choice, p)
           /\ UNCHANGED <<roomState, dealt, fault>>
  BY <1>1, <1>2, <1>3, TurnGivenType, ButtonsType DEF TypeOK
<1>4. CASE NotifyChangeTurn(userList, us, db)
  BY <1>1, <1>2, <1>4, ChangeTurnType DEF TypeOK, SeatingType
<1>5. QED
  BY <1>3, <1>4 DEF ChoiceApplied

\* A choice that was refused keeps the types.
LEMMA RefusedType ==
  ASSUME TypeOK, ChoiceRefused, sent' \in [Users -> Choices \cup {"none"}]
  PROVE  TypeOK'
BY ChangeTurnType DEF ChoiceRefused, TypeOK, SeatingType

\* Undefined behaviour before a change keeps the types.
LEMMA CrashType ==
  ASSUME TypeOK, NEW reason \in Faults, Crash(reason),
         sent' \in [Users -> Choices \cup {"none"}]
  PROVE  TypeOK'
BY DEF Crash, TypeOK

\* A card drawn keeps the types: it is written only to a free slot.
LEMMA CardDrawnType ==
  ASSUME TypeOK, NEW u \in Users, NEW p \in UserRecord,
         NEW states \in SUBSET HandStates, NEW db \in [Users -> Int],
         NEW sk \in [Users -> Int], NEW choice,
         CardDrawn(u, choice, p, states, db, sk),
         sent' \in [Users -> Choices \cup {"none"}]
  PROVE  TypeOK'
<1> DEFINE cur == p.curHand
<1>1. CASE Crash("empty_deck") \/ Crash("hand_overflow")
  BY <1>1, CrashType DEF Faults
<1>2. ASSUME p.hand[cur].num < HandSlots, NEW s \in states,
             ChoiceApplied(u, choice,
                           [p EXCEPT !.hand[cur] = [WithCard(@) EXCEPT !.state = s]],
                           db, sk)
      PROVE  TypeOK'
  <2>1. cur \in Hands /\ p.hand[cur] \in Hand
    BY DEF UserRecord
  <2>2. [WithCard(p.hand[cur]) EXCEPT !.state = s] \in Hand
    BY <1>2, <2>1, WithCardType DEF Hand
  <2>3. [p EXCEPT !.hand[cur] = [WithCard(@) EXCEPT !.state = s]] \in UserRecord
    BY <2>1, <2>2, HandReplacedType
  <2>4. QED
    BY <1>2, <2>3, ChoiceAppliedType
<1>3. QED
  BY <1>1, <1>2 DEF CardDrawn

\* GAME_CHOICE keeps the types.
LEMMA ChoiceType ==
  ASSUME TypeOK, NEW u \in Users, Stand(u) \/ Hit(u) \/ DoubleDown(u) \/ Split(u)
  PROVE  TypeOK'
<1> DEFINE p == user[u]
<1>1. p \in UserRecord /\ CurrentHand(p) \in Hand /\ p.bet \in Nat
  BY DEF TypeOK, UserRecord, CurrentHand
<1>2. sent' \in [Users -> Choices \cup {"none"}]
  BY DEF Stand, Hit, DoubleDown, Split, ChoiceArrives, TypeOK
<1>3. /\ chip \in [Users -> Int] /\ stake \in [Users -> Int]
      /\ Debited({u}, p.bet) \in [Users -> Int]
      /\ [stake EXCEPT ![u] = @ + p.bet] \in [Users -> Int]
  BY <1>1 DEF TypeOK, Debited
<1>4. CASE Stand(u)
  <2>1. SwitchHandIfSplitExist([p EXCEPT !.hand[p.curHand].state = "STAND"])
          \in UserRecord
    BY <1>1, StoodType, SwitchType
  <2>2. QED
    BY <1>2, <1>3, <1>4, <2>1, ChoiceAppliedType DEF Stand
<1>5. CASE Hit(u)
  <2>1. AfterHit(CurrentHand(p)) \in SUBSET HandStates
    BY <1>1 DEF AfterHit, Hand, HandStates
  <2>2. QED
    BY <1>1, <1>2, <1>3, <1>5, <2>1, CardDrawnType DEF Hit
<1>6. CASE DoubleDown(u)
  <2>1. AfterDoubleDown(CurrentHand(p)) \in SUBSET HandStates
    BY DEF AfterDoubleDown, HandStates
  <2>2. DoubledDown(p) \in UserRecord
    BY <1>1, DoubledDownType
  <2>3. CASE CardDrawn(u, "DOUBLE_DOWN", DoubledDown(p), AfterDoubleDown(CurrentHand(p)),
                       Debited({u}, p.bet), [stake EXCEPT ![u] = @ + p.bet])
    BY <1>2, <1>3, <2>1, <2>2, <2>3, CardDrawnType
  <2>4. CASE ChoiceRefused
    BY <1>2, <2>4, RefusedType
  <2>5. QED
    BY <1>6, <2>3, <2>4 DEF DoubleDown
<1>7. CASE Split(u)
  <2>1. SplitUser(p) \in UserRecord
    BY <1>1, SplitType
  <2>2. CASE ChoiceRefused
    BY <1>2, <2>2, RefusedType
  <2>3. CASE ChoiceApplied(u, "SPLIT", SplitUser(p), Debited({u}, p.bet),
                           [stake EXCEPT ![u] = @ + p.bet])
    BY <1>2, <1>3, <2>1, <2>3, ChoiceAppliedType
  <2>4. CASE ChoiceApplied(u, "SPLIT", p, Debited({u}, p.bet), stake)
    BY <1>1, <1>2, <1>3, <2>4, ChoiceAppliedType
  <2>5. QED
    BY <1>7, <2>2, <2>3, <2>4 DEF Split
<1>8. QED
  BY <1>4, <1>5, <1>6, <1>7

\* RunPostTimeAction keeps the types.
LEMMA TimerType ==
  ASSUME TypeOK, TimerAction
  PROVE  TypeOK'
<1>1. sent' = sent
  BY DEF TimerAction
<1>2. CASE BettingTimeout
  <2>1. \A u \in Seated(userList) : u \in Users
    BY SeatedType DEF TypeOK, SeatingType
  <2>2. {u \in Seated(userList) : user[u].gameState = "BETTING"
                                  /\ user[u].money >= MinBet} \in SUBSET Users
    BY <2>1
  <2>3. QED
    BY <1>1, <1>2, <2>2, BetAssumption, BetsType DEF BettingTimeout
<1>3. CASE HandoutTimeout
  BY <1>1, <1>3, ChangeTurnType DEF HandoutTimeout, TypeOK, SeatingType
<1>4. CASE TurnTimeout
  <2> DEFINE u  == userList[First(ActingSeats)]
             us == [user EXCEPT ![u] = AfterChoiceNtf(ForceNextTurn(user[u]))]
  <2>1. UNCHANGED <<userList, userCount, connected, stake, sent>>
    BY <1>1, <1>4 DEF TurnTimeout
  <2>2. \A p \in UserRecord : AfterChoiceNtf(ForceNextTurn(p)) \in UserRecord
    BY StoodType, SwitchType
  <2>3. us \in [Users -> UserRecord]
    BY <2>2 DEF TypeOK
  <2>4. CASE NotifyChangeTurn(userList, us, chip)
    BY <2>1, <2>3, <2>4, ChangeTurnType DEF TypeOK, SeatingType
  <2>5. CASE EndOfGame(userList, user, chip)
    BY <2>1, <2>5, EndOfGameType DEF TypeOK, SeatingType, RoomStates, Faults
  <2>6. QED
    BY <1>4, <2>4, <2>5 DEF TurnTimeout
<1>5. CASE RestartTimeout
  <2>1. SeatingType(userList) /\ user \in [Users -> UserRecord] /\ userCount \in Int
    BY DEF TypeOK, SeatingType
  <2>2. SetRoomStateToWaiting(userList, user, userCount)
    BY <1>5 DEF RestartTimeout
  <2>3. /\ SeatingType(userList)' /\ userCount' \in Int
        /\ user' \in [Users -> UserRecord]
        /\ roomState' \in RoomStates /\ dealt' \in BOOLEAN
    BY <2>1, <2>2, KickedFinite, WaitingType DEF TypeOK
  <2>4. /\ stake' \in [Users -> Int] /\ UNCHANGED <<chip, connected, buttons, fault>>
    BY <1>5 DEF RestartTimeout
  <2>5. QED
    BY <1>1, <2>3, <2>4 DEF TypeOK, SeatingType
<1>6. QED
  BY <1>2, <1>3, <1>4, <1>5 DEF TimerAction

\* Every step keeps the types.
LEMMA NextType == TypeOK /\ [Next]_vars => TypeOK'
<1> SUFFICES ASSUME TypeOK, [Next]_vars PROVE TypeOK'
  OBVIOUS
<1>1. ASSUME fault = "none", NEW u \in Users, UserAction(u) PROVE TypeOK'
  <2>1. CASE EnterUser(u)
    BY <1>1, <2>1, EnterType
  <2>2. CASE CloseSession(u)
    BY <2>2, CloseType
  <2>3. CASE ChoiceAfterKick(u)
    BY <2>3, CrashType DEF ChoiceAfterKick, TypeOK, Faults
  <2>4. CASE Stand(u) \/ Hit(u) \/ DoubleDown(u) \/ Split(u)
    BY <2>4, ChoiceType
  <2>5. CASE \E money \in Bets : GameBet(u, money)
    BY <2>5, GameBetType
  <2>6. CASE \E choice \in Choices : SendChoice(u, choice)
    BY <2>6 DEF SendChoice, TypeOK
  <2>7. QED
    BY <1>1, <2>1, <2>2, <2>3, <2>4, <2>5, <2>6 DEF UserAction
<1>2. CASE TimerAction
  BY <1>2, TimerType
<1>3. CASE UNCHANGED vars
  BY <1>3 DEF vars, TypeOK
<1>4. QED
  BY <1>1, <1>2, <1>3 DEF Next, Running, Halted

\* The room's variables keep their types whatever the clients and the timers
\* do; in particular a hand never counts more cards than it has slots.
THEOREM TypeCorrect == Spec => []TypeOK
BY InitType, NextType, PTL DEF Spec

-----------------------------------------------------------------------------
(***************************************************************************)
(* The invariants that tie a room's counter, its state, its deck and its   *)
(* players together.                                                       *)
(***************************************************************************)

Occupied(ul) == {s \in Seats : ul[s] # NoUser}
OneSeatEach(ul) == \A s, t \in Seats : ul[s] = ul[t] /\ ul[s] # NoUser => s = t

RoomInv == /\ SeatsCounted
           /\ IdleIffEmpty
           /\ DeckMatchesState
           /\ SomebodyActs

-----------------------------------------------------------------------------
(* Seats                                                                   *)

\* The smallest seat of a set of seats is in the set.  The seats below each
\* member form finite sets; one of these sets has no other as a strict subset.
LEMMA FirstIsMember ==
  ASSUME NEW S \in SUBSET Seats, S # {}
  PROVE  First(S) \in S
<1> DEFINE Below(x) == {y \in S : y < x}
           Family   == {Below(x) : x \in S}
<1>1. IsFiniteSet(S)
  BY SeatsFinite, FS_Subset
<1>2. FiniteSubsetsOf(S) = SUBSET S
  BY <1>1, FS_FiniteSubsetsOfFinite
<1>3. Family \subseteq FiniteSubsetsOf(S) /\ Family # {}
  <2>1. ASSUME NEW A \in Family PROVE A \in SUBSET S
    OBVIOUS
  <2>2. \A x \in S : Below(x) \in Family
    OBVIOUS
  <2>3. Family # {}
    <3> HIDE DEF Family
    <3> QED
      BY <2>2
  <2>4. QED
    BY <1>2, <2>1, <2>3
<1>4. IsWellFoundedOn(StrictSubsetOrdering(S), FiniteSubsetsOf(S))
  BY FS_StrictSubsetOrderingWellFounded
<1>5. PICK A \in Family : \A B \in Family : ~ (<<B, A>> \in StrictSubsetOrdering(S))
  <2> HIDE DEF Family
  <2> QED
    BY <1>3, <1>4, WFMin
<1>6. PICK x \in S : A = Below(x)
  OBVIOUS
<1>7. ASSUME NEW y \in S PROVE x <= y
  <2>1. S \subseteq Nat
    BY SeatsFinite
  <2>2. SUFFICES ASSUME y < x PROVE FALSE
    BY <2>1
  <2>3. Below(y) \in Family /\ <<Below(y), A>> \in (SUBSET S) \X (SUBSET S)
    BY <1>6
  <2>4. Below(y) \subseteq A /\ y \in A /\ y \notin Below(y)
    <3>1. y \in Nat /\ ~ (y < y)
      BY <2>1
    <3>2. ASSUME NEW z \in Below(y) PROVE z \in Below(x)
      BY <2>1, <2>2
    <3>3. QED
      BY <1>6, <2>2, <3>1, <3>2
  <2>5. <<Below(y), A>> \in StrictSubsetOrdering(S)
    BY <2>3, <2>4 DEF StrictSubsetOrdering
  <2>6. QED
    BY <1>5, <2>3, <2>5
<1>8. QED
  BY <1>7 DEF First

\* The occupied seats are finitely many.
LEMMA OccupiedFinite ==
  ASSUME NEW ul
  PROVE  IsFiniteSet(Occupied(ul)) /\ Cardinality(Occupied(ul)) \in Nat
BY SeatsFinite, FS_Subset, FS_CardinalityType DEF Occupied

\* While the counter is below the number of seats a seat is free.
LEMMA FreeSeat ==
  ASSUME NEW ul, Cardinality(Occupied(ul)) < MaxSeats
  PROVE  First({s \in Seats : ul[s] = NoUser}) \in {s \in Seats : ul[s] = NoUser}
<1>1. Cardinality(Seats) = MaxSeats
  BY SeatsAssumption, FS_Interval DEF Seats
<1>2. Occupied(ul) # Seats
  BY <1>1, SeatsAssumption
<1>3. {s \in Seats : ul[s] = NoUser} # {}
  BY <1>2 DEF Occupied
<1>4. QED
  BY <1>3, FirstIsMember

\* Taking a free seat: one more is occupied, and nobody sits twice.
LEMMA SeatTaken ==
  ASSUME NEW ul, SeatingType(ul), OneSeatEach(ul), NEW u \in Users, u \notin Seated(ul),
         NEW seat \in Seats, ul[seat] = NoUser
  PROVE  /\ Cardinality(Occupied([ul EXCEPT ![seat] = u])) = Cardinality(Occupied(ul)) + 1
         /\ OneSeatEach([ul EXCEPT ![seat] = u])
         /\ Seated([ul EXCEPT ![seat] = u]) = Seated(ul) \cup {u}
<1> DEFINE new == [ul EXCEPT ![seat] = u]
<1>1. u # NoUser
  BY UsersAssumption
<1>2. Occupied(new) = Occupied(ul) \cup {seat} /\ seat \notin Occupied(ul)
  BY <1>1 DEF Occupied, SeatingType
<1>3. \A s \in Seats : ul[s] # u
  BY <1>1 DEF Seated
<1>4. OneSeatEach(new)
  BY <1>3 DEF OneSeatEach, SeatingType
<1>5. Seated(new) = Seated(ul) \cup {u}
  BY <1>1 DEF Seated, SeatingType
<1>6. QED
  BY <1>2, <1>4, <1>5, OccupiedFinite, FS_AddElement

\* Emptying the seats of some of the seated users empties as many seats.
LEMMA SeatsEmptied ==
  ASSUME NEW ul, SeatingType(ul), OneSeatEach(ul), NEW out \in SUBSET Seated(ul)
  PROVE  LET new == [s \in Seats |-> IF ul[s] \in out THEN NoUser ELSE ul[s]]
         IN  /\ Cardinality(Occupied(new)) = Cardinality(Occupied(ul)) - Cardinality(out)
             /\ OneSeatEach(new)
             /\ Seated(new) = Seated(ul) \ out
<1> DEFINE new  == [s \in Seats |-> IF ul[s] \in out THEN NoUser ELSE ul[s]]
           gone == {s \in Seats : ul[s] \in out}
           f    == [s \in gone |-> ul[s]]
<1>1. NoUser \notin out /\ \A u \in out : \E s \in Seats : ul[s] = u
  BY DEF Seated
<1>2. gone \subseteq Occupied(ul) /\ Occupied(new) = Occupied(ul) \ gone
  BY <1>1 DEF Occupied
<1>3. IsFiniteSet(gone)
  BY SeatsFinite, FS_Subset
<1>4. f \in Bijection(gone, out)
  <2>1. f \in [gone -> out]
    OBVIOUS
  <2>2. \A s, t \in gone : f[s] = f[t] => s = t
    BY <1>1 DEF OneSeatEach
  <2>3. \A u \in out : \E s \in gone : f[s] = u
    BY <1>1
  <2>4. QED
    BY <2>1, <2>2, <2>3 DEF Bijection, Injection, IsInjective, Surjection
<1>5. Cardinality(gone) = Cardinality(out)
  BY <1>3, <1>4, FS_Bijection DEF ExistsBijection
<1>6. Cardinality(Occupied(ul) \ gone) = Cardinality(Occupied(ul)) - Cardinality(gone)
  <2>1. Occupied(ul) \cap gone = gone
    BY <1>2
  <2>2. QED
    BY <2>1, OccupiedFinite, FS_Difference, ZenonT(40)
<1>7. OneSeatEach(new)
  BY DEF OneSeatEach
<1>8. Seated(new) = Seated(ul) \ out
  BY <1>1 DEF Seated
<1>9. QED
  BY <1>2, <1>5, <1>6, <1>7, <1>8

-----------------------------------------------------------------------------
(* Giving the turn, ending the game, waiting for bets                      *)

\* RoomInv without its statement about seats
PlayInv == IdleIffEmpty /\ DeckMatchesState /\ SomebodyActs

\* Whoever is given the turn acts: the first playable seat is a playable one.
LEMMA TurnGivenActs ==
  ASSUME NEW ul, SeatingType(ul), NEW us \in [Users -> UserRecord],
         PlayableSeats(ul, us) # {}, user' = TurnGiven(ul, us), userList' = ul
  PROVE  \E s \in ActingSeats' : Playable(user'[userList'[s]])
<1> DEFINE s == First(PlayableSeats(ul, us))
           u == ul[s]
<1>1. s \in PlayableSeats(ul, us)
  BY FirstIsMember DEF PlayableSeats
<1>2. s \in Seats /\ u # NoUser /\ u \in Users /\ Playable(us[u])
  BY <1>1 DEF PlayableSeats, SeatingType
<1>3. user' = [us EXCEPT ![u].gameState = "ACTIONING"]
  BY DEF TurnGiven, NextUser
<1>4. user'[u] = [us[u] EXCEPT !.gameState = "ACTIONING"] /\ us[u] \in UserRecord
  BY <1>2, <1>3
<1>5. /\ user'[u].gameState = "ACTIONING"
      /\ user'[u].curHand = us[u].curHand /\ user'[u].hand = us[u].hand
  BY <1>4 DEF UserRecord
<1>6. Playable(user'[u]) /\ s \in ActingSeats'
  BY <1>2, <1>5 DEF Playable, CurrentHand, ActingSeats
<1>7. QED
  BY <1>6

\* NotifyChangeTurn leaves a game somebody acts in, or no game.
LEMMA ChangeTurnPlay ==
  ASSUME NEW ul, SeatingType(ul), NEW us \in [Users -> UserRecord],
         NEW db \in [Users -> Int], NotifyChangeTurn(ul, us, db), userList' = ul,
         DeckMatchesState, roomState # "NONE", userCount' # 0, buttons \subseteq Choices
  PROVE  PlayInv'
<1>1. CASE PlayableSeats(ul, us) # {}
  <2>1. /\ user' = TurnGiven(ul, us)
        /\ roomState' = IF roomState = "HANDOUT" THEN "INGAME" ELSE roomState
        /\ dealt' = dealt
    BY <1>1 DEF NotifyChangeTurn
  <2>2. SomebodyActs'
    BY <1>1, <2>1, TurnGivenActs DEF SomebodyActs
  <2>3. QED
    BY <2>1, <2>2 DEF PlayInv, IdleIffEmpty, DeckMatchesState
<1>2. CASE PlayableSeats(ul, us) = {} /\ dealt
  BY <1>2, EndOfGameType
     DEF NotifyChangeTurn, PlayInv, IdleIffEmpty, DeckMatchesState, SomebodyActs
<1>3. CASE PlayableSeats(ul, us) = {} /\ ~ dealt
  BY <1>3 DEF NotifyChangeTurn, Broken, PlayInv, IdleIffEmpty,
              DeckMatchesState, SomebodyActs
<1>4. QED
  BY <1>1, <1>2, <1>3

\* SetRoomStateToWaiting: the kicked give back their seats and are uncounted.
LEMMA WaitingInv ==
  ASSUME NEW ul, SeatingType(ul), OneSeatEach(ul), NEW us,
         SetRoomStateToWaiting(ul, us, Cardinality(Occupied(ul))),
         dealt = FALSE, Seated(ul) \subseteq connected'
  PROVE  RoomInv'
<1> DEFINE out == Kicked(ul, us)
<1>1. out \in SUBSET Seated(ul)
  BY DEF Kicked
<1>2. /\ userList' = [s \in Seats |-> IF ul[s] \in out THEN NoUser ELSE ul[s]]
      /\ userCount' = Cardinality(Occupied(ul)) - Cardinality(out)
      /\ roomState' = StateWithUsers(userCount')
      /\ dealt' = FALSE
  BY DEF SetRoomStateToWaiting
<1>3. /\ userCount' = Cardinality(Occupied(userList'))
      /\ OneSeatEach(userList')
      /\ Seated(userList') = Seated(ul) \ out
  BY <1>1, <1>2, SeatsEmptied
<1>4. SeatsCounted'
  BY <1>3 DEF SeatsCounted, Occupied, OneSeatEach
<1>5. IdleIffEmpty' /\ DeckMatchesState' /\ SomebodyActs'
  BY <1>2 DEF StateWithUsers, IdleIffEmpty, DeckMatchesState, SomebodyActs
<1>6. QED
  BY <1>4, <1>5 DEF RoomInv

\* A step that moves nobody keeps the seats counted.
LEMMA NobodyMoved ==
  ASSUME SeatsCounted, UNCHANGED <<userList, userCount, connected>>
  PROVE  SeatsCounted'
BY DEF SeatsCounted, Seated

\* A player in the room means that it is not idle.
LEMMA SeatedNotIdle ==
  ASSUME SeatsCounted, IdleIffEmpty, NEW u \in Seated(userList)
  PROVE  userCount \in Nat /\ userCount # 0 /\ roomState # "NONE"
<1>1. userCount = Cardinality(Occupied(userList))
  BY DEF SeatsCounted, Occupied
<1>2. Occupied(userList) # {}
  BY DEF Occupied, Seated
<1>3. userCount \in Nat /\ userCount # 0
  BY <1>1, <1>2, OccupiedFinite, FS_EmptySet
<1>4. QED
  BY <1>3 DEF IdleIffEmpty

-----------------------------------------------------------------------------
(* Every action keeps the invariant.                                       *)

\* Entering keeps the invariant: the seat it takes is free.
LEMMA EnterInv ==
  ASSUME TypeOK, RoomInv, NEW u \in Users, EnterUser(u)
  PROVE  RoomInv'
<1> DEFINE seat == First({s \in Seats : userList[s] = NoUser})
           ul   == [userList EXCEPT ![seat] = u]
           us   == [user EXCEPT ![u] = LoggedIn(user[u], chip[u])]
<1>1. /\ SeatingType(userList) /\ OneSeatEach(userList)
      /\ userCount = Cardinality(Occupied(userList))
      /\ Seated(userList) \subseteq connected
  BY DEF TypeOK, RoomInv, SeatsCounted, SeatingType, OneSeatEach, Occupied
<1>2. u \notin connected /\ userCount < MaxSeats /\ connected' = connected \cup {u}
  BY DEF EnterUser
<1>3. seat \in Seats /\ userList[seat] = NoUser
  BY <1>1, <1>2, FreeSeat
<1>4. /\ Cardinality(Occupied(ul)) = userCount + 1
      /\ OneSeatEach(ul) /\ SeatingType(ul)
      /\ Seated(ul) = Seated(userList) \cup {u}
      /\ Seated(ul) \subseteq connected'
  <2>1. u \notin Seated(userList)
    BY <1>1, <1>2
  <2>2. SeatingType(ul)
    BY <1>1 DEF SeatingType
  <2>3. QED
    BY <1>1, <1>2, <1>3, <2>1, <2>2, SeatTaken
<1>5. CASE roomState \in {"NONE", "WAITING"} /\ SetRoomStateToWaiting(ul, us, userCount + 1)
  <2>1. dealt = FALSE
    BY <1>5 DEF RoomInv, DeckMatchesState, TypeOK
  <2>2. QED
    BY <1>4, <1>5, <2>1, WaitingInv
<1>6. CASE /\ roomState \notin {"NONE", "WAITING"}
           /\ userList' = ul /\ userCount' = userCount + 1 /\ user' = us
           /\ UNCHANGED <<roomState, dealt, fault>>
  <2>1. SeatsCounted'
    BY <1>4, <1>6 DEF SeatsCounted, Occupied, OneSeatEach
  <2>2. IdleIffEmpty'
    BY <1>1, <1>6, OccupiedFinite DEF IdleIffEmpty
  <2>3. ASSUME NEW s \in ActingSeats, Playable(user[userList[s]])
        PROVE  s \in ActingSeats' /\ Playable(user'[userList'[s]])
    <3>1. userList[s] \in Seated(userList) /\ s \in Seats
      BY DEF ActingSeats, Seated
    <3>2. userList[s] # u /\ s # seat
      BY <1>1, <1>2, <1>3, <3>1 DEF Seated
    <3>3. userList'[s] = userList[s] /\ user'[userList[s]] = user[userList[s]]
      BY <1>6, <3>1, <3>2
    <3>4. QED
      BY <2>3, <3>3 DEF ActingSeats
  <2>4. SomebodyActs'
    BY <1>6, <2>3 DEF RoomInv, SomebodyActs
  <2>5. QED
    BY <1>6, <2>1, <2>2, <2>4 DEF RoomInv, DeckMatchesState
<1>7. QED
  BY <1>5, <1>6 DEF EnterUser

\* Leaving keeps the invariant: exactly one seat is given back.
LEMMA LeaveInv ==
  ASSUME TypeOK, RoomInv, NEW u \in Seated(userList), LeaveRoom(u),
         connected' = connected \ {u}
  PROVE  RoomInv'
<1> DEFINE ul   == SeatGivenBack(u)
           done == [user EXCEPT ![u].gameState = "ACTION_DONE"]
<1>1. /\ SeatingType(userList) /\ OneSeatEach(userList)
      /\ userCount = Cardinality(Occupied(userList))
      /\ Seated(userList) \subseteq connected /\ u \in Users
  BY SeatedType DEF TypeOK, RoomInv, SeatsCounted, SeatingType, OneSeatEach, Occupied
<1>2. /\ Cardinality(Occupied(ul)) = userCount - 1
      /\ OneSeatEach(ul) /\ Seated(ul) = Seated(userList) \ {u}
  <2>1. ul = [s \in Seats |-> IF userList[s] \in {u} THEN NoUser ELSE userList[s]]
    BY DEF SeatGivenBack
  <2>2. {u} \in SUBSET Seated(userList) /\ Cardinality({u}) = 1
    BY FS_Singleton
  <2>3. QED
    BY <1>1, <2>1, <2>2, SeatsEmptied
<1>3. userList' = ul /\ userCount' = userCount - 1
  BY DEF LeaveRoom
<1>4. SeatsCounted'
  BY <1>1, <1>2, <1>3 DEF SeatsCounted, Occupied, OneSeatEach
<1>5. userCount \in Nat /\ userCount # 0 /\ roomState # "NONE"
  BY SeatedNotIdle DEF RoomInv
<1> SUFFICES PlayInv'
  BY <1>4 DEF RoomInv, PlayInv
<1>6. CASE userCount = 1 /\ roomState' = "NONE" /\ dealt' = FALSE
  BY <1>3, <1>6 DEF PlayInv, IdleIffEmpty, DeckMatchesState, SomebodyActs
<1>7. CASE userCount # 1 /\ NotifyChangeTurn(ul, done, chip)
  <2>1. SeatingType(ul) /\ done \in [Users -> UserRecord] /\ chip \in [Users -> Int]
    BY ZenonT(40) DEF TypeOK, SeatingType, SeatGivenBack, UserRecord, GameStates
  <2>2. userCount' # 0 /\ DeckMatchesState /\ buttons \subseteq Choices
    BY <1>3, <1>5, <1>7 DEF RoomInv, TypeOK
  <2>3. QED
    BY <1>3, <1>5, <1>7, <2>1, <2>2, ChangeTurnPlay
<1>8. CASE /\ userCount # 1 /\ ~ OnTurn(u)
           /\ UNCHANGED <<roomState, dealt, user, chip, buttons, fault>>
  <2>1. ASSUME NEW s \in ActingSeats, Playable(user[userList[s]])
        PROVE  s \in ActingSeats' /\ Playable(user'[userList'[s]])
    <3>1. s \in Seats /\ userList[s] # u
      BY <1>8 DEF ActingSeats, OnTurn
    <3>2. userList'[s] = userList[s] /\ user' = user
      BY <1>3, <1>8, <3>1 DEF SeatGivenBack
    <3>3. QED
      BY <2>1, <3>2 DEF ActingSeats
  <2>2. QED
    BY <1>3, <1>5, <1>8, <2>1
       DEF RoomInv, PlayInv, IdleIffEmpty, DeckMatchesState, SomebodyActs
<1>9. QED
  BY <1>6, <1>7, <1>8 DEF LeaveRoom

\* Whoever has to bet does not act: bets leave the actor as it is.
LEMMA BetsInv ==
  ASSUME TypeOK, RoomInv, NEW bettors \in SUBSET Seated(userList), bettors # {},
         \A u \in bettors : user[u].gameState = "BETTING",
         NEW amount \in Nat, BetsApplied(bettors, amount)
  PROVE  RoomInv'
<1> DEFINE us == [u \in Users |-> IF u \in bettors THEN BetPlaced(user[u], amount)
                                                   ELSE user[u]]
<1>1. SeatsCounted'
  BY NobodyMoved DEF RoomInv, BetsApplied
<1>2. userCount # 0 /\ roomState # "NONE"
  BY SeatedNotIdle DEF RoomInv
<1>3. userList' = userList /\ userCount' = userCount
  BY DEF BetsApplied
<1> SUFFICES PlayInv'
  BY <1>1 DEF RoomInv, PlayInv
<1>4. CASE GameStarted
  BY <1>2, <1>3, <1>4
     DEF GameStarted, PlayInv, IdleIffEmpty, DeckMatchesState, SomebodyActs
<1>5. CASE user' = us /\ UNCHANGED <<roomState, dealt>> /\ fault' \in {fault, "hand_overflow"}
  <2>1. ASSUME NEW s \in ActingSeats, Playable(user[userList[s]])
        PROVE  s \in ActingSeats' /\ Playable(user'[userList'[s]])
    <3>1. s \in Seats /\ userList[s] \notin bettors /\ userList[s] \in Users
      BY DEF ActingSeats, TypeOK
    <3>2. user'[userList[s]] = user[userList[s]]
      BY <1>5, <3>1
    <3>3. QED
      BY <1>3, <2>1, <3>2 DEF ActingSeats
  <2>2. QED
    BY <1>2, <1>3, <1>5, <2>1
       DEF RoomInv, PlayInv, IdleIffEmpty, DeckMatchesState, SomebodyActs
<1>6. BetsApplied(bettors, amount) =>
        NotifyStartGame(us) \/ (user' = us /\ UNCHANGED <<roomState, dealt, fault>>)
  BY DEF BetsApplied
<1>7. NotifyStartGame(us) =>
        \/ GameStarted
        \/ user' = us /\ UNCHANGED <<roomState, dealt>> /\ fault' = "hand_overflow"
  BY DEF NotifyStartGame
<1>8. QED
  BY <1>4, <1>5, <1>6, <1>7

\* A choice that succeeded keeps the invariant.
LEMMA ChoiceAppliedInv ==
  ASSUME TypeOK, RoomInv, NEW u \in Seated(userList), NEW p \in UserRecord,
         NEW db \in [Users -> Int], NEW sk, NEW choice,
         ChoiceApplied(u, choice, p, db, sk)
  PROVE  RoomInv'
<1> DEFINE us == [user EXCEPT ![u] = AfterChoiceNtf(p)]
<1>1. SeatsCounted'
  BY NobodyMoved DEF RoomInv, ChoiceApplied
<1>2. userCount' # 0 /\ roomState # "NONE" /\ userList' = userList
  BY SeatedNotIdle DEF RoomInv, ChoiceApplied
<1>3. SeatingType(userList) /\ us \in [Users -> UserRecord]
  BY SwitchType DEF TypeOK, SeatingType
<1> SUFFICES PlayInv'
  BY <1>1 DEF RoomInv, PlayInv
<1>4. CASE /\ PlayableSeats(userList, us) # {} /\ user' = TurnGiven(userList, us)
           /\ UNCHANGED <<roomState, dealt>>
  <2>1. SomebodyActs'
    BY <1>2, <1>3, <1>4, TurnGivenActs DEF SomebodyActs
  <2>2. QED
    BY <1>2, <1>4, <2>1 DEF RoomInv, PlayInv, IdleIffEmpty, DeckMatchesState
<1>5. CASE NotifyChangeTurn(userList, us, db)
  BY <1>2, <1>3, <1>5, ChangeTurnPlay DEF RoomInv, TypeOK
<1>6. QED
  BY <1>4, <1>5 DEF ChoiceApplied

\* Passing the turn with nobody's seat changed keeps the invariant.
LEMMA TurnPassedInv ==
  ASSUME TypeOK, RoomInv, roomState # "NONE", NEW us \in [Users -> UserRecord],
         NotifyChangeTurn(userList, us, chip),
         UNCHANGED <<userList, userCount, connected>>
  PROVE  RoomInv'
<1>1. SeatsCounted'
  BY NobodyMoved DEF RoomInv
<1>2. userCount' # 0
  BY DEF RoomInv, IdleIffEmpty
<1>3. PlayInv'
  BY <1>2, ChangeTurnPlay DEF RoomInv, TypeOK, SeatingType
<1>4. QED
  BY <1>1, <1>3 DEF RoomInv, PlayInv

\* A step that changes nothing of the room
LEMMA RoomUntouched ==
  ASSUME RoomInv, UNCHANGED <<roomState, userList, userCount, dealt, user>>,
         fault' = fault \/ fault' # "none",
         Seated(userList) \subseteq connected'
  PROVE  RoomInv'
BY DEF RoomInv, SeatsCounted, IdleIffEmpty, DeckMatchesState, SomebodyActs,
       ActingSeats, Seated

\* Undefined behaviour before a change keeps the invariant.
LEMMA CrashInv ==
  ASSUME RoomInv, NEW reason, reason # "none", Crash(reason)
  PROVE  RoomInv'
BY RoomUntouched DEF Crash, RoomInv, SeatsCounted

\* A card drawn keeps the invariant.
LEMMA CardDrawnInv ==
  ASSUME TypeOK, RoomInv, NEW u \in Seated(userList), NEW p \in UserRecord,
         NEW states \in SUBSET HandStates, NEW db \in [Users -> Int],
         NEW sk, NEW choice, CardDrawn(u, choice, p, states, db, sk)
  PROVE  RoomInv'
<1> DEFINE cur == p.curHand
<1>1. CASE Crash("empty_deck") \/ Crash("hand_overflow")
  BY <1>1, CrashInv
<1>2. ASSUME p.hand[cur].num < HandSlots, NEW s \in states,
             ChoiceApplied(u, choice,
                           [p EXCEPT !.hand[cur] = [WithCard(@) EXCEPT !.state = s]],
                           db, sk)
      PROVE  RoomInv'
  <2>1. cur \in Hands /\ p.hand[cur] \in Hand
    BY DEF UserRecord
  <2>2. [WithCard(p.hand[cur]) EXCEPT !.state = s] \in Hand
    BY <1>2, <2>1, WithCardType DEF Hand
  <2>3. [p EXCEPT !.hand[cur] = [WithCard(@) EXCEPT !.state = s]] \in UserRecord
    BY <2>1, <2>2, HandReplacedType
  <2>4. QED
    BY <1>2, <2>3, ChoiceAppliedInv
<1>3. QED
  BY <1>1, <1>2 DEF CardDrawn

\* Choices, also those that arrive when nobody expects them
LEMMA ChoiceInv ==
  ASSUME TypeOK, RoomInv, NEW u \in Users, Stand(u) \/ Hit(u) \/ DoubleDown(u) \/ Split(u)
  PROVE  RoomInv'
<1> DEFINE p == user[u]
<1>1. p \in UserRecord /\ CurrentHand(p) \in Hand /\ p.bet \in Nat
  BY DEF TypeOK, UserRecord, CurrentHand
<1>2. u \in Seated(userList)
  BY DEF Stand, Hit, DoubleDown, Split, ChoiceArrives
<1>3. chip \in [Users -> Int] /\ Debited({u}, p.bet) \in [Users -> Int]
  BY <1>1 DEF TypeOK, Debited
<1>4. ChoiceRefused => RoomInv'
  <2>1. roomState # "NONE" /\ user \in [Users -> UserRecord]
    BY <1>2, SeatedNotIdle DEF RoomInv, TypeOK
  <2>2. QED
    BY <2>1, TurnPassedInv DEF ChoiceRefused
<1>5. CASE Stand(u)
  <2>1. SwitchHandIfSplitExist([p EXCEPT !.hand[p.curHand].state = "STAND"])
          \in UserRecord
    BY <1>1, StoodType, SwitchType
  <2>2. QED
    BY <1>2, <1>3, <1>5, <2>1, ChoiceAppliedInv DEF Stand
<1>6. CASE Hit(u)
  <2>1. AfterHit(CurrentHand(p)) \in SUBSET HandStates
    BY <1>1 DEF AfterHit, Hand, HandStates
  <2>2. QED
    BY <1>1, <1>2, <1>3, <1>6, <2>1, CardDrawnInv DEF Hit
<1>7. CASE DoubleDown(u)
  <2>1. AfterDoubleDown(CurrentHand(p)) \in SUBSET HandStates
    BY DEF AfterDoubleDown, HandStates
  <2>2. DoubledDown(p) \in UserRecord
    BY <1>1, DoubledDownType
  <2>3. CASE CardDrawn(u, "DOUBLE_DOWN", DoubledDown(p), AfterDoubleDown(CurrentHand(p)),
                       Debited({u}, p.bet), [stake EXCEPT ![u] = @ + p.bet])
    BY <1>2, <1>3, <2>1, <2>2, <2>3, CardDrawnInv
  <2>4. QED
    BY <1>4, <1>7, <2>3 DEF DoubleDown
<1>8. CASE Split(u)
  <2>1. SplitUser(p) \in UserRecord
    BY <1>1, SplitType
  <2>2. CASE ChoiceApplied(u, "SPLIT", SplitUser(p), Debited({u}, p.bet),
                           [stake EXCEPT ![u] = @ + p.bet])
    BY <1>2, <1>3, <2>1, <2>2, ChoiceAppliedInv
  <2>3. CASE ChoiceApplied(u, "SPLIT", p, Debited({u}, p.bet), stake)
    BY <1>1, <1>2, <1>3, <2>3, ChoiceAppliedInv
  <2>4. QED
    BY <1>4, <1>8, <2>2, <2>3 DEF Split
<1>9. QED
  BY <1>5, <1>6, <1>7, <1>8

\* RunPostTimeAction keeps the invariant.
LEMMA TimerInv ==
  ASSUME TypeOK, RoomInv, fault = "none", TimerAction
  PROVE  RoomInv'
<1>1. /\ SeatingType(userList) /\ OneSeatEach(userList)
      /\ userCount = Cardinality(Occupied(userList))
      /\ Seated(userList) \subseteq connected
  BY DEF TypeOK, RoomInv, SeatsCounted, SeatingType, OneSeatEach, Occupied
<1>2. CASE BettingTimeout
  <2> DEFINE late == {u \in Seated(userList) : user[u].gameState = "BETTING"
                                               /\ user[u].money >= MinBet}
  <2>1. late # {} /\ BetsApplied(late, MinBet)
    BY <1>2 DEF BettingTimeout
  <2>2. late \in SUBSET Seated(userList) /\ \A u \in late : user[u].gameState = "BETTING"
    OBVIOUS
  <2> HIDE DEF late
  <2>3. QED
    BY <2>1, <2>2, BetAssumption, BetsInv
<1>3. CASE HandoutTimeout
  BY <1>3, TurnPassedInv DEF HandoutTimeout, TypeOK
<1>4. CASE TurnTimeout
  <2> DEFINE u  == userList[First(ActingSeats)]
             us == [user EXCEPT ![u] = AfterChoiceNtf(ForceNextTurn(user[u]))]
  <2>1. roomState # "NONE" /\ UNCHANGED <<userList, userCount, connected>>
    BY <1>4 DEF TurnTimeout
  <2>2. \A p \in UserRecord : AfterChoiceNtf(ForceNextTurn(p)) \in UserRecord
    BY StoodType, SwitchType
  <2>3. us \in [Users -> UserRecord]
    BY <2>2 DEF TypeOK
  <2>4. CASE NotifyChangeTurn(userList, us, chip)
    BY <2>1, <2>3, <2>4, TurnPassedInv
  <2>5. CASE ActingSeats = {}
    BY <1>4, <2>5 DEF TurnTimeout, RoomInv, SomebodyActs
  <2>6. QED
    BY <1>4, <2>4, <2>5 DEF TurnTimeout
<1>5. CASE RestartTimeout
  <2>1. dealt = FALSE /\ connected' = connected
    BY <1>5 DEF RestartTimeout, RoomInv, DeckMatchesState, TypeOK
  <2>2. SetRoomStateToWaiting(userList, user, Cardinality(Occupied(userList)))
    BY <1>1, <1>5 DEF RestartTimeout
  <2>3. QED
    BY <1>1, <2>1, <2>2, WaitingInv
<1>6. QED
  BY <1>2, <1>3, <1>4, <1>5 DEF TimerAction

\* The invariant holds in a fresh room.
LEMMA InitInv == Init => RoomInv
<1> SUFFICES ASSUME Init PROVE RoomInv
  OBVIOUS
<1>1. {s \in Seats : userList[s] # NoUser} = {} /\ Seated(userList) = {}
  BY DEF Init, Seated
<1>2. SeatsCounted
  BY <1>1, FS_EmptySet DEF Init, SeatsCounted
<1>3. IdleIffEmpty /\ DeckMatchesState /\ SomebodyActs
  BY DEF Init, IdleIffEmpty, DeckMatchesState, SomebodyActs
<1>4. QED
  BY <1>2, <1>3 DEF RoomInv

\* Every step keeps the invariant.
LEMMA NextInv == TypeOK /\ RoomInv /\ [Next]_vars => RoomInv'
<1> SUFFICES ASSUME TypeOK, RoomInv, [Next]_vars PROVE RoomInv'
  OBVIOUS
<1>1. Seated(userList) \subseteq connected
  BY DEF RoomInv, SeatsCounted
<1>2. ASSUME NEW u \in Users, UserAction(u) PROVE RoomInv'
  <2>1. CASE EnterUser(u)
    BY <2>1, EnterInv
  <2>2. CASE CloseSession(u) /\ u \in Seated(userList)
    BY <2>2, LeaveInv DEF CloseSession
  <2>3. CASE CloseSession(u) /\ u \notin Seated(userList)
    BY <1>1, <2>3, RoomUntouched DEF CloseSession
  <2>4. CASE ChoiceAfterKick(u)
    BY <2>4, CrashInv DEF ChoiceAfterKick
  <2>5. CASE Stand(u) \/ Hit(u) \/ DoubleDown(u) \/ Split(u)
    BY <2>5, ChoiceInv
  <2>6. ASSUME NEW money \in Bets, GameBet(u, money) PROVE RoomInv'
    <3> DEFINE amount == IF money < MinBet THEN MinBet ELSE money
    <3>1. amount \in Nat
      BY ChipsAssumption, BetAssumption
    <3>2. /\ u \in Seated(userList) /\ user[u].gameState = "BETTING"
          /\ BetsApplied({u}, amount)
      BY <2>6 DEF GameBet
    <3>3. QED
      BY <3>1, <3>2, BetsInv
  <2>7. CASE \E choice \in Choices : SendChoice(u, choice)
    BY <1>1, <2>7, RoomUntouched DEF SendChoice
  <2>8. QED
    BY <1>2, <2>1, <2>2, <2>3, <2>4, <2>5, <2>6, <2>7 DEF UserAction
<1>3. CASE fault = "none" /\ TimerAction
  BY <1>3, TimerInv
<1>4. CASE UNCHANGED vars
  BY <1>1, <1>4, RoomUntouched DEF vars
<1>5. QED
  BY <1>2, <1>3, <1>4 DEF Next, Running, Halted

\* The invariant the theorems below follow from.
LEMMA RoomInvariant == Spec => [](TypeOK /\ RoomInv)
<1>1. Init => TypeOK /\ RoomInv
  BY InitType, InitInv
<1>2. TypeOK /\ RoomInv /\ [Next]_vars => (TypeOK /\ RoomInv)'
  BY NextType, NextInv
<1>3. QED
  BY <1>1, <1>2, PTL DEF Spec

-----------------------------------------------------------------------------
\* The counter a room keeps by hand is the number of its occupied seats, nobody
\* holds two seats, and only users with a session hold one.
THEOREM SeatsAlwaysCounted == Spec => []SeatsCounted
<1>1. TypeOK /\ RoomInv => SeatsCounted
  BY DEF RoomInv
<1>2. QED
  BY <1>1, RoomInvariant, PTL

\* A room is in state NONE exactly while nobody is in it, so RunPostTimeAction
\* never meets the state it logs as impossible.
THEOREM IdleExactlyWhenEmpty == Spec => []IdleIffEmpty
<1>1. TypeOK /\ RoomInv => IdleIffEmpty
  BY DEF RoomInv
<1>2. QED
  BY <1>1, RoomInvariant, PTL

\* The dealer holds a deck exactly while a game is on.
THEOREM DeckMatchesRoom == Spec => []DeckMatchesState
<1>1. TypeOK /\ RoomInv => DeckMatchesState
  BY DEF RoomInv
<1>2. QED
  BY <1>1, RoomInvariant, PTL

\* While a game is on some player is told to act and can: the branch of
\* RunPostTimeAction that its comment calls a bug is never taken.
THEOREM SomebodyAlwaysActs == Spec => []SomebodyActs
<1>1. TypeOK /\ RoomInv => SomebodyActs
  BY DEF RoomInv
<1>2. QED
  BY <1>1, RoomInvariant, PTL
-----------------------------------------------------------------------------
(* The money of the room                                                   *)

ToPlay == {"ACTION_WAITING", "ACTIONING"}

\* A second hand exists only after a split, which leaves a card in the first.
RecordOK(p) == /\ ~ p.isSplit => p.curHand = 0
               /\ p.isSplit => p.hand[0].num >= 1

\* A first hand without a first card does not have the count of a pair, nor
\* does it have it after one more card.
NoBlankPair(p) == ~ p.hand[0].first => p.hand[0].num # 1 /\ p.hand[0].num # 2

RecordsFit(us) == \A u \in Users : RecordOK(us[u])
BlanksTold(ul, us, sn) ==
  \A u \in Seated(ul) : sn[u] # "none" \/ InRound(us[u]) => NoBlankPair(us[u])
PlayersHaveDeck(ul, us, d) == \A u \in Seated(ul) : us[u].gameState \in ToPlay => d
NotAhead(ul, us, db) == \A u \in Seated(ul) : db[u] <= us[u].money
SendersConnected == \A u \in Users : sent[u] # "none" => u \in connected

General == /\ RecordsFit(user)
           /\ SendersConnected
           /\ BlanksTold(userList, user, sent)
           /\ PlayersHaveDeck(userList, user, dealt)
           /\ NotAhead(userList, user, chip)

-----------------------------------------------------------------------------
(* What a game that ends leaves behind                                     *)

Paid(p, e) == [ResetForNextGame(p) EXCEPT !.money = @ + e]

\* User::ResetForNextGame and the payment, field by field.
LEMMA PaidRecord ==
  ASSUME NEW p \in UserRecord, NEW e \in Nat
  PROVE  /\ Paid(p, e).money = p.money + e /\ Paid(p, e).bet = p.bet
         /\ Paid(p, e).gameState = "WAITING"
         /\ Paid(p, e).curHand = 0 /\ Paid(p, e).isSplit = FALSE
         /\ Paid(p, e).hand[0] = EmptyHand /\ Paid(p, e).hand[1] = EmptyHand
BY DEF Paid, ResetForNextGame, UserRecord, Hands

\* Who plays is paid what the rules say, in memory and in the database alike.
PaidAs(u, d, us, db) ==
  \E e \in Nat : /\ e \in EarnMoney(d, us[u])
                 /\ user'[u] = Paid(us[u], e)
                 /\ chip'[u] = db[u] + e

\* Room::EndOfGame pays everybody who is seated and touches nobody else.
LEMMA EndOfGameUsers ==
  ASSUME NEW ul, SeatingType(ul), NEW us \in [Users -> UserRecord],
         NEW db \in [Users -> Int], EndOfGame(ul, us, db)
  PROVE  \/ /\ roomState' = "CALCULATE" /\ dealt' = FALSE
            /\ buttons' = {} /\ fault' = fault
            /\ \A u \in Users \ Seated(ul) : user'[u] = us[u] /\ chip'[u] = db[u]
            /\ \E d \in DealerStates : \A u \in Seated(ul) : PaidAs(u, d, us, db)
         \/ Broken("dealer_overflow", us, db)
<1>1. CASE Broken("dealer_overflow", us, db)
  BY <1>1
<1>2. ASSUME NEW d \in DealerStates,
             NEW earn \in [Seated(ul) -> UNION {EarnMoney(d, us[u]) : u \in Seated(ul)}],
             \A u \in Seated(ul) : earn[u] \in EarnMoney(d, us[u]),
             Settled(ul, us, db, earn)
      PROVE  /\ roomState' = "CALCULATE" /\ dealt' = FALSE
             /\ buttons' = {} /\ fault' = fault
             /\ \A u \in Users \ Seated(ul) : user'[u] = us[u] /\ chip'[u] = db[u]
             /\ \A u \in Seated(ul) : PaidAs(u, d, us, db)
  <2>1. /\ roomState' = "CALCULATE" /\ dealt' = FALSE /\ buttons' = {} /\ fault' = fault
        /\ user' = [u \in Users |->
                      IF u \in Seated(ul)
                      THEN [ResetForNextGame(us[u]) EXCEPT !.money = @ + earn[u]]
                      ELSE us[u]]
        /\ chip' = [u \in Users |-> IF u \in Seated(ul) THEN db[u] + earn[u] ELSE db[u]]
    BY <1>2 DEF Settled, RoomReset
  <2>2. ASSUME NEW u \in Seated(ul) PROVE PaidAs(u, d, us, db)
    <3>1. u \in Users /\ us[u] \in UserRecord
      BY SeatedType
    <3>2. earn[u] \in EarnMoney(d, us[u]) /\ earn[u] \in Nat
      BY <1>2, <3>1, EarnMoneyType
    <3>3. user'[u] = Paid(us[u], earn[u])
      BY <2>1, <3>1 DEF Paid
    <3>4. chip'[u] = db[u] + earn[u]
      BY <2>1, <3>1
    <3>5. QED
      BY <3>2, <3>3, <3>4 DEF PaidAs
  <2>3. QED
    BY <2>1, <2>2
<1>3. QED
  BY <1>1, <1>2 DEF EndOfGame

\* Giving the turn to a player keeps what General says of the players.
LEMMA TurnGivenGeneral ==
  ASSUME NEW ul, SeatingType(ul), NEW us \in [Users -> UserRecord],
         NEW db \in [Users -> Int], NEW sn,
         PlayableSeats(ul, us) # {}, user' = TurnGiven(ul, us), chip' = db, dealt' = dealt,
         RecordsFit(us), BlanksTold(ul, us, sn), PlayersHaveDeck(ul, us, dealt),
         NotAhead(ul, us, db)
  PROVE  /\ RecordsFit(user') /\ BlanksTold(ul, user', sn)
         /\ PlayersHaveDeck(ul, user', dealt') /\ NotAhead(ul, user', chip')
<1>0. Seated(ul) \subseteq Users
  BY SeatedType
<1> DEFINE w == NextUser(ul, us)
<1>1. w \in Seated(ul) /\ Playable(us[w])
  <2>1. First(PlayableSeats(ul, us)) \in PlayableSeats(ul, us)
    BY FirstIsMember DEF PlayableSeats
  <2>2. QED
    BY <2>1 DEF PlayableSeats, NextUser, Seated
<1>2. user' = [us EXCEPT ![w].gameState = "ACTIONING"] /\ w \in Users
  BY <1>0, <1>1 DEF TurnGiven
<1> HIDE DEF w
<1>3. ASSUME NEW u \in Users
      PROVE  /\ user'[u].hand = us[u].hand /\ user'[u].curHand = us[u].curHand
             /\ user'[u].isSplit = us[u].isSplit /\ user'[u].money = us[u].money
             /\ u # w => user'[u] = us[u]
             /\ u = w => user'[u].gameState = "ACTIONING"
  <2>1. us[u] \in UserRecord
    OBVIOUS
  <2>2. CASE u = w
    BY <1>2, <2>1, <2>2 DEF UserRecord
  <2>3. CASE u # w
    BY <1>2, <2>3
  <2>4. QED
    BY <2>2, <2>3
<1>4. RecordsFit(user')
  BY <1>3 DEF RecordsFit, RecordOK
<1>5. us[w].gameState \in ToPlay /\ InRound(us[w])
  BY <1>1 DEF Playable, ToPlay, InRound
<1>6. ASSUME NEW u \in Seated(ul), sn[u] # "none" \/ InRound(user'[u])
      PROVE  NoBlankPair(user'[u])
  <2>1. sn[u] # "none" \/ InRound(us[u])
    BY <1>0, <1>3, <1>5, <1>6 DEF InRound
  <2>2. NoBlankPair(us[u])
    BY <2>1 DEF BlanksTold
  <2>3. QED
    BY <1>0, <1>3, <2>2 DEF NoBlankPair
<1>7. PlayersHaveDeck(ul, user', dealt')
  BY <1>0, <1>1, <1>3, <1>5 DEF PlayersHaveDeck
<1>8. NotAhead(ul, user', chip')
  BY <1>0, <1>3 DEF NotAhead
<1>9. QED
  BY <1>4, <1>6, <1>7, <1>8 DEF BlanksTold

\* Passing the turn on keeps what General says of the players.
LEMMA TurnGeneral ==
  ASSUME NEW ul, SeatingType(ul), NEW us \in [Users -> UserRecord],
         NEW db \in [Users -> Int], NEW sn, NotifyChangeTurn(ul, us, db),
         RecordsFit(us), BlanksTold(ul, us, sn), PlayersHaveDeck(ul, us, dealt),
         NotAhead(ul, us, db)
  PROVE  /\ RecordsFit(user') /\ BlanksTold(ul, user', sn)
         /\ PlayersHaveDeck(ul, user', dealt') /\ NotAhead(ul, user', chip')
<1>1. Seated(ul) \subseteq Users
  BY SeatedType
<1>2. CASE /\ PlayableSeats(ul, us) # {} /\ user' = TurnGiven(ul, us)
           /\ chip' = db /\ dealt' = dealt
  BY <1>2, TurnGivenGeneral
<1>3. CASE user' = us /\ chip' = db /\ dealt' = dealt
  BY <1>3
<1>4. ASSUME dealt' = FALSE,
             \A u \in Users \ Seated(ul) : user'[u] = us[u] /\ chip'[u] = db[u],
             NEW d, d \in DealerStates, \A u \in Seated(ul) : PaidAs(u, d, us, db)
      PROVE  /\ RecordsFit(user') /\ BlanksTold(ul, user', sn)
             /\ PlayersHaveDeck(ul, user', dealt') /\ NotAhead(ul, user', chip')
  <2>1. ASSUME NEW u \in Seated(ul)
        PROVE  /\ RecordOK(user'[u]) /\ NoBlankPair(user'[u])
               /\ user'[u].gameState = "WAITING" /\ chip'[u] <= user'[u].money
    <3>1. PICK e \in Nat : user'[u] = Paid(us[u], e) /\ chip'[u] = db[u] + e
      BY <1>4 DEF PaidAs
    <3>2. us[u] \in UserRecord /\ db[u] \in Int /\ db[u] <= us[u].money /\ us[u].money \in Int
      BY <1>1 DEF NotAhead, UserRecord
    <3>3. /\ user'[u].money = us[u].money + e /\ user'[u].gameState = "WAITING"
          /\ user'[u].isSplit = FALSE /\ user'[u].curHand = 0
          /\ user'[u].hand[0] = EmptyHand
      <4>1. us[u] \in UserRecord /\ e \in Nat
        BY <3>1, <3>2
      <4>2. /\ Paid(us[u], e).money = us[u].money + e
            /\ Paid(us[u], e).gameState = "WAITING"
            /\ Paid(us[u], e).isSplit = FALSE /\ Paid(us[u], e).curHand = 0
            /\ Paid(us[u], e).hand[0] = EmptyHand
        BY <4>1, PaidRecord
      <4>3. QED
        BY <3>1, <4>2, Zenon
    <3>4. RecordOK(user'[u]) /\ NoBlankPair(user'[u])
      BY <3>3 DEF RecordOK, NoBlankPair, EmptyHand
    <3>5. QED
      BY <3>1, <3>2, <3>3, <3>4
  <2>2. RecordsFit(user')
    BY <1>4, <2>1 DEF RecordsFit
  <2>3. QED
    BY <2>1, <2>2 DEF BlanksTold, PlayersHaveDeck, NotAhead, ToPlay
<1>5. CASE EndOfGame(ul, us, db)
  BY <1>3, <1>4, <1>5, EndOfGameUsers DEF Broken
<1>6. QED
  BY <1>2, <1>3, <1>5 DEF NotifyChangeTurn, Broken

-----------------------------------------------------------------------------
(* The operations of a User                                                *)

\* User::Init keeps the counts of the cards and clears the cards.
LEMMA LoggedInRecord ==
  ASSUME NEW p \in UserRecord, NEW money \in Int
  PROVE  /\ LoggedIn(p, money).money = money
         /\ LoggedIn(p, money).gameState = "WAITING"
         /\ LoggedIn(p, money).curHand = p.curHand
         /\ LoggedIn(p, money).isSplit = p.isSplit
         /\ \A h \in Hands : LoggedIn(p, money).hand[h] =
              [state |-> "CURRENT", num |-> p.hand[h].num, first |-> FALSE,
               doubledown |-> FALSE]
<1>1. InitHand(p) \in [Hands -> Hand]
  BY InitHandType
<1>2. /\ LoggedIn(p, money).money = money
      /\ LoggedIn(p, money).gameState = "WAITING"
      /\ LoggedIn(p, money).curHand = p.curHand
      /\ LoggedIn(p, money).isSplit = p.isSplit
      /\ LoggedIn(p, money).hand = InitHand(p)
  BY DEF LoggedIn, UserRecord
<1>3. QED
  BY <1>2 DEF InitHand

\* What SwitchHandIfSplitExist changes: the second hand is played, or the user
\* is done.
LEMMA SwitchRecord ==
  ASSUME NEW p \in UserRecord
  PROVE  LET q == SwitchHandIfSplitExist(p)
         IN  /\ q.hand = p.hand /\ q.money = p.money /\ q.bet = p.bet
             /\ q.isSplit = p.isSplit
             /\ \/ /\ q.curHand = 1 /\ q.gameState = p.gameState
                   /\ p.curHand = 0 /\ p.isSplit /\ p.hand[1].first
                \/ q.curHand = p.curHand /\ q.gameState = "ACTION_DONE"
BY DEF SwitchHandIfSplitExist, UserRecord, Hands

\* The same of NotifyGameChoice, which leaves a hand alone that can be played on.
LEMMA NotifiedRecord ==
  ASSUME NEW p \in UserRecord
  PROVE  LET q == AfterChoiceNtf(p)
         IN  /\ q.hand = p.hand /\ q.money = p.money /\ q.bet = p.bet
             /\ q.isSplit = p.isSplit
             /\ \/ q = p /\ CurrentHand(p).state = "CURRENT"
                \/ /\ q.curHand = 1 /\ q.gameState = p.gameState
                   /\ p.curHand = 0 /\ p.isSplit /\ p.hand[1].first
                   /\ CurrentHand(p).state # "CURRENT"
                \/ q.curHand = p.curHand /\ q.gameState = "ACTION_DONE"
BY SwitchRecord DEF AfterChoiceNtf

\* Neither of them disturbs what General says of a user.
LEMMA SwitchKeeps ==
  ASSUME NEW p \in UserRecord, RecordOK(p)
  PROVE  /\ RecordOK(SwitchHandIfSplitExist(p)) /\ RecordOK(AfterChoiceNtf(p))
         /\ NoBlankPair(p) => /\ NoBlankPair(SwitchHandIfSplitExist(p))
                              /\ NoBlankPair(AfterChoiceNtf(p))
<1>1. /\ RecordOK(SwitchHandIfSplitExist(p))
      /\ NoBlankPair(p) => NoBlankPair(SwitchHandIfSplitExist(p))
  BY SwitchRecord DEF RecordOK, NoBlankPair
<1>2. /\ RecordOK(AfterChoiceNtf(p))
      /\ NoBlankPair(p) => NoBlankPair(AfterChoiceNtf(p))
  BY NotifiedRecord DEF RecordOK, NoBlankPair
<1>3. QED
  BY <1>1, <1>2

\* Two cards are dealt: a hand that lacks its first card counts three or more.
LEMMA DealtRecord ==
  ASSUME NEW p \in UserRecord, NEW b \in BOOLEAN, RecordOK(p)
  PROVE  /\ RecordOK(Dealt(p, b)) /\ NoBlankPair(Dealt(p, b))
         /\ Dealt(p, b).money = p.money /\ Dealt(p, b).gameState = "ACTION_WAITING"
<1> DEFINE h == p.hand[0]
           q == Dealt(p, b)
<1>1. h \in Hand /\ h.num \in Nat
  BY DEF UserRecord, Hands, Hand
<1>2. /\ DealtHand(h, b).num = h.num + 1 + 1
      /\ DealtHand(h, b).first = ((h.first \/ h.num = 0) \/ h.num + 1 = 0)
  <2>1. /\ WithCard(h).num = h.num + 1 /\ WithCard(h).first = (h.first \/ h.num = 0)
        /\ DOMAIN WithCard(h) = DOMAIN h
    BY <1>1 DEF WithCard, Hand
  <2>2. /\ WithCard(WithCard(h)).num = h.num + 1 + 1
        /\ WithCard(WithCard(h)).first = ((h.first \/ h.num = 0) \/ h.num + 1 = 0)
    BY <1>1, <2>1 DEF WithCard, Hand
  <2>3. QED
    BY <1>1, <2>2 DEF DealtHand, WithCard, Hand
<1>3. /\ q.hand[0] = DealtHand(h, b) /\ q.money = p.money
      /\ q.gameState = "ACTION_WAITING" /\ q.curHand = p.curHand
      /\ q.isSplit = p.isSplit
  BY DEF Dealt, UserRecord, Hands
<1>4. NoBlankPair(q)
  <2>1. ASSUME ~ q.hand[0].first PROVE q.hand[0].num # 1 /\ q.hand[0].num # 2
    <3>1. ~ (h.num = 0)
      BY <1>2, <1>3, <2>1
    <3>2. QED
      BY <1>1, <1>2, <1>3, <3>1
  <2>2. QED
    BY <2>1 DEF NoBlankPair
<1>5. RecordOK(q)
  BY <1>1, <1>2, <1>3 DEF RecordOK
<1>6. QED
  BY <1>3, <1>4, <1>5

\* One more card: neither the split nor a blank pair comes of it.
LEMMA CardRecord ==
  ASSUME NEW p \in UserRecord, RecordOK(p), NoBlankPair(p), NEW s \in HandStates
  PROVE  LET q == [p EXCEPT !.hand[p.curHand] = [WithCard(@) EXCEPT !.state = s]]
         IN  /\ RecordOK(q) /\ NoBlankPair(q)
             /\ q.money = p.money /\ q.gameState = p.gameState
<1> DEFINE c == p.curHand
           h == p.hand[c]
           q == [p EXCEPT !.hand[c] = [WithCard(@) EXCEPT !.state = s]]
<1>1. c \in Hands /\ h \in Hand /\ h.num \in Nat /\ p.hand[0].num \in Nat
  BY DEF UserRecord, Hands, Hand
<1>2. /\ [WithCard(h) EXCEPT !.state = s].num = h.num + 1
      /\ [WithCard(h) EXCEPT !.state = s].first = (h.first \/ h.num = 0)
  BY <1>1 DEF WithCard, Hand
<1>3. /\ q.hand[c] = [WithCard(h) EXCEPT !.state = s]
      /\ c # 0 => q.hand[0] = p.hand[0]
      /\ q.money = p.money /\ q.gameState = p.gameState
      /\ q.curHand = p.curHand /\ q.isSplit = p.isSplit
  BY <1>1 DEF UserRecord, Hands
<1>4. CASE c = 0
  <2>1. q.hand[0].num = h.num + 1 /\ q.hand[0].first = (h.first \/ h.num = 0) /\ h = p.hand[0]
    BY <1>2, <1>3, <1>4
  <2>2. NoBlankPair(q)
    <3>1. ASSUME ~ q.hand[0].first PROVE q.hand[0].num # 1 /\ q.hand[0].num # 2
      <4>1. ~ h.first /\ h.num # 0
        BY <2>1, <3>1
      <4>2. h.num # 1
        BY <2>1, <4>1 DEF NoBlankPair
      <4>3. QED
        BY <1>1, <2>1, <4>1, <4>2
    <3>2. QED
      BY <3>1 DEF NoBlankPair
  <2>3. RecordOK(q)
    BY <1>1, <1>3, <2>1 DEF RecordOK
  <2>4. QED
    BY <1>3, <2>2, <2>3
<1>5. CASE c # 0
  BY <1>3, <1>5 DEF RecordOK, NoBlankPair
<1>6. QED
  BY <1>4, <1>5

\* Standing changes the state of one hand.
LEMMA StoodRecord ==
  ASSUME NEW p \in UserRecord, RecordOK(p)
  PROVE  LET q == [p EXCEPT !.hand[p.curHand].state = "STAND"]
         IN  /\ RecordOK(q) /\ (NoBlankPair(p) => NoBlankPair(q))
             /\ q.money = p.money /\ q.gameState = p.gameState
<1> DEFINE q == [p EXCEPT !.hand[p.curHand].state = "STAND"]
<1>1. /\ q.hand[0].num = p.hand[0].num /\ q.hand[0].first = p.hand[0].first
      /\ q.money = p.money /\ q.gameState = p.gameState
      /\ q.curHand = p.curHand /\ q.isSplit = p.isSplit
  BY DEF UserRecord, Hands, Hand
<1>2. QED
  BY <1>1 DEF RecordOK, NoBlankPair

\* A turn that is forced changes it and ends the turn.
LEMMA ForcedRecord ==
  ASSUME NEW p \in UserRecord, RecordOK(p)
  PROVE  LET q == ForceNextTurn(p)
         IN  /\ RecordOK(q) /\ (NoBlankPair(p) => NoBlankPair(q))
             /\ q.money = p.money /\ q.gameState = "ACTION_DONE"
<1> DEFINE q == ForceNextTurn(p)
<1>1. /\ q.hand[0].num = p.hand[0].num /\ q.hand[0].first = p.hand[0].first
      /\ q.money = p.money /\ q.gameState = "ACTION_DONE"
      /\ q.curHand = p.curHand /\ q.isSplit = p.isSplit
  BY DEF ForceNextTurn, UserRecord, Hands, Hand
<1>2. QED
  BY <1>1 DEF RecordOK, NoBlankPair

\* Doubling down costs the bet once more.
LEMMA DoubledRecord ==
  ASSUME NEW p \in UserRecord, RecordOK(p), NoBlankPair(p)
  PROVE  /\ RecordOK(DoubledDown(p)) /\ NoBlankPair(DoubledDown(p))
         /\ DoubledDown(p).money = p.money - p.bet
         /\ DoubledDown(p).gameState = p.gameState
         /\ DoubledDown(p).curHand = p.curHand
<1> DEFINE q == DoubledDown(p)
<1>1. /\ q.hand[0].num = p.hand[0].num /\ q.hand[0].first = p.hand[0].first
      /\ q.money = p.money - p.bet /\ q.gameState = p.gameState
      /\ q.curHand = p.curHand /\ q.isSplit = p.isSplit
  BY DEF DoubledDown, UserRecord, Hands, Hand
<1>2. QED
  BY <1>1 DEF RecordOK, NoBlankPair

\* A split that is carried out starts from the first hand, which holds a first
\* card: User::Split's assertions.
LEMMA SplitFindsCards ==
  ASSUME NEW p \in UserRecord, RecordOK(p), NoBlankPair(p), ~ p.isSplit, CanSplit(p)
  PROVE  p.curHand = 0 /\ p.hand[0].first
BY DEF RecordOK, NoBlankPair, CanSplit, CurrentHand, UserRecord, Hands, Hand

\* A split costs the bet once more and leaves a card in each hand.
LEMMA SplitRecord ==
  ASSUME NEW p \in UserRecord, RecordOK(p), NoBlankPair(p), ~ p.isSplit, CanSplit(p)
  PROVE  /\ RecordOK(SplitUser(p)) /\ NoBlankPair(SplitUser(p))
         /\ SplitUser(p).money = p.money - p.bet
         /\ SplitUser(p).gameState = p.gameState
<1> DEFINE q == SplitUser(p)
<1>1. p.curHand = 0 /\ p.hand[0].first
  BY SplitFindsCards
<1>2. /\ q.hand[0].num = 1 /\ q.hand[0].first = p.hand[0].first
      /\ q.money = p.money - p.bet /\ q.gameState = p.gameState
      /\ q.curHand = 0 /\ q.isSplit = TRUE
  <2> DEFINE f == [p.hand EXCEPT ![p.curHand].num = 1]
             g == [f EXCEPT ![1].num = 1]
             k == [g EXCEPT ![1].first = TRUE]
  <2>1. /\ q.money = p.money - p.bet /\ q.gameState = p.gameState
        /\ q.curHand = p.curHand /\ q.isSplit = TRUE /\ q.hand = k
    BY DEF SplitUser, UserRecord
  <2>2. /\ p.hand \in [Hands -> Hand] /\ DOMAIN f = Hands /\ DOMAIN g = Hands
        /\ 0 \in Hands /\ 0 # 1
    BY DEF UserRecord, Hands
  <2>3. k[0] = g[0] /\ g[0] = f[0]
    BY <2>2
  <2>4. f[0].num = 1 /\ f[0].first = p.hand[0].first
    BY <1>1, <2>2 DEF Hand
  <2> HIDE DEF f, g, k, q
  <2>5. QED
    BY <1>1, <2>1, <2>3, <2>4
<1>3. QED
  BY <1>1, <1>2 DEF RecordOK, NoBlankPair

-----------------------------------------------------------------------------
(* Every action keeps General.                                             *)

\* SetRoomStateToWaiting: whoever keeps its seat has to bet.
LEMMA WaitingGeneral ==
  ASSUME NEW ul, SeatingType(ul), NEW us \in [Users -> UserRecord], NEW n, NEW sn,
         NEW db \in [Users -> Int], SetRoomStateToWaiting(ul, us, n),
         RecordsFit(us), BlanksTold(ul, us, sn), NotAhead(ul, us, db)
  PROVE  /\ RecordsFit(user') /\ BlanksTold(userList', user', sn)
         /\ PlayersHaveDeck(userList', user', dealt') /\ NotAhead(userList', user', db)
<1> DEFINE out == Kicked(ul, us)
<1>1. /\ userList' = [s \in Seats |-> IF ul[s] \in out THEN NoUser ELSE ul[s]]
      /\ user' = [u \in Users |-> IF u \in Seated(ul) \ out
                                  THEN [us[u] EXCEPT !.gameState = "BETTING"]
                                  ELSE us[u]]
  BY DEF SetRoomStateToWaiting
<1>2. Seated(userList') \subseteq Seated(ul) \ out /\ Seated(ul) \subseteq Users
  BY <1>1, SeatedType DEF Seated
<1>3. ASSUME NEW u \in Users
      PROVE  /\ user'[u].hand = us[u].hand /\ user'[u].curHand = us[u].curHand
             /\ user'[u].isSplit = us[u].isSplit /\ user'[u].money = us[u].money
             /\ u \in Seated(ul) \ out => user'[u].gameState = "BETTING"
  <2>1. us[u] \in UserRecord
    OBVIOUS
  <2>2. QED
    BY <1>1, <2>1 DEF UserRecord
<1>4. RecordsFit(user')
  BY <1>3 DEF RecordsFit, RecordOK
<1>5. ASSUME NEW u \in Seated(userList')
      PROVE  /\ user'[u].gameState = "BETTING" /\ db[u] <= user'[u].money
             /\ sn[u] # "none" => NoBlankPair(user'[u])
  BY <1>2, <1>3 DEF BlanksTold, NotAhead, NoBlankPair
<1>6. QED
  BY <1>4, <1>5 DEF BlanksTold, PlayersHaveDeck, NotAhead, InRound, ToPlay

\* Entering: the room reads from the database what the user has.
LEMMA EnterGeneral ==
  ASSUME TypeOK, RoomInv, General, NEW u \in Users, EnterUser(u)
  PROVE  General'
<1> DEFINE seat == First({s \in Seats : userList[s] = NoUser})
           ul   == [userList EXCEPT ![seat] = u]
           us   == [user EXCEPT ![u] = LoggedIn(user[u], chip[u])]
<1>1. /\ SeatingType(userList) /\ OneSeatEach(userList)
      /\ userCount = Cardinality(Occupied(userList))
      /\ Seated(userList) \subseteq connected
  BY DEF TypeOK, RoomInv, SeatsCounted, SeatingType, OneSeatEach, Occupied
<1>2. /\ u \notin connected /\ userCount < MaxSeats /\ connected' = connected \cup {u}
      /\ sent' = sent /\ chip' = chip
  BY DEF EnterUser
<1>3. seat \in Seats /\ userList[seat] = NoUser
  BY <1>1, <1>2, FreeSeat
<1>4. Seated(ul) = Seated(userList) \cup {u} /\ u \notin Seated(userList) /\ SeatingType(ul)
  <2>1. u \notin Seated(userList) /\ SeatingType(ul)
    BY <1>1, <1>2 DEF SeatingType
  <2>2. QED
    BY <1>1, <1>3, <2>1, SeatTaken
<1>5. /\ us \in [Users -> UserRecord] /\ chip \in [Users -> Int]
      /\ \A w \in Users : w # u => us[w] = user[w]
      /\ us[u] = LoggedIn(user[u], chip[u]) /\ user[u] \in UserRecord /\ chip[u] \in Int
  BY LoggedInType DEF TypeOK
<1>6. /\ us[u].money = chip[u] /\ us[u].gameState = "WAITING" /\ RecordOK(us[u])
  <2>1. RecordOK(user[u]) /\ 0 \in Hands
    BY DEF General, RecordsFit, Hands
  <2>2. /\ LoggedIn(user[u], chip[u]).money = chip[u]
        /\ LoggedIn(user[u], chip[u]).gameState = "WAITING"
        /\ LoggedIn(user[u], chip[u]).curHand = user[u].curHand
        /\ LoggedIn(user[u], chip[u]).isSplit = user[u].isSplit
        /\ LoggedIn(user[u], chip[u]).hand[0] =
             [state |-> "CURRENT", num |-> user[u].hand[0].num, first |-> FALSE,
              doubledown |-> FALSE]
    BY <1>5, <2>1, LoggedInRecord
  <2>3. RecordOK(LoggedIn(user[u], chip[u]))
    BY <2>1, <2>2 DEF RecordOK
  <2>4. QED
    BY <1>5, <2>2, <2>3
<1>7. sent[u] = "none" /\ SendersConnected'
  BY <1>2 DEF General, SendersConnected
<1> HIDE DEF us, ul, seat
<1>8. RecordsFit(us)
  BY <1>5, <1>6 DEF General, RecordsFit
<1>9. BlanksTold(ul, us, sent)
  <2>1. ASSUME NEW w \in Seated(ul), sent[w] # "none" \/ InRound(us[w])
        PROVE  NoBlankPair(us[w])
    <3>1. w # u
      BY <1>6, <1>7, <2>1 DEF InRound
    <3>2. w \in Seated(userList) /\ us[w] = user[w]
      BY <1>4, <1>5, <3>1, SeatedType
    <3>3. QED
      BY <2>1, <3>2 DEF General, BlanksTold
  <2>2. QED
    BY <2>1 DEF BlanksTold
<1>10. PlayersHaveDeck(ul, us, dealt)
  <2>1. ASSUME NEW w \in Seated(ul), us[w].gameState \in ToPlay PROVE dealt
    <3>1. w # u
      BY <1>6, <2>1 DEF ToPlay
    <3>2. w \in Seated(userList) /\ us[w] = user[w]
      BY <1>4, <1>5, <3>1, SeatedType
    <3>3. QED
      BY <2>1, <3>2 DEF General, PlayersHaveDeck
  <2>2. QED
    BY <2>1 DEF PlayersHaveDeck
<1>11. NotAhead(ul, us, chip)
  <2>1. ASSUME NEW w \in Seated(ul) PROVE chip[w] <= us[w].money
    <3>1. CASE w = u
      BY <1>5, <1>6, <3>1
    <3>2. CASE w # u
      <4>1. w \in Seated(userList) /\ us[w] = user[w]
        BY <1>4, <1>5, <3>2, SeatedType
      <4>2. QED
        BY <4>1 DEF General, NotAhead
    <3>3. QED
      BY <3>1, <3>2
  <2>2. QED
    BY <2>1 DEF NotAhead
<1>12. CASE SetRoomStateToWaiting(ul, us, userCount + 1)
  <2>1. /\ RecordsFit(user') /\ BlanksTold(userList', user', sent)
        /\ PlayersHaveDeck(userList', user', dealt') /\ NotAhead(userList', user', chip)
    BY <1>4, <1>5, <1>8, <1>9, <1>11, <1>12, WaitingGeneral
  <2>2. QED
    BY <1>2, <1>7, <2>1 DEF General
<1>13. CASE userList' = ul /\ user' = us /\ dealt' = dealt
  BY <1>2, <1>7, <1>8, <1>9, <1>10, <1>11, <1>13 DEF General
<1>14. QED
  BY <1>12, <1>13 DEF EnterUser, ul, us, seat

\* Leaving: the others keep their records, unless the game ends or goes on.
LEMMA CloseGeneral ==
  ASSUME TypeOK, RoomInv, General, NEW u \in Users, CloseSession(u)
  PROVE  General'
<1> DEFINE ul   == SeatGivenBack(u)
           done == [user EXCEPT ![u].gameState = "ACTION_DONE"]
<1>1. /\ sent' = [sent EXCEPT ![u] = "none"] /\ connected' = connected \ {u}
      /\ SendersConnected'
  BY DEF CloseSession, General, SendersConnected, TypeOK
<1>2. ASSUME NEW w \in Users, sent'[w] # "none" PROVE sent[w] # "none"
  BY <1>1, <1>2 DEF TypeOK
<1>3. CASE u \notin Seated(userList)
  <2>1. UNCHANGED <<userList, dealt, user, chip>> /\ Seated(userList) \subseteq Users
    BY <1>3, SeatedType DEF CloseSession, TypeOK, SeatingType
  <2>2. BlanksTold(userList', user', sent')
    BY <1>2, <2>1 DEF General, BlanksTold
  <2>3. QED
    BY <1>1, <2>1, <2>2 DEF General
<1>4. CASE u \in Seated(userList)
  <2>1. LeaveRoom(u) /\ RoomInv'
    BY <1>1, <1>4, LeaveInv DEF CloseSession
  <2>2. userList' = ul /\ userCount' = userCount - 1
    BY <2>1 DEF LeaveRoom
  <2>3. Seated(ul) \subseteq Seated(userList) \ {u} /\ SeatingType(ul) /\ Seated(ul) \subseteq Users
    <3>1. Seated(ul) \subseteq Seated(userList) \ {u} /\ SeatingType(ul)
      BY DEF SeatGivenBack, Seated, SeatingType, TypeOK
    <3>2. QED
      BY <3>1, SeatedType
  <2>4. /\ done \in [Users -> UserRecord] /\ chip \in [Users -> Int]
        /\ \A w \in Users : w # u => done[w] = user[w]
        /\ done[u].hand = user[u].hand /\ done[u].curHand = user[u].curHand
        /\ done[u].isSplit = user[u].isSplit
    BY SMTT(30) DEF TypeOK, UserRecord, GameStates
  <2> HIDE DEF done, ul
  <2>5. RecordsFit(done)
    BY <2>4 DEF General, RecordsFit, RecordOK
  <2>6. /\ BlanksTold(ul, done, sent') /\ PlayersHaveDeck(ul, done, dealt)
        /\ NotAhead(ul, done, chip)
    BY <1>2, <2>3, <2>4 DEF General, BlanksTold, PlayersHaveDeck, NotAhead
  <2>7. CASE userCount = 1 /\ UNCHANGED <<user, chip>>
    <3>1. Seated(userList') = {}
      <4>1. Cardinality(Occupied(userList')) = 0
        BY <2>1, <2>2, <2>7 DEF RoomInv, SeatsCounted, Occupied
      <4>2. Occupied(userList') = {}
        BY <4>1, OccupiedFinite, FS_EmptySet
      <4>3. QED
        BY <4>2 DEF Occupied, Seated
    <3>2. QED
      BY <1>1, <2>7, <3>1 DEF General, BlanksTold, PlayersHaveDeck, NotAhead
  <2>8. CASE NotifyChangeTurn(ul, done, chip)
    <3>1. /\ RecordsFit(user') /\ BlanksTold(ul, user', sent')
          /\ PlayersHaveDeck(ul, user', dealt') /\ NotAhead(ul, user', chip')
      BY <2>3, <2>4, <2>5, <2>6, <2>8, TurnGeneral
    <3>2. QED
      BY <1>1, <2>2, <3>1 DEF General
  <2>9. CASE UNCHANGED <<roomState, dealt, user, chip, buttons, fault>>
    <3>1. /\ BlanksTold(ul, user', sent') /\ PlayersHaveDeck(ul, user', dealt')
          /\ NotAhead(ul, user', chip')
      BY <1>2, <2>3, <2>9 DEF General, BlanksTold, PlayersHaveDeck, NotAhead
    <3>2. QED
      BY <1>1, <2>2, <2>9, <3>1 DEF General
  <2>10. QED
    BY <2>1, <2>7, <2>8, <2>9 DEF LeaveRoom, done, ul
<1>5. QED
  BY <1>3, <1>4

\* Bets: what a better pays is debited as well.
LEMMA BetsGeneral ==
  ASSUME TypeOK, General, NEW bettors \in SUBSET Users, NEW amount \in Nat,
         BetsApplied(bettors, amount), sent' = sent
  PROVE  General'
<1> DEFINE us == [u \in Users |-> IF u \in bettors THEN BetPlaced(user[u], amount)
                                                   ELSE user[u]]
<1>1. /\ chip' = Debited(bettors, amount) /\ userList' = userList /\ connected' = connected
      /\ Seated(userList) \subseteq Users
  BY SeatedType DEF BetsApplied, TypeOK, SeatingType
<1>2. us \in [Users -> UserRecord]
  BY BetPlacedType DEF TypeOK
<1>3. ASSUME NEW u \in Users
      PROVE  /\ us[u].hand = user[u].hand /\ us[u].curHand = user[u].curHand
             /\ us[u].isSplit = user[u].isSplit
             /\ u \in bettors => /\ us[u].gameState = "BET_DONE"
                                 /\ us[u].money = user[u].money - amount
                                 /\ chip'[u] = chip[u] - amount
             /\ u \notin bettors => us[u] = user[u] /\ chip'[u] = chip[u]
  <2>1. user[u] \in UserRecord
    BY DEF TypeOK
  <2>2. us[u] = IF u \in bettors THEN BetPlaced(user[u], amount) ELSE user[u]
    OBVIOUS
  <2>3. chip'[u] = IF u \in bettors THEN chip[u] - amount ELSE chip[u]
    BY <1>1 DEF Debited
  <2> HIDE DEF us
  <2>4. QED
    BY <2>1, <2>2, <2>3 DEF BetPlaced, UserRecord
<1> HIDE DEF us
<1>4. RecordsFit(us)
  BY <1>3 DEF General, RecordsFit, RecordOK
<1>5. ASSUME NEW u \in Seated(userList), sent[u] # "none" \/ InRound(us[u])
      PROVE  NoBlankPair(us[u])
  <2>1. sent[u] # "none" \/ InRound(user[u])
    BY <1>1, <1>3, <1>5 DEF InRound
  <2>2. QED
    BY <1>1, <1>3, <2>1 DEF General, BlanksTold, NoBlankPair
<1>6. PlayersHaveDeck(userList, us, dealt)
  BY <1>1, <1>3 DEF General, PlayersHaveDeck, ToPlay
<1>7. ASSUME NEW u \in Seated(userList) PROVE chip'[u] <= us[u].money
  <2>1. u \in Users /\ chip[u] \in Int /\ user[u].money \in Int /\ chip[u] <= user[u].money
    BY <1>1 DEF General, NotAhead, TypeOK, UserRecord
  <2>2. QED
    BY <1>3, <2>1
<1>8. CASE user' = us /\ dealt' = dealt
  BY <1>1, <1>4, <1>5, <1>6, <1>7, <1>8
     DEF General, BlanksTold, NotAhead, SendersConnected
<1>9. ASSUME GameStarted,
             \E lucky : user' = [u \in Users |-> IF u \in Seated(userList)
                                                 THEN Dealt(us[u], u \in lucky) ELSE us[u]]
      PROVE  General'
  <2>1. PICK lucky : user' = [u \in Users |-> IF u \in Seated(userList)
                                              THEN Dealt(us[u], u \in lucky) ELSE us[u]]
    BY <1>9
  <2>2. ASSUME NEW u \in Users
        PROVE  RecordOK(user'[u]) /\ user'[u].money = us[u].money
    <3>1. us[u] \in UserRecord /\ RecordOK(us[u]) /\ (u \in lucky) \in BOOLEAN
      BY <1>2, <1>4 DEF RecordsFit
    <3>2. RecordOK(Dealt(us[u], u \in lucky)) /\ Dealt(us[u], u \in lucky).money = us[u].money
      BY <3>1, DealtRecord
    <3>3. user'[u] = Dealt(us[u], u \in lucky) \/ user'[u] = us[u]
      BY <2>1
    <3>4. QED
      BY <3>1, <3>2, <3>3
  <2>3. ASSUME NEW u \in Seated(userList) PROVE NoBlankPair(user'[u])
    <3>1. u \in Users
      BY <1>1
    <3>2. us[u] \in UserRecord /\ RecordOK(us[u]) /\ (u \in lucky) \in BOOLEAN
      BY <1>2, <1>4, <3>1 DEF RecordsFit
    <3>3. NoBlankPair(Dealt(us[u], u \in lucky))
      BY <3>2, DealtRecord
    <3>4. user'[u] = Dealt(us[u], u \in lucky)
      BY <2>1, <3>1
    <3>5. QED
      BY <3>3, <3>4
  <2>4. dealt' = TRUE
    BY <1>9 DEF GameStarted
  <2>5. QED
    BY <1>1, <1>7, <2>2, <2>3, <2>4
       DEF General, RecordsFit, BlanksTold, PlayersHaveDeck, NotAhead, SendersConnected
<1>10. BetsApplied(bettors, amount) =>
         NotifyStartGame(us) \/ (user' = us /\ dealt' = dealt)
  BY DEF BetsApplied, us
<1>11. NotifyStartGame(us) =>
         \/ /\ GameStarted
            /\ \E lucky : user' = [u \in Users |-> IF u \in Seated(userList)
                                                   THEN Dealt(us[u], u \in lucky) ELSE us[u]]
         \/ user' = us /\ dealt' = dealt
  BY DEF NotifyStartGame
<1>12. QED
  BY <1>8, <1>9, <1>10, <1>11

\* A choice that succeeded: what it cost is cost in the database too.
LEMMA ChoiceAppliedGeneral ==
  ASSUME TypeOK, General, NEW u \in Seated(userList), NEW p \in UserRecord,
         RecordOK(p), NoBlankPair(p), p.gameState \in ToPlay => dealt,
         NEW db \in [Users -> Int], db[u] <= p.money,
         \A w \in Users : w # u => db[w] = chip[w],
         NEW sk, NEW choice, ChoiceApplied(u, choice, p, db, sk),
         sent' = [sent EXCEPT ![u] = "none"]
  PROVE  General'
<1> DEFINE q  == AfterChoiceNtf(p)
           us == [user EXCEPT ![u] = q]
<1>1. /\ SeatingType(userList) /\ Seated(userList) \subseteq Users
      /\ userList' = userList /\ connected' = connected
  BY SeatedType DEF ChoiceApplied, TypeOK, SeatingType
<1>2. q \in UserRecord /\ us \in [Users -> UserRecord] /\ us[u] = q
      /\ \A w \in Users : w # u => us[w] = user[w]
  BY <1>1, SwitchType DEF TypeOK
<1>3. /\ RecordOK(q) /\ NoBlankPair(q) /\ q.money = p.money
      /\ q.gameState \in ToPlay => p.gameState \in ToPlay
  <2>1. RecordOK(q) /\ NoBlankPair(q)
    BY SwitchKeeps
  <2>2. q.money = p.money /\ (q.gameState = p.gameState \/ q.gameState = "ACTION_DONE")
    BY NotifiedRecord
  <2>3. QED
    BY <2>1, <2>2 DEF ToPlay
<1>4. SendersConnected'
  BY <1>1 DEF General, SendersConnected, TypeOK
<1>5. \A w \in Users : sent'[w] # "none" => sent[w] # "none"
  BY DEF TypeOK
<1> HIDE DEF q, us
<1>6. RecordsFit(us)
  BY <1>2, <1>3 DEF General, RecordsFit
<1>7. BlanksTold(userList, us, sent')
  BY <1>1, <1>2, <1>3, <1>5 DEF General, BlanksTold
<1>8. PlayersHaveDeck(userList, us, dealt)
  BY <1>1, <1>2, <1>3 DEF General, PlayersHaveDeck
<1>9. NotAhead(userList, us, db)
  BY <1>1, <1>2, <1>3 DEF General, NotAhead
<1>10. CASE NotifyChangeTurn(userList, us, db)
  <2>1. /\ RecordsFit(user') /\ BlanksTold(userList, user', sent')
        /\ PlayersHaveDeck(userList, user', dealt') /\ NotAhead(userList, user', chip')
    BY <1>1, <1>2, <1>6, <1>7, <1>8, <1>9, <1>10, TurnGeneral
  <2>2. QED
    BY <1>1, <1>4, <2>1 DEF General
<1>11. CASE /\ PlayableSeats(userList, us) # {} /\ user' = TurnGiven(userList, us)
            /\ chip' = db /\ UNCHANGED <<roomState, dealt, fault>>
  <2>1. /\ RecordsFit(user') /\ BlanksTold(userList, user', sent')
        /\ PlayersHaveDeck(userList, user', dealt') /\ NotAhead(userList, user', chip')
    BY <1>1, <1>2, <1>6, <1>7, <1>8, <1>9, <1>11, TurnGivenGeneral
  <2>2. QED
    BY <1>1, <1>4, <2>1 DEF General
<1>12. QED
  BY <1>10, <1>11 DEF ChoiceApplied, us, q

\* A choice that was refused passes the turn on once more.
LEMMA RefusedGeneral ==
  ASSUME TypeOK, General, ChoiceRefused, NEW u \in Users,
         sent' = [sent EXCEPT ![u] = "none"]
  PROVE  General'
<1>1. /\ SeatingType(userList) /\ Seated(userList) \subseteq Users
      /\ userList' = userList /\ connected' = connected
  BY SeatedType DEF ChoiceRefused, TypeOK, SeatingType
<1>2. SendersConnected' /\ \A w \in Users : sent'[w] # "none" => sent[w] # "none"
  BY <1>1 DEF General, SendersConnected, TypeOK
<1>3. BlanksTold(userList, user, sent')
  BY <1>1, <1>2 DEF General, BlanksTold
<1>4. /\ RecordsFit(user') /\ BlanksTold(userList, user', sent')
      /\ PlayersHaveDeck(userList, user', dealt') /\ NotAhead(userList, user', chip')
  BY <1>1, <1>3, TurnGeneral DEF ChoiceRefused, General, TypeOK
<1>5. QED
  BY <1>1, <1>2, <1>4 DEF General

\* Undefined behaviour before the handler has changed anything
LEMMA CrashGeneral ==
  ASSUME TypeOK, General, NEW reason, Crash(reason), NEW u \in Users,
         sent' \in {sent, [sent EXCEPT ![u] = "none"]}
  PROVE  General'
<1>1. UNCHANGED <<userList, user, dealt, chip, connected>>
  BY DEF Crash
<1>2. \A w \in Users : sent'[w] # "none" => sent[w] # "none"
  BY DEF TypeOK
<1>3. Seated(userList) \subseteq Users
  BY SeatedType DEF TypeOK, SeatingType
<1>4. SendersConnected' /\ BlanksTold(userList', user', sent')
  BY <1>1, <1>2, <1>3 DEF General, SendersConnected, BlanksTold
<1>5. QED
  BY <1>1, <1>4 DEF General

\* A card drawn: the hand it goes to has a free slot, or the handler crashes.
LEMMA CardDrawnGeneral ==
  ASSUME TypeOK, General, NEW u \in Seated(userList), NEW p \in UserRecord,
         RecordOK(p), NoBlankPair(p), p.gameState \in ToPlay => dealt,
         NEW db \in [Users -> Int], db[u] <= p.money,
         \A w \in Users : w # u => db[w] = chip[w],
         NEW states \in SUBSET HandStates, NEW sk, NEW choice,
         CardDrawn(u, choice, p, states, db, sk),
         sent' = [sent EXCEPT ![u] = "none"]
  PROVE  General'
<1> DEFINE cur == p.curHand
<1>1. u \in Users
  BY SeatedType DEF TypeOK, SeatingType
<1>2. CASE Crash("empty_deck") \/ Crash("hand_overflow")
  BY <1>1, <1>2, CrashGeneral
<1>3. ASSUME p.hand[cur].num < HandSlots, NEW s \in states,
             ChoiceApplied(u, choice,
                           [p EXCEPT !.hand[cur] = [WithCard(@) EXCEPT !.state = s]],
                           db, sk)
      PROVE  General'
  <2> DEFINE q == [p EXCEPT !.hand[cur] = [WithCard(@) EXCEPT !.state = s]]
  <2>1. cur \in Hands /\ p.hand[cur] \in Hand /\ s \in HandStates
    BY DEF UserRecord
  <2>2. [WithCard(p.hand[cur]) EXCEPT !.state = s] \in Hand
    BY <1>3, <2>1, WithCardType DEF Hand
  <2>3. q \in UserRecord
    BY <2>1, <2>2, HandReplacedType
  <2>4. RecordOK(q) /\ NoBlankPair(q) /\ q.money = p.money /\ q.gameState = p.gameState
    BY <2>1, CardRecord
  <2>5. ChoiceApplied(u, choice, q, db, sk)
    BY <1>3
  <2> HIDE DEF q
  <2>6. QED
    BY <2>3, <2>4, <2>5, ChoiceAppliedGeneral
<1>4. QED
  BY <1>2, <1>3 DEF CardDrawn

\* Whoever's choice is handled has been told of its cards, however late it is.
LEMMA ChooserTold ==
  ASSUME TypeOK, General, NEW u \in Users, NEW choice \in Choices, ChoiceArrives(u, choice)
  PROVE  /\ u \in Seated(userList) /\ NoBlankPair(user[u]) /\ RecordOK(user[u])
         /\ user[u].gameState \in ToPlay => dealt
         /\ chip[u] <= user[u].money
         /\ sent' = [sent EXCEPT ![u] = "none"]
<1>1. u \in Seated(userList) /\ sent' = [sent EXCEPT ![u] = "none"]
  BY DEF ChoiceArrives
<1>2. sent[u] # "none" \/ InRound(user[u])
  BY DEF ChoiceArrives, Offered, InRound, Choices
<1>3. QED
  BY <1>1, <1>2 DEF General, BlanksTold, RecordsFit, PlayersHaveDeck, NotAhead

\* The choices keep General, whenever they arrive.
LEMMA ChoiceGeneral ==
  ASSUME TypeOK, General, NEW u \in Users, Stand(u) \/ Hit(u) \/ DoubleDown(u) \/ Split(u)
  PROVE  General'
<1> DEFINE p == user[u]
           debited == Debited({u}, p.bet)
<1>1. /\ p \in UserRecord /\ CurrentHand(p) \in Hand /\ p.bet \in Nat /\ p.money \in Int
      /\ chip \in [Users -> Int] /\ chip[u] \in Int
  BY DEF TypeOK, UserRecord, CurrentHand
<1>2. \E choice \in Choices : ChoiceArrives(u, choice)
  BY DEF Stand, Hit, DoubleDown, Split, Choices
<1>3. /\ u \in Seated(userList) /\ NoBlankPair(p) /\ RecordOK(p)
      /\ p.gameState \in ToPlay => dealt
      /\ chip[u] <= p.money
      /\ sent' = [sent EXCEPT ![u] = "none"]
  BY <1>2, ChooserTold
<1>4. /\ debited \in [Users -> Int] /\ debited[u] = chip[u] - p.bet
      /\ \A w \in Users : w # u => debited[w] = chip[w]
      /\ debited[u] <= p.money - p.bet /\ debited[u] <= p.money
  <2>1. /\ debited \in [Users -> Int] /\ debited[u] = chip[u] - p.bet
        /\ \A w \in Users : w # u => debited[w] = chip[w]
    BY <1>1 DEF Debited
  <2>2. chip[u] <= p.money /\ chip[u] \in Int /\ p.money \in Int /\ p.bet \in Nat
    BY <1>1, <1>3
  <2>3. debited[u] <= p.money - p.bet /\ debited[u] <= p.money
    <3> HIDE DEF p, debited
    <3> QED
      BY <2>1, <2>2
  <2>4. QED
    BY <2>1, <2>3
<1> HIDE DEF debited
<1>5. CASE ChoiceRefused
  BY <1>3, <1>5, RefusedGeneral
<1>6. CASE Stand(u)
  <2> DEFINE r == [p EXCEPT !.hand[p.curHand].state = "STAND"]
             q == SwitchHandIfSplitExist(r)
  <2>1. r \in UserRecord /\ q \in UserRecord
    BY <1>1, StoodType, SwitchType
  <2>2. RecordOK(r) /\ NoBlankPair(r) /\ r.money = p.money /\ r.gameState = p.gameState
    BY <1>1, <1>3, StoodRecord
  <2> HIDE DEF r
  <2>3. RecordOK(q) /\ NoBlankPair(q)
    BY <2>1, <2>2, SwitchKeeps
  <2>4. q.money = p.money /\ (q.gameState \in ToPlay => dealt)
    BY <1>3, <2>1, <2>2, SwitchRecord DEF ToPlay
  <2>5. ChoiceApplied(u, "STAND", q, chip, stake)
    BY <1>6 DEF Stand, r
  <2> HIDE DEF q
  <2>6. QED
    BY <1>1, <1>3, <2>1, <2>3, <2>4, <2>5, ChoiceAppliedGeneral
<1>7. CASE Hit(u)
  <2>1. AfterHit(CurrentHand(p)) \in SUBSET HandStates
    BY <1>1 DEF AfterHit, Hand, HandStates
  <2>2. CardDrawn(u, "HIT", p, AfterHit(CurrentHand(p)), chip, stake)
    BY <1>7 DEF Hit
  <2>3. QED
    BY <1>1, <1>3, <2>1, <2>2, CardDrawnGeneral
<1>8. CASE CardDrawn(u, "DOUBLE_DOWN", DoubledDown(p), AfterDoubleDown(CurrentHand(p)),
                     debited, [stake EXCEPT ![u] = @ + p.bet])
  <2> DEFINE q == DoubledDown(p)
  <2>1. AfterDoubleDown(CurrentHand(p)) \in SUBSET HandStates /\ q \in UserRecord
    BY <1>1, DoubledDownType DEF AfterDoubleDown, HandStates
  <2>2. RecordOK(q) /\ NoBlankPair(q) /\ q.money = p.money - p.bet /\ q.gameState = p.gameState
    BY <1>1, <1>3, DoubledRecord
  <2>3. CardDrawn(u, "DOUBLE_DOWN", q, AfterDoubleDown(CurrentHand(p)),
                  debited, [stake EXCEPT ![u] = @ + p.bet])
    BY <1>8
  <2> HIDE DEF q
  <2>4. QED
    BY <1>3, <1>4, <2>1, <2>2, <2>3, CardDrawnGeneral
<1>9. CASE /\ ~ p.isSplit /\ CanSplit(p)
           /\ ChoiceApplied(u, "SPLIT", SplitUser(p), debited, [stake EXCEPT ![u] = @ + p.bet])
  <2> DEFINE q == SplitUser(p)
  <2>1. q \in UserRecord
    BY <1>1, SplitType
  <2>2. RecordOK(q) /\ NoBlankPair(q) /\ q.money = p.money - p.bet /\ q.gameState = p.gameState
    BY <1>1, <1>3, <1>9, SplitRecord
  <2>3. ChoiceApplied(u, "SPLIT", q, debited, [stake EXCEPT ![u] = @ + p.bet])
    BY <1>9
  <2> HIDE DEF q
  <2>4. QED
    BY <1>3, <1>4, <2>1, <2>2, <2>3, ChoiceAppliedGeneral
<1>10. CASE ChoiceApplied(u, "SPLIT", p, debited, stake)
  BY <1>1, <1>3, <1>4, <1>10, ChoiceAppliedGeneral
<1>11. CASE DoubleDown(u)
  BY <1>5, <1>8, <1>11 DEF DoubleDown, debited
<1>12. CASE Split(u)
  BY <1>5, <1>9, <1>10, <1>12 DEF Split, debited
<1>13. QED
  BY <1>6, <1>7, <1>11, <1>12

\* RunPostTimeAction keeps General.
LEMMA TimerGeneral ==
  ASSUME TypeOK, RoomInv, General, fault = "none", TimerAction
  PROVE  General'
<1>1. /\ SeatingType(userList) /\ Seated(userList) \subseteq Users /\ sent' = sent
      /\ chip \in [Users -> Int] /\ user \in [Users -> UserRecord]
  BY SeatedType DEF TypeOK, SeatingType, TimerAction
<1>2. CASE BettingTimeout
  <2> DEFINE late == {u \in Seated(userList) : user[u].gameState = "BETTING"
                                               /\ user[u].money >= MinBet}
  <2>1. late \in SUBSET Users /\ BetsApplied(late, MinBet)
    BY <1>1, <1>2 DEF BettingTimeout
  <2> HIDE DEF late
  <2>2. QED
    BY <1>1, <2>1, BetAssumption, BetsGeneral
<1>3. ASSUME NEW us \in [Users -> UserRecord], NotifyChangeTurn(userList, us, chip),
             UNCHANGED <<userList, connected>>, RecordsFit(us),
             BlanksTold(userList, us, sent), PlayersHaveDeck(userList, us, dealt),
             NotAhead(userList, us, chip)
      PROVE  General'
  <2>1. /\ RecordsFit(user') /\ BlanksTold(userList, user', sent)
        /\ PlayersHaveDeck(userList, user', dealt') /\ NotAhead(userList, user', chip')
    BY <1>1, <1>3, TurnGeneral
  <2>2. QED
    BY <1>1, <1>3, <2>1 DEF General, SendersConnected
<1>4. CASE HandoutTimeout
  BY <1>1, <1>3, <1>4 DEF HandoutTimeout, General
<1>5. CASE TurnTimeout
  <2> DEFINE u  == userList[First(ActingSeats)]
             r  == ForceNextTurn(user[u])
             q  == AfterChoiceNtf(r)
             us == [user EXCEPT ![u] = q]
  <2>1. ActingSeats # {}
    BY <1>5 DEF RoomInv, SomebodyActs, TurnTimeout
  <2>2. NotifyChangeTurn(userList, us, chip) /\ UNCHANGED <<userList, connected>>
    BY <1>5, <2>1 DEF TurnTimeout
  <2>3. u \in Seated(userList) /\ user[u].gameState = "ACTIONING" /\ u \in Users
    <3>1. First(ActingSeats) \in ActingSeats
      BY <2>1, FirstIsMember DEF ActingSeats
    <3>2. QED
      BY <1>1, <3>1 DEF ActingSeats, Seated
  <2>4. /\ user[u] \in UserRecord /\ RecordOK(user[u]) /\ NoBlankPair(user[u])
        /\ r \in UserRecord
    <3>1. user[u] \in UserRecord /\ RecordOK(user[u]) /\ NoBlankPair(user[u])
      BY <1>1, <2>3 DEF General, RecordsFit, BlanksTold, InRound
    <3>2. QED
      BY <3>1, StoodType
  <2>5. RecordOK(r) /\ NoBlankPair(r) /\ r.money = user[u].money
        /\ r.gameState = "ACTION_DONE"
    BY <2>4, ForcedRecord
  <2> HIDE DEF r
  <2>6. /\ RecordOK(q) /\ NoBlankPair(q) /\ q \in UserRecord
        /\ q.money = user[u].money /\ q.gameState = "ACTION_DONE"
    <3>1. RecordOK(q) /\ NoBlankPair(q) /\ q \in UserRecord
      BY <2>4, <2>5, SwitchKeeps, SwitchType
    <3>2. QED
      BY <2>4, <2>5, <3>1, NotifiedRecord
  <2> HIDE DEF q
  <2>7. us \in [Users -> UserRecord] /\ us[u] = q /\ \A w \in Users : w # u => us[w] = user[w]
    BY <1>1, <2>3, <2>6
  <2> HIDE DEF u, us
  <2>8. RecordsFit(us) /\ BlanksTold(userList, us, sent)
    BY <1>1, <2>3, <2>6, <2>7 DEF General, RecordsFit, BlanksTold
  <2>9. PlayersHaveDeck(userList, us, dealt)
    BY <1>1, <2>3, <2>6, <2>7 DEF General, PlayersHaveDeck, ToPlay
  <2>10. NotAhead(userList, us, chip)
    BY <1>1, <2>3, <2>6, <2>7 DEF General, NotAhead
  <2>11. QED
    BY <1>3, <2>2, <2>7, <2>8, <2>9, <2>10
<1>6. CASE RestartTimeout
  <2>1. /\ SetRoomStateToWaiting(userList, user, userCount)
        /\ UNCHANGED <<chip, connected>>
    BY <1>6 DEF RestartTimeout
  <2>2. /\ RecordsFit(user') /\ BlanksTold(userList', user', sent)
        /\ PlayersHaveDeck(userList', user', dealt') /\ NotAhead(userList', user', chip)
    BY <1>1, <2>1, WaitingGeneral DEF General
  <2>3. QED
    BY <1>1, <2>1, <2>2 DEF General, SendersConnected
<1>7. QED
  BY <1>2, <1>4, <1>5, <1>6 DEF TimerAction

\* A fresh room satisfies General.
LEMMA InitGeneral == Init => General
<1> SUFFICES ASSUME Init PROVE General
  OBVIOUS
<1>1. Seated(userList) = {}
  BY DEF Init, Seated
<1>2. \A u \in Users : user[u] = NewUser /\ sent[u] = "none"
  BY DEF Init
<1>3. RecordOK(NewUser)
  BY DEF RecordOK, NewUser
<1>4. QED
  BY <1>1, <1>2, <1>3 DEF General, RecordsFit, SendersConnected, BlanksTold,
                          PlayersHaveDeck, NotAhead

\* Every step keeps General.
LEMMA NextGeneral == TypeOK /\ RoomInv /\ General /\ [Next]_vars => General'
<1> SUFFICES ASSUME TypeOK, RoomInv, General, [Next]_vars PROVE General'
  OBVIOUS
<1>1. ASSUME NEW u \in Users, UserAction(u) PROVE General'
  <2>1. CASE EnterUser(u)
    BY <2>1, EnterGeneral
  <2>2. CASE CloseSession(u)
    BY <2>2, CloseGeneral
  <2>3. CASE ChoiceAfterKick(u)
    BY <2>3, CrashGeneral DEF ChoiceAfterKick
  <2>4. CASE Stand(u) \/ Hit(u) \/ DoubleDown(u) \/ Split(u)
    BY <2>4, ChoiceGeneral
  <2>5. ASSUME NEW money \in Bets, GameBet(u, money) PROVE General'
    <3> DEFINE amount == IF money < MinBet THEN MinBet ELSE money
    <3>1. amount \in Nat /\ {u} \in SUBSET Users
      BY ChipsAssumption, BetAssumption
    <3>2. BetsApplied({u}, amount) /\ sent' = sent
      BY <2>5 DEF GameBet
    <3>3. QED
      BY <3>1, <3>2, BetsGeneral
  <2>6. ASSUME NEW choice \in Choices, SendChoice(u, choice) PROVE General'
    <3>1. /\ UNCHANGED <<userList, dealt, user, chip, connected>>
          /\ sent' = [sent EXCEPT ![u] = choice]
          /\ InRound(user[u]) /\ u \in Seated(userList)
      <4>1. u = userList[First(PlayableSeats(userList, user))]
            /\ PlayableSeats(userList, user) # {}
        BY <2>6 DEF SendChoice, Offered, NextUser
      <4>2. First(PlayableSeats(userList, user)) \in PlayableSeats(userList, user)
        BY <4>1, FirstIsMember DEF PlayableSeats
      <4>3. u \in Seated(userList)
        BY <4>1, <4>2 DEF PlayableSeats, Seated
      <4>4. QED
        BY <2>6, <4>3 DEF SendChoice, Offered, InRound
    <3>2. u \in connected
      BY <3>1 DEF RoomInv, SeatsCounted
    <3>3. SendersConnected'
      BY <3>1, <3>2 DEF General, SendersConnected, TypeOK
    <3>4. ASSUME NEW w \in Seated(userList), sent'[w] # "none" \/ InRound(user[w])
          PROVE  NoBlankPair(user[w])
      <4>1. w \in Users
        BY SeatedType DEF TypeOK, SeatingType
      <4>2. sent[w] # "none" \/ InRound(user[w])
        BY <3>1, <3>4, <4>1 DEF TypeOK
      <4>3. QED
        BY <4>2 DEF General, BlanksTold
    <3>5. QED
      BY <3>1, <3>3, <3>4 DEF General, BlanksTold
  <2>7. QED
    BY <1>1, <2>1, <2>2, <2>3, <2>4, <2>5, <2>6 DEF UserAction
<1>2. CASE fault = "none" /\ TimerAction
  BY <1>2, TimerGeneral
<1>3. CASE UNCHANGED vars
  BY <1>3 DEF vars, General, SendersConnected
<1>4. QED
  BY <1>1, <1>2, <1>3 DEF Next, Running, Halted

\* The invariant behind DatabaseNeverAhead and SplitAssertionsHold
LEMMA GeneralInvariant == Spec => [](TypeOK /\ RoomInv /\ General)
<1>1. Init => TypeOK /\ RoomInv /\ General
  BY InitType, InitInv, InitGeneral
<1>2. TypeOK /\ RoomInv /\ General /\ [Next]_vars => (TypeOK /\ RoomInv /\ General)'
  BY NextType, NextInv, NextGeneral
<1>3. QED
  BY <1>1, <1>2, PTL DEF Spec

-----------------------------------------------------------------------------
\* Once its jobs have run the database never holds more for a seated user than
\* the room does, however late choices arrive: nobody gains by leaving.
THEOREM DatabaseNeverAhead == Spec => []DatabaseNotAhead
<1>1. TypeOK /\ RoomInv /\ General => DatabaseNotAhead
  BY DEF General, NotAhead, DatabaseNotAhead
<1>2. QED
  BY <1>1, GeneralInvariant, PTL

\* The two assertions of User::Split hold whenever a split arrives that is not
\* refused: the user is on its first hand, and that hand has cards.
THEOREM SplitAssertionsHold == Spec => []SplitAssertions
<1>1. ASSUME TypeOK, General, NEW u \in Seated(userList), sent[u] = "SPLIT",
             ~ user[u].isSplit, CanSplit(user[u])
      PROVE  user[u].curHand = 0 /\ user[u].hand[0].first
  <2>1. u \in Users /\ user[u] \in UserRecord
    BY <1>1, SeatedType DEF TypeOK, SeatingType
  <2>2. RecordOK(user[u]) /\ NoBlankPair(user[u])
    BY <1>1, <2>1 DEF General, RecordsFit, BlanksTold
  <2>3. QED
    BY <1>1, <2>1, <2>2, SplitFindsCards
<1>2. TypeOK /\ RoomInv /\ General => SplitAssertions
  BY <1>1 DEF SplitAssertions
<1>3. QED
  BY <1>2, GeneralInvariant, PTL

-----------------------------------------------------------------------------
(***************************************************************************)
(* A room whose choices are handled on their senders' turns: no card is    *)
(* drawn from an empty deck, memory and database drift apart in one way    *)
(* only, and no game pays more than three times what was paid for it.      *)
(***************************************************************************)

Untouched(h) == h.state = "CURRENT" /\ ~ h.first /\ ~ h.doubledown

\* How many bets the settlement may owe a player for: one for each hand that
\* counts or will count, two if it is doubled down.
Stakes(h) == IF h.doubledown THEN 2 ELSE 1
Weight(p) ==
  (IF p.curHand = 0 \/ p.hand[0].state # "CURRENT" THEN Stakes(p.hand[0]) ELSE 0)
    + (IF p.curHand = 1 \/ p.hand[1].first THEN Stakes(p.hand[1]) ELSE 0)

\* A player p who has paid s
PlayerOK(p, s) ==
  /\ p.gameState # "NONE" /\ 0 <= s
  /\ ~ InRound(p) => Untouched(p.hand[0]) /\ Untouched(p.hand[1])
  /\ p.gameState \notin {"WAITING", "BETTING"} => p.bet * Weight(p) <= s
  /\ p.gameState = "ACTION_WAITING" =>
       Untouched(p.hand[1]) /\ (p.hand[0].first => p.hand[0].num = 2)
  /\ p.gameState \in ToPlay /\ p.curHand = 0 =>
       p.hand[1].state = "CURRENT" /\ ~ p.hand[1].doubledown

\* A player whose turn may be announced: unless it has a second hand, it has no
\* third card.
ActorReady(p) ==
  CurrentHand(p).first /\ ~ p.hand[1].first => CurrentHand(p).num <= 2

\* What the buttons btn of the player on turn tell of its cards and its money
ActorOK(p, btn) ==
  p.gameState = "ACTIONING" =>
    /\ "DOUBLE_DOWN" \in btn => ActorReady(p)
    /\ "SPLIT" \in btn /\ CurrentHand(p).first => CanSplit(p)

TurnsOK(ul, us, sk, rs, d) ==
  /\ \A u \in Seated(ul) : PlayerOK(us[u], sk[u])
  /\ \A u \in Seated(ul) : InRound(us[u]) => d
  /\ \A u, w \in Seated(ul) :
       us[u].gameState = "ACTIONING" /\ us[w].gameState = "ACTIONING" => u = w
  /\ rs = "HANDOUT" => \A u \in Seated(ul) : us[u].gameState # "ACTIONING"

ActorsOK(ul, us, btn) == \A u \in Seated(ul) : ActorOK(us[u], btn)

Timely == /\ TurnsOK(userList, user, stake, roomState, dealt)
          /\ fault = "none" => ActorsOK(userList, user, buttons)

\* What a step pays, and by how much it lets memory and database drift apart
PayStep ==
  roomState' = "CALCULATE" /\ roomState # "CALCULATE" =>
    \A u \in Seated(userList') : Earned(u) <= 3 * stake'[u]
DriftStep ==
  \A u \in Seated(userList) \cap Seated(userList') :
    \/ user'[u].money - chip'[u] = user[u].money - chip[u]
    \/ OnBlanks(user[u])

StepOK == Timely' /\ PayStep /\ DriftStep

-----------------------------------------------------------------------------
(* What is paid                                                            *)

\* The weight of a player is at most four.
LEMMA WeightType ==
  ASSUME NEW p \in UserRecord
  PROVE  Weight(p) \in 0 .. 4
BY DEF Weight, Stakes

\* A larger factor of the same bet
LEMMA Multiples ==
  ASSUME NEW bet \in Nat, NEW x \in Nat, NEW y \in Nat, x <= y
  PROVE  bet * x <= bet * y
<1>1. PICK k \in Nat : y = x + k
  BY y - x \in Nat
<1>2. bet * y = bet * x + bet * k
  BY <1>1
<1>3. bet * k \in Nat /\ bet * x \in Nat
  OBVIOUS
<1>4. QED
  BY <1>2, <1>3

\* A hand earns at most three times what was staked on it, and nothing while it
\* is still to be played.
LEMMA FactorsBounded ==
  ASSUME NEW d \in DealerStates, NEW h \in Hand, NEW a \in Factors(d, h)
  PROVE  a \in 0 .. (3 * Stakes(h)) /\ (h.state = "CURRENT" => a = 0)
BY DEF Factors, Stakes, DealerStates, Hand, HandStates

\* What EndOfGame pays a player is covered by what the player has paid.
LEMMA EarnCovered ==
  ASSUME NEW p \in UserRecord, NEW s \in Int, PlayerOK(p, s), NEW d \in DealerStates,
         NEW e \in EarnMoney(d, p)
  PROVE  e \in Nat /\ e <= 3 * s
<1>1. /\ p.bet \in Nat /\ p.hand[0] \in Hand /\ p.hand[1] \in Hand /\ p.curHand \in {0, 1}
      /\ 0 <= s
  BY DEF UserRecord, Hands, PlayerOK
<1>2. PICK a \in Factors(d, p.hand[0]) :
        \E b \in IF p.curHand = 1 THEN Factors(d, p.hand[1]) ELSE {0} : e = p.bet * (a + b)
  BY DEF EarnMoney
<1>3. PICK b \in IF p.curHand = 1 THEN Factors(d, p.hand[1]) ELSE {0} : e = p.bet * (a + b)
  BY <1>2
<1>4. /\ a \in 0 .. (3 * Stakes(p.hand[0])) /\ (p.hand[0].state = "CURRENT" => a = 0)
      /\ p.curHand = 1 => /\ b \in 0 .. (3 * Stakes(p.hand[1]))
                          /\ p.hand[1].state = "CURRENT" => b = 0
      /\ p.curHand # 1 => b = 0
  BY <1>1, <1>2, <1>3, FactorsBounded
<1>5. Stakes(p.hand[0]) \in {1, 2} /\ Stakes(p.hand[1]) \in {1, 2}
  BY DEF Stakes
<1>6. a \in Nat /\ b \in Nat
  BY <1>1, <1>4, <1>5
<1>7. CASE p.gameState \in {"WAITING", "BETTING"}
  <2>1. p.hand[0].state = "CURRENT" /\ p.hand[1].state = "CURRENT"
    BY <1>7 DEF PlayerOK, InRound, Untouched
  <2>2. a = 0 /\ b = 0
    BY <1>1, <1>4, <2>1
  <2>3. e = 0
    BY <1>1, <1>3, <2>2
  <2>4. QED
    BY <1>1, <2>3
<1>8. CASE p.gameState \notin {"WAITING", "BETTING"}
  <2>1. p.bet * Weight(p) <= s /\ Weight(p) \in 0 .. 4
    BY <1>8, WeightType DEF PlayerOK
  <2>2. a + b <= 3 * Weight(p)
    BY <1>1, <1>4, <1>5 DEF Weight
  <2>3. e <= p.bet * (3 * Weight(p)) /\ e \in Nat
    <3>1. a + b \in Nat /\ 3 * Weight(p) \in Nat
      BY <1>6, <2>1
    <3>2. p.bet * (a + b) <= p.bet * (3 * Weight(p)) /\ p.bet * (a + b) \in Nat
      BY <1>1, <2>2, <3>1, Multiples
    <3>3. QED
      BY <1>3, <3>2
  <2>4. p.bet * (3 * Weight(p)) = 3 * (p.bet * Weight(p)) /\ p.bet * Weight(p) \in Nat
    BY <1>1, <2>1
  <2>5. QED
    BY <2>1, <2>3, <2>4
<1>9. QED
  BY <1>7, <1>8

-----------------------------------------------------------------------------
(* What a player has paid covers what it plays for.                        *)

\* Playing on the current hand, without doubling, changes no weight.
LEMMA PlayedPlayer ==
  ASSUME NEW p \in UserRecord, NEW s \in Int, PlayerOK(p, s), p.gameState = "ACTIONING",
         NEW q \in UserRecord, q.gameState \in {"ACTIONING", "ACTION_DONE"},
         q.bet = p.bet, q.curHand = p.curHand,
         q.hand[p.curHand].doubledown = p.hand[p.curHand].doubledown,
         \A i \in Hands : i # p.curHand => q.hand[i] = p.hand[i]
  PROVE  PlayerOK(q, s)
<1>1. p.curHand \in {0, 1} /\ 0 \in Hands /\ 1 \in Hands
  BY DEF UserRecord, Hands
<1>2. Weight(q) = Weight(p)
  BY <1>1 DEF Weight, Stakes
<1>3. q.bet * Weight(q) <= s
  BY <1>2 DEF PlayerOK
<1>4. q.gameState \in ToPlay /\ q.curHand = 0 => q.hand[1].state = "CURRENT" /\ ~ q.hand[1].doubledown
  BY <1>1 DEF PlayerOK, ToPlay
<1>5. QED
  BY <1>3, <1>4 DEF PlayerOK, InRound

\* Going to the second hand, or to the end of the turn, changes no weight: the
\* first hand is over.
LEMMA SwitchedPlayer ==
  ASSUME NEW p \in UserRecord, NEW s \in Int, PlayerOK(p, s),
         p.gameState \in {"ACTIONING", "ACTION_DONE"}, CurrentHand(p).state # "CURRENT"
  PROVE  /\ PlayerOK(SwitchHandIfSplitExist(p), s)
         /\ SwitchHandIfSplitExist(p).gameState \in {"ACTIONING", "ACTION_DONE"}
<1> DEFINE q == SwitchHandIfSplitExist(p)
<1>1. p.curHand \in {0, 1}
  BY DEF UserRecord, Hands
<1>2. /\ q.hand = p.hand /\ q.bet = p.bet
      /\ \/ /\ q.curHand = 1 /\ q.gameState = p.gameState
            /\ p.curHand = 0 /\ p.hand[1].first
         \/ q.curHand = p.curHand /\ q.gameState = "ACTION_DONE"
  BY SwitchRecord
<1> HIDE DEF q
<1>3. Weight(q) = Weight(p)
  BY <1>1, <1>2 DEF Weight, Stakes, CurrentHand
<1>4. q.bet * Weight(q) <= s
  BY <1>2, <1>3 DEF PlayerOK
<1>5. q.gameState \in {"ACTIONING", "ACTION_DONE"}
  BY <1>2
<1>6. q.gameState \in ToPlay => q.curHand = 1 \/ (q.curHand = p.curHand /\ q.gameState = p.gameState)
  BY <1>2 DEF ToPlay
<1>7. PlayerOK(q, s)
  BY <1>2, <1>4, <1>5, <1>6 DEF PlayerOK, InRound, ToPlay
<1>8. QED
  BY <1>5, <1>7 DEF q

\* NotifyGameChoice neither changes what is paid for; a player it leaves on turn
\* has a hand to play.
LEMMA NotifiedPlayer ==
  ASSUME NEW p \in UserRecord, NEW s \in Int, PlayerOK(p, s),
         p.gameState \in {"ACTIONING", "ACTION_DONE"}
  PROVE  LET q == AfterChoiceNtf(p)
         IN  /\ PlayerOK(q, s) /\ q.gameState \in {"ACTIONING", "ACTION_DONE"}
             /\ q.gameState = "ACTIONING" => Playable(q)
<1> DEFINE q == AfterChoiceNtf(p)
<1>1. PlayerOK(q, s) /\ q.gameState \in {"ACTIONING", "ACTION_DONE"}
  BY SwitchedPlayer DEF AfterChoiceNtf
<1>2. ASSUME q.gameState = "ACTIONING" PROVE Playable(q)
  <2>1. CASE q = p /\ CurrentHand(p).state = "CURRENT"
    BY <1>2, <2>1 DEF Playable
  <2>2. CASE /\ q.curHand = 1 /\ q.gameState = p.gameState
             /\ p.curHand = 0 /\ q.hand = p.hand
    <3>1. p.hand[1].state = "CURRENT"
      BY <1>2, <2>2 DEF PlayerOK, ToPlay
    <3>2. QED
      BY <1>2, <2>2, <3>1 DEF Playable, CurrentHand
  <2>3. QED
    BY <1>2, <2>1, <2>2, NotifiedRecord
<1>3. QED
  BY <1>1, <1>2

\* One weight more costs the bet once more.
LEMMA OneMore ==
  ASSUME NEW p \in UserRecord, NEW s \in Int, p.bet * Weight(p) <= s,
         NEW q \in UserRecord, q.bet = p.bet, Weight(q) <= Weight(p) + 1
  PROVE  q.bet * Weight(q) <= s + p.bet
<1>1. Weight(p) \in Nat /\ Weight(q) \in Nat /\ p.bet \in Nat /\ Weight(p) + 1 \in Nat
  BY WeightType, SMTT(30) DEF UserRecord
<1>2. p.bet * Weight(q) <= p.bet * (Weight(p) + 1)
  BY <1>1, Multiples
<1>3. p.bet * (Weight(p) + 1) = p.bet * Weight(p) + p.bet
  BY <1>1
<1>4. p.bet * Weight(p) \in Nat /\ p.bet * Weight(q) \in Nat
  BY <1>1
<1>5. p.bet * Weight(q) <= s + p.bet
  BY <1>1, <1>2, <1>3, <1>4
<1>6. QED
  BY <1>5

\* Doubling down costs the bet once more and adds at most one to the weight.
LEMMA DoubledPlayer ==
  ASSUME NEW p \in UserRecord, NEW s \in Int, PlayerOK(p, s), p.gameState = "ACTIONING"
  PROVE  /\ PlayerOK(DoubledDown(p), s + p.bet)
         /\ DoubledDown(p).gameState = "ACTIONING" /\ DoubledDown(p).curHand = p.curHand
         /\ DoubledDown(p).money = p.money - p.bet
<1> DEFINE q == DoubledDown(p)
           c == p.curHand
<1>1. c \in {0, 1} /\ c \in Hands /\ 0 \in Hands /\ 1 \in Hands /\ p.bet \in Nat
  BY DEF UserRecord, Hands
<1>2. /\ q.money = p.money - p.bet /\ q.gameState = "ACTIONING"
      /\ q.curHand = c /\ q.bet = p.bet /\ q \in UserRecord
      /\ q.hand[c].state = p.hand[c].state /\ q.hand[c].first = p.hand[c].first
      /\ q.hand[c].doubledown = TRUE
      /\ \A i \in Hands : i # c => q.hand[i] = p.hand[i]
  <2>1. q \in UserRecord
    BY DoubledDownType
  <2>2. QED
    BY <2>1 DEF DoubledDown, UserRecord, Hand
<1> HIDE DEF q
<1>3. Weight(q) <= Weight(p) + 1
  <2>1. CASE c = 0
    <3>1. q.hand[1] = p.hand[1] /\ q.curHand = 0 /\ p.curHand = 0
      BY <1>1, <1>2, <2>1
    <3>2. Stakes(q.hand[0]) <= Stakes(p.hand[0]) + 1 /\ Stakes(p.hand[1]) \in Int
          /\ Stakes(q.hand[0]) \in Int /\ Stakes(p.hand[0]) \in Int
      BY DEF Stakes
    <3>3. QED
      BY <3>1, <3>2 DEF Weight
  <2>2. CASE c = 1
    <3>1. q.hand[0] = p.hand[0] /\ q.curHand = 1 /\ p.curHand = 1
      BY <1>1, <1>2, <2>2
    <3>2. Stakes(q.hand[1]) <= Stakes(p.hand[1]) + 1 /\ Stakes(p.hand[0]) \in Int
          /\ Stakes(q.hand[1]) \in Int /\ Stakes(p.hand[1]) \in Int
      BY DEF Stakes
    <3>3. QED
      BY <3>1, <3>2 DEF Weight
  <2>3. QED
    BY <1>1, <2>1, <2>2
<1>4. p.bet * Weight(p) <= s /\ 0 <= s
  BY DEF PlayerOK
<1>5. q.bet * Weight(q) <= s + p.bet /\ 0 <= s + p.bet
  BY <1>1, <1>2, <1>3, <1>4, OneMore
<1>6. q.curHand = 0 => q.hand[1].state = "CURRENT" /\ ~ q.hand[1].doubledown
  <2>1. ASSUME c = 0 PROVE q.hand[1] = p.hand[1]
    BY <1>1, <1>2, <2>1
  <2>2. QED
    BY <1>2, <2>1 DEF PlayerOK, ToPlay
<1>7. PlayerOK(q, s + p.bet)
  BY <1>2, <1>5, <1>6 DEF PlayerOK, InRound
<1>8. QED
  BY <1>2, <1>7 DEF q

\* So does a split, which opens a hand that is not doubled down.
LEMMA SplitPlayer ==
  ASSUME NEW p \in UserRecord, NEW s \in Int, PlayerOK(p, s), p.gameState = "ACTIONING",
         p.curHand = 0
  PROVE  /\ PlayerOK(SplitUser(p), s + p.bet)
         /\ SplitUser(p).gameState = "ACTIONING" /\ SplitUser(p).curHand = 0
         /\ SplitUser(p).money = p.money - p.bet
<1> DEFINE q == SplitUser(p)
           f == [p.hand EXCEPT ![p.curHand].num = 1]
           g == [f EXCEPT ![1].num = 1]
           k == [g EXCEPT ![1].first = TRUE]
<1>1. /\ q.money = p.money - p.bet /\ q.gameState = "ACTIONING" /\ q.bet = p.bet
      /\ q.curHand = 0 /\ q.hand = k
  BY DEF SplitUser, UserRecord
<1>2. q \in UserRecord /\ p.bet \in Nat
  BY SplitType DEF UserRecord
<1>3. /\ p.hand \in [Hands -> Hand] /\ DOMAIN f = Hands /\ DOMAIN g = Hands
      /\ 0 \in Hands /\ 1 \in Hands /\ 0 # 1
  BY DEF UserRecord, Hands
<1>4. k[0] = g[0] /\ g[0] = f[0] /\ f[1] = p.hand[1]
  BY <1>3
<1>5. f[0].doubledown = p.hand[0].doubledown
  BY <1>3 DEF Hand
<1>6. g[1].state = p.hand[1].state /\ g[1].doubledown = p.hand[1].doubledown
      /\ "first" \in DOMAIN g[1] /\ "state" \in DOMAIN g[1] /\ "doubledown" \in DOMAIN g[1]
  <2>1. g[1] = [p.hand[1] EXCEPT !.num = 1] /\ p.hand[1] \in Hand
    BY <1>3, <1>4
  <2>2. QED
    BY <2>1 DEF Hand
<1>7. k[1].state = p.hand[1].state /\ k[1].doubledown = p.hand[1].doubledown /\ k[1].first
  BY <1>3, <1>6
<1> HIDE DEF f, g, k, q
<1>8. p.hand[1].state = "CURRENT" /\ ~ p.hand[1].doubledown /\ p.bet * Weight(p) <= s /\ 0 <= s
  BY DEF PlayerOK, ToPlay
<1>9. Weight(q) <= Weight(p) + 1
  <2>1. Stakes(q.hand[0]) = Stakes(p.hand[0]) /\ Stakes(q.hand[1]) = 1 /\ Stakes(p.hand[0]) \in {1, 2}
    BY <1>1, <1>4, <1>5, <1>7, <1>8 DEF Stakes
  <2>2. Stakes(p.hand[1]) = 1
    BY <1>8 DEF Stakes
  <2>3. QED
    BY <1>1, <2>1, <2>2 DEF Weight
<1>10. q.bet * Weight(q) <= s + p.bet /\ 0 <= s + p.bet
  BY <1>1, <1>2, <1>8, <1>9, OneMore
<1>11. PlayerOK(q, s + p.bet)
  BY <1>1, <1>7, <1>8, <1>10 DEF PlayerOK, InRound
<1>12. QED
  BY <1>1, <1>11 DEF q

-----------------------------------------------------------------------------
(* Before the cards are dealt                                              *)

\* A player with both hands untouched plays for one bet.
LEMMA UntouchedWeight ==
  ASSUME NEW p \in UserRecord, Untouched(p.hand[0]), Untouched(p.hand[1])
  PROVE  Weight(p) = 1
BY DEF Weight, Stakes, Untouched, UserRecord, Hands

\* A bet pays for the one hand it is placed on.
LEMMA BetPlayer ==
  ASSUME NEW p \in UserRecord, NEW s \in Int, PlayerOK(p, s), p.gameState = "BETTING",
         NEW amount \in Nat
  PROVE  PlayerOK(BetPlaced(p, amount), s + amount)
<1> DEFINE q == BetPlaced(p, amount)
<1>1. /\ q.hand = p.hand /\ q.curHand = p.curHand /\ q.bet = amount
      /\ q.gameState = "BET_DONE" /\ q \in UserRecord
  BY BetPlacedType DEF BetPlaced, UserRecord
<1> HIDE DEF q
<1>2. Untouched(q.hand[0]) /\ Untouched(q.hand[1]) /\ 0 <= s
  BY <1>1 DEF PlayerOK, InRound
<1>3. q.bet * Weight(q) <= s + amount
  BY <1>1, <1>2, UntouchedWeight
<1>4. PlayerOK(q, s + amount)
  BY <1>1, <1>2, <1>3 DEF PlayerOK, ToPlay
<1>5. QED
  BY <1>4 DEF q

\* Dealing does not add to what is played for: whoever still plays a second hand
\* of an earlier game has cards in the first, which is no blackjack then.
LEMMA DealtPlayer ==
  ASSUME NEW p \in UserRecord, NEW s \in Int, PlayerOK(p, s), p.gameState = "BET_DONE",
         RecordOK(p), NEW b \in BOOLEAN, b => p.hand[0].num = 0,
         p.hand[0].num + 2 <= HandSlots
  PROVE  PlayerOK(Dealt(p, b), s) /\ Dealt(p, b).gameState = "ACTION_WAITING"
<1> DEFINE h == p.hand[0]
           q == Dealt(p, b)
<1>1. h \in Hand /\ h.num \in Nat /\ 0 \in Hands /\ 1 \in Hands /\ p.curHand \in {0, 1}
  BY DEF UserRecord, Hands, Hand
<1>2. Untouched(h) /\ Untouched(p.hand[1]) /\ 0 <= s
  BY DEF PlayerOK, InRound
<1>3. /\ DealtHand(h, b).num = h.num + 1 + 1
      /\ DealtHand(h, b).first = (h.num = 0)
      /\ DealtHand(h, b).state = (IF b THEN "BLACKJACK" ELSE "CURRENT")
      /\ ~ DealtHand(h, b).doubledown
  <2>1. /\ WithCard(h).num = h.num + 1 /\ WithCard(h).first = (h.num = 0)
        /\ WithCard(h).state = "CURRENT" /\ ~ WithCard(h).doubledown
        /\ DOMAIN WithCard(h) = DOMAIN h
    BY <1>1, <1>2 DEF WithCard, Hand, Untouched
  <2>2. /\ WithCard(WithCard(h)).num = h.num + 1 + 1
        /\ WithCard(WithCard(h)).first = (h.num = 0)
        /\ WithCard(WithCard(h)).state = "CURRENT"
        /\ ~ WithCard(WithCard(h)).doubledown
        /\ DOMAIN WithCard(WithCard(h)) = DOMAIN h
    <3> DEFINE g == WithCard(h)
    <3>1. /\ "num" \in DOMAIN g /\ "first" \in DOMAIN g
          /\ g.num = h.num + 1 /\ g.first = (h.num = 0)
          /\ g.state = "CURRENT" /\ ~ g.doubledown /\ DOMAIN g = DOMAIN h
      BY <1>1, <2>1 DEF Hand
    <3> HIDE DEF g
    <3>2. /\ WithCard(g).num = g.num + 1 /\ WithCard(g).first = (g.first \/ g.num = 0)
          /\ WithCard(g).state = g.state /\ WithCard(g).doubledown = g.doubledown
          /\ DOMAIN WithCard(g) = DOMAIN g
      BY <3>1 DEF WithCard
    <3>3. g.num # 0
      BY <1>1, <3>1
    <3>4. QED
      BY <3>1, <3>2, <3>3 DEF g
  <2>3. QED
    BY <1>1, <2>2 DEF DealtHand, Hand
<1>4. /\ q.hand[0] = DealtHand(h, b) /\ q.hand[1] = p.hand[1]
      /\ q.gameState = "ACTION_WAITING" /\ q.curHand = p.curHand /\ q.bet = p.bet
  BY DEF Dealt, UserRecord, Hands
<1> HIDE DEF q, h
<1>5. Weight(p) = 1
  BY <1>2, UntouchedWeight DEF h
<1>6. Weight(q) = 1
  <2>1. CASE p.curHand = 0
    BY <1>2, <1>3, <1>4, <2>1 DEF Weight, Stakes, Untouched
  <2>2. CASE p.curHand = 1
    <3>1. ~ b
      BY <1>1, <2>2 DEF RecordOK, h
    <3>2. QED
      BY <1>2, <1>3, <1>4, <2>2, <3>1 DEF Weight, Stakes, Untouched
  <2>3. QED
    BY <1>1, <2>1, <2>2
<1>7. q.bet * Weight(q) <= s
  BY <1>4, <1>5, <1>6 DEF PlayerOK
<1>8. ASSUME q.hand[0].first PROVE q.hand[0].num = 2
  <2>1. h.num = 0
    BY <1>3, <1>4, <1>8
  <2>2. q.hand[0].num = h.num + 1 + 1
    BY <1>3, <1>4
  <2>3. QED
    BY <2>1, <2>2
<1>9. PlayerOK(q, s)
  BY <1>2, <1>4, <1>7, <1>8 DEF PlayerOK, InRound, Untouched
<1>10. QED
  BY <1>4, <1>9 DEF q

\* Whoever waits, or has to bet, with both hands untouched is in order.
LEMMA IdlePlayer ==
  ASSUME NEW p, NEW s \in Int, p.gameState \in {"WAITING", "BETTING"}, 0 <= s,
         Untouched(p.hand[0]), Untouched(p.hand[1])
  PROVE  PlayerOK(p, s)
BY DEF PlayerOK, InRound, ToPlay

-----------------------------------------------------------------------------
(* Turns                                                                   *)

\* Whose turn can be announced: nobody else acts, and the cards are the ones
\* the buttons go by.
Ready(ul, us) ==
  PlayableSeats(ul, us) # {} =>
    /\ \A u \in Seated(ul) : us[u].gameState = "ACTIONING" => u = NextUser(ul, us)
    /\ ActorReady(us[NextUser(ul, us)])

\* The next user is seated and can play.
LEMMA NextUserPlays ==
  ASSUME NEW ul, NEW us, PlayableSeats(ul, us) # {}
  PROVE  NextUser(ul, us) \in Seated(ul) /\ Playable(us[NextUser(ul, us)])
<1>1. First(PlayableSeats(ul, us)) \in PlayableSeats(ul, us)
  BY FirstIsMember DEF PlayableSeats
<1>2. QED
  BY <1>1 DEF PlayableSeats, NextUser, Seated

\* While nobody acts the next player is one who has not played yet.
LEMMA ReadyWhenNobodyActs ==
  ASSUME NEW ul, NEW us, NEW sk, \A u \in Seated(ul) : PlayerOK(us[u], sk[u]),
         \A u \in Seated(ul) : us[u].gameState # "ACTIONING",
         \A u \in Seated(ul) : us[u].curHand \in {0, 1}
  PROVE  Ready(ul, us)
<1> SUFFICES ASSUME PlayableSeats(ul, us) # {} PROVE ActorReady(us[NextUser(ul, us)])
  BY DEF Ready
<1>1. PICK w \in Seated(ul) : w = NextUser(ul, us) /\ Playable(us[w])
  BY NextUserPlays
<1>2. us[w].gameState = "ACTION_WAITING" /\ PlayerOK(us[w], sk[w]) /\ us[w].curHand \in {0, 1}
  BY <1>1 DEF Playable
<1>3. /\ ~ us[w].hand[1].first
      /\ us[w].hand[0].first => us[w].hand[0].num = 2
  BY <1>2 DEF PlayerOK, Untouched
<1>4. ActorReady(us[w])
  BY <1>2, <1>3 DEF ActorReady, CurrentHand
<1>5. QED
  BY <1>1, <1>4

\* A player whose record changes but who can still play stays the next one.
LEMMA NextUserStays ==
  ASSUME NEW ul, NEW us, NEW vs, PlayableSeats(ul, us) # {},
         \A s \in Seats : ul[s] # NoUser /\ ul[s] # NextUser(ul, us) => vs[ul[s]] = us[ul[s]],
         Playable(vs[NextUser(ul, us)])
  PROVE  PlayableSeats(ul, vs) # {} /\ NextUser(ul, vs) = NextUser(ul, us)
<1>1. Playable(us[NextUser(ul, us)])
  BY NextUserPlays
<1>2. PlayableSeats(ul, vs) = PlayableSeats(ul, us)
  BY <1>1 DEF PlayableSeats
<1>3. QED
  BY <1>2 DEF NextUser

\* The player given the turn is the one who acts.
LEMMA TurnGivenTurns ==
  ASSUME NEW ul, SeatingType(ul), NEW us \in [Users -> UserRecord],
         NEW sk \in [Users -> Int],
         PlayableSeats(ul, us) # {}, user' = TurnGiven(ul, us),
         TurnsOK(ul, us, sk, roomState, dealt), roomState' # "HANDOUT", dealt' = dealt,
         \A u \in Seated(ul) : us[u].gameState = "ACTIONING" => u = NextUser(ul, us)
  PROVE  /\ TurnsOK(ul, user', sk, roomState', dealt')
         /\ \A u \in Seated(ul) : user'[u].money = us[u].money
         /\ \A u \in Seated(ul) : user'[u].gameState = "ACTIONING" => u = NextUser(ul, us)
         /\ user'[NextUser(ul, us)].hand = us[NextUser(ul, us)].hand
         /\ user'[NextUser(ul, us)].curHand = us[NextUser(ul, us)].curHand
         /\ user'[NextUser(ul, us)].bet = us[NextUser(ul, us)].bet
<1>1. PICK w \in Seated(ul) : w = NextUser(ul, us) /\ Playable(us[w])
  BY NextUserPlays
<1>2. Seated(ul) \subseteq Users
  BY SeatedType
<1>3. user' = [us EXCEPT ![w].gameState = "ACTIONING"]
  BY <1>1 DEF TurnGiven
<1>4. us[w] \in UserRecord /\ w \in Users
  BY <1>1, <1>2
<1>5. /\ user'[w].hand = us[w].hand /\ user'[w].curHand = us[w].curHand
      /\ user'[w].bet = us[w].bet /\ user'[w].money = us[w].money
      /\ user'[w].gameState = "ACTIONING"
      /\ \A u \in Users : u # w => user'[u] = us[u]
  BY <1>3, <1>4 DEF UserRecord
<1>6. PlayerOK(user'[w], sk[w])
  <2>1. PlayerOK(us[w], sk[w]) /\ us[w].gameState \in ToPlay
    BY <1>1 DEF TurnsOK, Playable, ToPlay
  <2>2. Weight(user'[w]) = Weight(us[w])
    BY <1>5 DEF Weight, Stakes
  <2>3. user'[w].bet * Weight(user'[w]) <= sk[w]
    <3>1. us[w].bet * Weight(us[w]) <= sk[w]
      BY <2>1 DEF PlayerOK, ToPlay
    <3>2. QED
      BY <1>5, <2>2, <3>1
  <2>4. QED
    BY <1>5, <2>1, <2>3 DEF PlayerOK, InRound
<1>7. \A u \in Seated(ul) : PlayerOK(user'[u], sk[u])
  BY <1>2, <1>5, <1>6 DEF TurnsOK
<1>8. InRound(us[w])
  BY <1>1 DEF Playable, InRound
<1>9. \A u \in Seated(ul) : InRound(user'[u]) => dealt'
  BY <1>2, <1>5, <1>8 DEF TurnsOK
<1>10. \A u \in Seated(ul) : user'[u].gameState = "ACTIONING" => u = w
  BY <1>1, <1>2, <1>5
<1>11. TurnsOK(ul, user', sk, roomState', dealt')
  BY <1>7, <1>9, <1>10 DEF TurnsOK
<1>12. \A u \in Seated(ul) : user'[u].money = us[u].money
  BY <1>2, <1>5
<1>13. QED
  BY <1>1, <1>5, <1>10, <1>11, <1>12

\* The buttons a turn is announced with tell the truth about the player's cards.
LEMMA ButtonsTell ==
  ASSUME NEW p \in UserRecord, ActorReady(p), NEW q, q.hand = p.hand, q.curHand = p.curHand,
         q.bet = p.bet, q.money = p.money
  PROVE  ActorOK(q, ButtonsOnTurn(p))
<1>1. CurrentHand(p) \in Hand /\ CurrentHand(p).num \in Nat /\ CurrentHand(q) = CurrentHand(p)
  BY DEF CurrentHand, UserRecord, Hands, Hand
<1>2. ActorReady(q)
  BY <1>1 DEF ActorReady
<1>3. ASSUME "SPLIT" \in ButtonsOnTurn(p), CurrentHand(p).first PROVE CanSplit(q)
  <2>1. p.bet <= p.money /\ CurrentHand(p).num >= 2 /\ ~ p.hand[1].first
    BY <1>3 DEF ButtonsOnTurn
  <2>2. CurrentHand(p).num <= 2
    BY <1>3, <2>1 DEF ActorReady
  <2>3. QED
    BY <1>1, <2>1, <2>2 DEF CanSplit
<1>4. QED
  BY <1>1, <1>2, <1>3 DEF ActorOK

\* NotifyChangeTurn keeps the turns in order.  It pays nobody more than three
\* times what that player has paid, in memory as in the database.
LEMMA TurnTimely ==
  ASSUME NEW ul, SeatingType(ul), NEW us \in [Users -> UserRecord],
         NEW db \in [Users -> Int], NEW sk \in [Users -> Int],
         NotifyChangeTurn(ul, us, db) \/ EndOfGame(ul, us, db),
         TurnsOK(ul, us, sk, roomState, dealt), Ready(ul, us)
  PROVE  /\ TurnsOK(ul, user', sk, roomState', dealt')
         /\ fault' = "none" => ActorsOK(ul, user', buttons')
         /\ \A u \in Seated(ul) : /\ user'[u].money <= us[u].money + 3 * sk[u]
                                  /\ user'[u].money - chip'[u] = us[u].money - db[u]
<1>1. /\ Seated(ul) \subseteq Users
      /\ \A u \in Seated(ul) : /\ us[u] \in UserRecord /\ us[u].money \in Int
                               /\ db[u] \in Int /\ sk[u] \in Int /\ 0 <= sk[u]
  <2>1. Seated(ul) \subseteq Users
    BY SeatedType
  <2>2. QED
    BY <2>1 DEF UserRecord, TurnsOK, PlayerOK
<1>2. CASE /\ PlayableSeats(ul, us) # {}
           /\ user' = TurnGiven(ul, us)
           /\ chip' = db
           /\ roomState' = IF roomState = "HANDOUT" THEN "INGAME" ELSE roomState
           /\ buttons' = ButtonsOnTurn(us[NextUser(ul, us)])
           /\ UNCHANGED <<dealt, fault>>
  <2> DEFINE w == NextUser(ul, us)
  <2>1. roomState' # "HANDOUT" /\ w \in Seated(ul)
    BY <1>2, NextUserPlays
  <2>2. /\ TurnsOK(ul, user', sk, roomState', dealt')
        /\ \A u \in Seated(ul) : user'[u].money = us[u].money
        /\ \A u \in Seated(ul) : user'[u].gameState = "ACTIONING" => u = w
        /\ user'[w].hand = us[w].hand /\ user'[w].curHand = us[w].curHand
        /\ user'[w].bet = us[w].bet
    <3>1. /\ \A u \in Seated(ul) : us[u].gameState = "ACTIONING" => u = NextUser(ul, us)
          /\ PlayableSeats(ul, us) # {} /\ user' = TurnGiven(ul, us) /\ roomState' # "HANDOUT"
          /\ dealt' = dealt
      BY <1>2, <2>1 DEF Ready
    <3>2. TurnsOK(ul, us, sk, roomState, dealt)
      OBVIOUS
    <3>3. /\ TurnsOK(ul, user', sk, roomState', dealt')
          /\ \A u \in Seated(ul) : user'[u].money = us[u].money
          /\ \A u \in Seated(ul) :
               user'[u].gameState = "ACTIONING" => u = NextUser(ul, us)
          /\ user'[NextUser(ul, us)].hand = us[NextUser(ul, us)].hand
          /\ user'[NextUser(ul, us)].curHand = us[NextUser(ul, us)].curHand
          /\ user'[NextUser(ul, us)].bet = us[NextUser(ul, us)].bet
      BY <3>1, <3>2, TurnGivenTurns
    <3>4. QED
      BY <3>3
  <2>3. ActorReady(us[w]) /\ us[w] \in UserRecord
    BY <1>1, <1>2, <2>1 DEF Ready
  <2> HIDE DEF w
  <2>4. ActorOK(user'[w], ButtonsOnTurn(us[w]))
    BY <2>1, <2>2, <2>3, ButtonsTell
  <2>5. ActorsOK(ul, user', buttons')
    BY <1>2, <2>2, <2>4 DEF ActorsOK, ActorOK, w
  <2>6. \A u \in Seated(ul) : /\ user'[u].money <= us[u].money + 3 * sk[u]
                              /\ user'[u].money - chip'[u] = us[u].money - db[u]
    BY <1>1, <1>2, <2>2
  <2>7. QED
    BY <1>2, <2>2, <2>5, <2>6
<1>3. CASE /\ user' = us /\ chip' = db /\ fault' # "none"
           /\ UNCHANGED <<roomState, dealt, buttons>>
  <2>1. \A u \in Seated(ul) : user'[u].money <= us[u].money + 3 * sk[u]
    BY <1>1, <1>3
  <2>2. QED
    BY <1>3, <2>1
<1>4. ASSUME roomState' = "CALCULATE", dealt' = FALSE,
             NEW d \in DealerStates, \A u \in Seated(ul) : PaidAs(u, d, us, db)
      PROVE  /\ TurnsOK(ul, user', sk, roomState', dealt')
             /\ ActorsOK(ul, user', buttons')
             /\ \A u \in Seated(ul) : /\ user'[u].money <= us[u].money + 3 * sk[u]
                                      /\ user'[u].money - chip'[u] = us[u].money - db[u]
  <2>1. ASSUME NEW u \in Seated(ul)
        PROVE  /\ PlayerOK(user'[u], sk[u]) /\ user'[u].gameState = "WAITING"
               /\ user'[u].money <= us[u].money + 3 * sk[u]
               /\ user'[u].money - chip'[u] = us[u].money - db[u]
    <3>1. PICK e \in Nat : /\ e \in EarnMoney(d, us[u]) /\ user'[u] = Paid(us[u], e)
                           /\ chip'[u] = db[u] + e
      BY <1>4 DEF PaidAs
    <3>2. e <= 3 * sk[u]
      BY <1>1, <1>4, <3>1, EarnCovered DEF TurnsOK
    <3>3. /\ user'[u].money = us[u].money + e /\ user'[u].gameState = "WAITING"
          /\ user'[u].hand[0] = EmptyHand /\ user'[u].hand[1] = EmptyHand
      <4>1. /\ Paid(us[u], e).money = us[u].money + e
            /\ Paid(us[u], e).gameState = "WAITING"
            /\ Paid(us[u], e).hand[0] = EmptyHand /\ Paid(us[u], e).hand[1] = EmptyHand
        BY <1>1, PaidRecord
      <4>2. QED
        BY <3>1, <4>1, Zenon
    <3>4. Untouched(user'[u].hand[0]) /\ Untouched(user'[u].hand[1])
      BY <3>3 DEF Untouched, EmptyHand
    <3>5. PlayerOK(user'[u], sk[u])
      BY <1>1, <3>3, <3>4, IdlePlayer
    <3>6. QED
      BY <1>1, <3>1, <3>2, <3>3, <3>5
  <2>2. TurnsOK(ul, user', sk, roomState', dealt')
    BY <1>4, <2>1 DEF TurnsOK, InRound
  <2>3. ActorsOK(ul, user', buttons')
    BY <2>1 DEF ActorsOK, ActorOK
  <2>4. QED
    BY <2>1, <2>2, <2>3
<1>5. CASE EndOfGame(ul, us, db)
  <2>1. CASE Broken("dealer_overflow", us, db)
    BY <1>3, <2>1 DEF Broken
  <2>2. CASE /\ roomState' = "CALCULATE" /\ dealt' = FALSE
             /\ \E d \in DealerStates : \A u \in Seated(ul) : PaidAs(u, d, us, db)
    <3>1. PICK d \in DealerStates : \A u \in Seated(ul) : PaidAs(u, d, us, db)
      BY <2>2
    <3>2. QED
      BY <1>4, <2>2, <3>1
  <2>3. QED
    BY <1>5, <2>1, <2>2, EndOfGameUsers
<1>6. NotifyChangeTurn(ul, us, db) =>
        \/ /\ PlayableSeats(ul, us) # {}
           /\ user' = TurnGiven(ul, us)
           /\ chip' = db
           /\ roomState' = IF roomState = "HANDOUT" THEN "INGAME" ELSE roomState
           /\ buttons' = ButtonsOnTurn(us[NextUser(ul, us)])
           /\ UNCHANGED <<dealt, fault>>
        \/ EndOfGame(ul, us, db)
        \/ Broken("empty_deck", us, db)
  BY DEF NotifyChangeTurn
<1>7. CASE Broken("empty_deck", us, db)
  BY <1>3, <1>7 DEF Broken
<1>8. QED
  BY <1>2, <1>5, <1>6, <1>7

\* What a handler has charged before it passes the turn on, it has charged in
\* memory and in the database, or to a player on blanks.
Balanced(ul, us, db, sk) ==
  \A u \in Seated(ul) :
    /\ us[u].money + sk[u] = user[u].money + stake[u]
    /\ us[u].money - db[u] = user[u].money - chip[u] \/ OnBlanks(user[u])

\* A handler that ends by passing the turn on, or by settling the game
LEMMA TurnStep ==
  ASSUME TypeOK, NEW ul, SeatingType(ul), NEW us \in [Users -> UserRecord],
         NEW db \in [Users -> Int], NEW sk \in [Users -> Int],
         NotifyChangeTurn(ul, us, db) \/ EndOfGame(ul, us, db),
         TurnsOK(ul, us, sk, roomState, dealt), Ready(ul, us),
         Balanced(ul, us, db, sk), userList' = ul, stake' = sk
  PROVE  StepOK
<1>1. /\ TurnsOK(ul, user', sk, roomState', dealt')
      /\ fault' = "none" => ActorsOK(ul, user', buttons')
      /\ \A u \in Seated(ul) : /\ user'[u].money <= us[u].money + 3 * sk[u]
                               /\ user'[u].money - chip'[u] = us[u].money - db[u]
  BY TurnTimely
<1>2. Timely'
  BY <1>1 DEF Timely
<1>3. user' \in [Users -> UserRecord] /\ Seated(ul) \subseteq Users
  <2>1. user' \in [Users -> UserRecord]
    BY ChangeTurnType, EndOfGameType DEF TypeOK
  <2>2. QED
    BY <2>1, SeatedType
<1>4. ASSUME NEW u \in Seated(ul) PROVE Earned(u) <= 3 * stake'[u]
  <2>1. /\ user'[u].money \in Int /\ us[u].money \in Int /\ user[u].money \in Int
        /\ sk[u] \in Int /\ stake[u] \in Int
    BY <1>3 DEF TypeOK, UserRecord
  <2>2. /\ us[u].money + sk[u] = user[u].money + stake[u]
        /\ user'[u].money <= us[u].money + 3 * sk[u]
    BY <1>1 DEF Balanced
  <2>3. (user'[u].money - user[u].money) + (sk[u] - stake[u]) <= 3 * sk[u]
    BY <2>1, <2>2
  <2>4. QED
    BY <2>3 DEF Earned
<1>5. PayStep /\ DriftStep
  BY <1>1, <1>4 DEF PayStep, DriftStep, Balanced
<1>6. QED
  BY <1>2, <1>5 DEF StepOK

\* A step that ends no game and in which nobody starts to act
LEMMA QuietStep ==
  ASSUME TurnsOK(userList', user', stake', roomState', dealt'),
         fault' = "none" => ActorsOK(userList', user', buttons'),
         roomState' = "CALCULATE" => roomState = "CALCULATE",
         DriftStep
  PROVE  StepOK
BY DEF StepOK, Timely, PayStep

-----------------------------------------------------------------------------
(* Every action keeps the turns in order, when choices are handled on them. *)

\* SetRoomStateToWaiting, while no game is on: everybody has to bet, with both
\* hands untouched.
LEMMA WaitingTurns ==
  ASSUME NEW ul, SeatingType(ul), NEW us \in [Users -> UserRecord], NEW n,
         NEW sk \in [Users -> Int], SetRoomStateToWaiting(ul, us, n),
         \A u \in Seated(ul) : /\ Untouched(us[u].hand[0]) /\ Untouched(us[u].hand[1])
                               /\ 0 <= sk[u]
  PROVE  /\ TurnsOK(userList', user', sk, roomState', dealt')
         /\ ActorsOK(userList', user', buttons')
         /\ roomState' # "CALCULATE"
         /\ Seated(userList') \subseteq Seated(ul)
         /\ \A u \in Seated(userList') : user'[u].money = us[u].money
<1> DEFINE out == Kicked(ul, us)
<1>1. /\ userList' = [s \in Seats |-> IF ul[s] \in out THEN NoUser ELSE ul[s]]
      /\ user' = [u \in Users |-> IF u \in Seated(ul) \ out
                                  THEN [us[u] EXCEPT !.gameState = "BETTING"]
                                  ELSE us[u]]
      /\ roomState' = StateWithUsers(n - Cardinality(out))
  BY DEF SetRoomStateToWaiting
<1>2. Seated(userList') \subseteq Seated(ul) \ out /\ Seated(ul) \subseteq Users
  BY <1>1, SeatedType DEF Seated
<1>3. ASSUME NEW u \in Seated(userList')
      PROVE  /\ PlayerOK(user'[u], sk[u]) /\ user'[u].gameState = "BETTING"
             /\ user'[u].money = us[u].money
  <2>1. us[u] \in UserRecord /\ u \in Seated(ul) \ out /\ u \in Users
    BY <1>2
  <2>2. /\ user'[u].gameState = "BETTING" /\ user'[u].hand = us[u].hand
        /\ user'[u].money = us[u].money
    BY <1>1, <2>1 DEF UserRecord
  <2>3. PlayerOK(user'[u], sk[u])
    BY <2>1, <2>2, IdlePlayer
  <2>4. QED
    BY <2>2, <2>3
<1>4. TurnsOK(userList', user', sk, roomState', dealt')
  BY <1>3 DEF TurnsOK, InRound
<1>5. ActorsOK(userList', user', buttons')
  BY <1>3 DEF ActorsOK, ActorOK
<1>6. roomState' # "CALCULATE"
  BY <1>1 DEF StateWithUsers
<1>7. QED
  BY <1>2, <1>3, <1>4, <1>5, <1>6

\* Without a deck nobody's hands are touched.
LEMMA NobodyInRound ==
  ASSUME TypeOK, Timely, dealt = FALSE, NEW u \in Seated(userList)
  PROVE  /\ Untouched(user[u].hand[0]) /\ Untouched(user[u].hand[1])
         /\ 0 <= stake[u] /\ u \in Users
<1>1. PlayerOK(user[u], stake[u]) /\ ~ InRound(user[u])
  BY DEF Timely, TurnsOK
<1>2. u \in Users
  BY SeatedType DEF TypeOK, SeatingType
<1>3. QED
  BY <1>1, <1>2 DEF PlayerOK

\* Entering: whoever enters waits with its hands untouched.
LEMMA EnterStep ==
  ASSUME TypeOK, RoomInv, Timely, fault = "none", NEW u \in Users, EnterUser(u)
  PROVE  StepOK
<1> DEFINE seat == First({s \in Seats : userList[s] = NoUser})
           ul   == [userList EXCEPT ![seat] = u]
           us   == [user EXCEPT ![u] = LoggedIn(user[u], chip[u])]
<1>1. /\ SeatingType(userList) /\ OneSeatEach(userList)
      /\ userCount = Cardinality(Occupied(userList))
      /\ Seated(userList) \subseteq connected
  BY DEF TypeOK, RoomInv, SeatsCounted, SeatingType, OneSeatEach, Occupied
<1>2. /\ u \notin connected /\ userCount < MaxSeats
      /\ stake' = [stake EXCEPT ![u] = 0]
      /\ chip' = chip /\ buttons' = buttons
  BY DEF EnterUser
<1>3. seat \in Seats /\ userList[seat] = NoUser
  BY <1>1, <1>2, FreeSeat
<1>4. Seated(ul) = Seated(userList) \cup {u} /\ u \notin Seated(userList) /\ SeatingType(ul)
  <2>1. u \notin Seated(userList) /\ SeatingType(ul)
    BY <1>1, <1>2 DEF SeatingType
  <2>2. QED
    BY <1>1, <1>3, <2>1, SeatTaken
<1>5. /\ us \in [Users -> UserRecord] /\ us[u] = LoggedIn(user[u], chip[u])
      /\ \A w \in Users : w # u => us[w] = user[w] /\ stake'[w] = stake[w]
      /\ stake' \in [Users -> Int] /\ stake'[u] = 0
      /\ user[u] \in UserRecord /\ chip[u] \in Int
  BY <1>2, LoggedInType DEF TypeOK
<1>6. /\ us[u].gameState = "WAITING"
      /\ Untouched(us[u].hand[0]) /\ Untouched(us[u].hand[1])
  <2>1. 0 \in Hands /\ 1 \in Hands
    BY DEF Hands
  <2>2. /\ LoggedIn(user[u], chip[u]).gameState = "WAITING"
        /\ \A h \in Hands : LoggedIn(user[u], chip[u]).hand[h] =
             [state |-> "CURRENT", num |-> user[u].hand[h].num, first |-> FALSE,
              doubledown |-> FALSE]
    BY <1>5, LoggedInRecord
  <2>3. /\ Untouched(LoggedIn(user[u], chip[u]).hand[0])
        /\ Untouched(LoggedIn(user[u], chip[u]).hand[1])
    <3>1. ASSUME NEW h \in Hands PROVE Untouched(LoggedIn(user[u], chip[u]).hand[h])
      <4>1. LoggedIn(user[u], chip[u]).hand[h] =
              [state |-> "CURRENT", num |-> user[u].hand[h].num, first |-> FALSE,
               doubledown |-> FALSE]
        BY <2>2
      <4>2. Untouched([state |-> "CURRENT", num |-> user[u].hand[h].num, first |-> FALSE,
                       doubledown |-> FALSE])
        BY DEF Untouched
      <4>3. QED
        BY <4>1, <4>2, Zenon
    <3>2. QED
      BY <2>1, <3>1
  <2>4. QED
    BY <1>5, <2>2, <2>3
<1>7. PlayerOK(us[u], stake'[u]) /\ ~ InRound(us[u]) /\ us[u].gameState # "ACTIONING"
  BY <1>5, <1>6, IdlePlayer DEF InRound
<1>8. Seated(userList) \subseteq Users
  BY <1>1, SeatedType
<1> HIDE DEF us, ul, seat
<1>9. CASE roomState \in {"NONE", "WAITING"} /\ SetRoomStateToWaiting(ul, us, userCount + 1)
  <2>1. dealt = FALSE
    BY <1>9 DEF RoomInv, DeckMatchesState, TypeOK
  <2>2. ASSUME NEW w \in Seated(ul)
        PROVE  /\ Untouched(us[w].hand[0]) /\ Untouched(us[w].hand[1]) /\ 0 <= stake'[w]
    <3>1. CASE w = u
      BY <1>5, <1>6, <3>1
    <3>2. CASE w # u
      BY <1>4, <1>5, <2>1, <2>2, <3>2, NobodyInRound
    <3>3. QED
      BY <3>1, <3>2
  <2>3. /\ TurnsOK(userList', user', stake', roomState', dealt')
        /\ ActorsOK(userList', user', buttons')
        /\ roomState' # "CALCULATE"
        /\ Seated(userList') \subseteq Seated(ul)
        /\ \A w \in Seated(userList') : user'[w].money = us[w].money
    BY <1>4, <1>5, <1>9, <2>2, WaitingTurns
  <2>4. DriftStep
    <3>1. ASSUME NEW w \in Seated(userList) \cap Seated(userList')
          PROVE  user'[w].money - chip'[w] = user[w].money - chip[w]
      <4>1. w # u /\ w \in Users
        BY <1>4, <1>8
      <4>2. QED
        BY <1>2, <1>5, <2>3, <3>1, <4>1
    <3>2. QED
      BY <3>1 DEF DriftStep
  <2>5. QED
    BY <2>3, <2>4, QuietStep
<1>10. CASE userList' = ul /\ user' = us /\ UNCHANGED <<roomState, dealt, fault>>
  <2>1. TurnsOK(ul, us, stake', roomState, dealt)
    BY <1>4, <1>5, <1>7, <1>8 DEF Timely, TurnsOK
  <2>2. ActorsOK(ul, us, buttons)
    BY <1>4, <1>5, <1>7, <1>8 DEF Timely, ActorsOK, ActorOK
  <2>3. DriftStep
    BY <1>2, <1>4, <1>5, <1>8, <1>10 DEF DriftStep
  <2>4. QED
    BY <1>2, <1>10, <2>1, <2>2, <2>3, QuietStep
<1>11. QED
  BY <1>9, <1>10 DEF EnterUser, ul, us, seat

\* Leaving: the turn of whoever leaves on turn goes to one who has not played.
LEMMA CloseStep ==
  ASSUME TypeOK, RoomInv, Timely, fault = "none", NEW u \in Users, CloseSession(u)
  PROVE  StepOK
<1> DEFINE ul   == SeatGivenBack(u)
           done == [user EXCEPT ![u].gameState = "ACTION_DONE"]
<1>1. CASE u \notin Seated(userList)
  <2>1. UNCHANGED <<roomState, userList, dealt, user, chip, buttons, fault, stake>>
    BY <1>1 DEF CloseSession
  <2>2. QED
    BY <2>1, QuietStep DEF Timely, DriftStep
<1>2. CASE u \in Seated(userList)
  <2>1. LeaveRoom(u) /\ connected' = connected \ {u}
    BY <1>2 DEF CloseSession
  <2>2. userList' = ul /\ userCount' = userCount - 1 /\ stake' = [stake EXCEPT ![u] = 0]
    BY <2>1 DEF LeaveRoom
  <2>3. Seated(ul) \subseteq Seated(userList) \ {u} /\ SeatingType(ul) /\ Seated(ul) \subseteq Users
    <3>1. Seated(ul) \subseteq Seated(userList) \ {u} /\ SeatingType(ul)
      BY DEF SeatGivenBack, Seated, SeatingType, TypeOK
    <3>2. QED
      BY <3>1, SeatedType
  <2>4. /\ done \in [Users -> UserRecord] /\ chip \in [Users -> Int]
        /\ stake' \in [Users -> Int]
        /\ \A w \in Seated(ul) : /\ w # u /\ w \in Seated(userList) /\ w \in Users
                                 /\ done[w] = user[w] /\ stake'[w] = stake[w]
    <3>1. done \in [Users -> UserRecord] /\ \A w \in Users : w # u => done[w] = user[w]
      BY DEF TypeOK, UserRecord, GameStates
    <3>2. /\ stake' \in [Users -> Int] /\ chip \in [Users -> Int]
          /\ \A w \in Users : w # u => stake'[w] = stake[w]
      BY <2>2 DEF TypeOK
    <3> HIDE DEF done, ul
    <3>3. QED
      BY <2>3, <3>1, <3>2
  <2> HIDE DEF done, ul
  <2>5. TurnsOK(ul, done, stake', roomState, dealt) /\ ActorsOK(ul, done, buttons)
    <3>1. TurnsOK(ul, done, stake', roomState, dealt)
      BY <2>4 DEF Timely, TurnsOK
    <3>2. ActorsOK(ul, done, buttons)
      BY <2>4 DEF Timely, ActorsOK
    <3>3. QED
      BY <3>1, <3>2
  <2>6. CASE userCount = 1 /\ roomState' = "NONE" /\ UNCHANGED <<user, chip>>
    <3>1. Seated(userList') = {}
      <4>1. RoomInv'
        BY <1>2, <2>1, LeaveInv
      <4>2. Cardinality(Occupied(userList')) = 0
        BY <2>2, <2>6, <4>1 DEF RoomInv, SeatsCounted, Occupied
      <4>3. Occupied(userList') = {}
        BY <4>2, OccupiedFinite, FS_EmptySet
      <4>4. QED
        BY <4>3 DEF Occupied, Seated
    <3>2. QED
      BY <2>6, <3>1, QuietStep DEF TurnsOK, ActorsOK, DriftStep
  <2>7. CASE OnTurn(u) /\ NotifyChangeTurn(ul, done, chip)
    <3>1. \A w \in Seated(ul) : done[w].gameState # "ACTIONING"
      BY <1>2, <2>4, <2>7 DEF OnTurn, Timely, TurnsOK
    <3>2. Ready(ul, done)
      <4>1. \A w \in Seated(ul) : done[w].curHand \in {0, 1}
        BY <2>3, <2>4 DEF UserRecord, Hands
      <4>2. \A w \in Seated(ul) : PlayerOK(done[w], stake'[w])
        BY <2>5 DEF TurnsOK
      <4>3. QED
        BY <3>1, <4>1, <4>2, ReadyWhenNobodyActs
    <3>3. Balanced(ul, done, chip, stake')
      BY <2>4 DEF Balanced
    <3>4. QED
      BY <2>2, <2>3, <2>4, <2>5, <2>7, <3>2, <3>3, TurnStep
  <2>8. CASE UNCHANGED <<roomState, dealt, user, chip, buttons, fault>>
    <3>1. TurnsOK(ul, user, stake', roomState, dealt) /\ ActorsOK(ul, user, buttons)
      BY <2>4, <2>5 DEF TurnsOK, ActorsOK
    <3>2. QED
      BY <2>2, <2>8, <3>1, QuietStep DEF DriftStep
  <2>9. QED
    BY <2>1, <2>6, <2>7, <2>8 DEF LeaveRoom, done, ul
<1>3. QED
  BY <1>1, <1>2

\* Bets: everybody's stake covers its one hand, dealt or not.
LEMMA BetsStep ==
  ASSUME TypeOK, General, Timely, fault = "none", NEW bettors \in SUBSET Seated(userList),
         \A u \in bettors : user[u].gameState = "BETTING",
         NEW amount \in Nat, BetsApplied(bettors, amount)
  PROVE  StepOK
<1> DEFINE us == [u \in Users |-> IF u \in bettors THEN BetPlaced(user[u], amount)
                                                   ELSE user[u]]
<1>1. /\ chip' = Debited(bettors, amount) /\ userList' = userList /\ buttons' = buttons
      /\ stake' = [u \in Users |-> IF u \in bettors THEN stake[u] + amount ELSE stake[u]]
      /\ Seated(userList) \subseteq Users
  BY SeatedType DEF BetsApplied, TypeOK, SeatingType
<1>2. us \in [Users -> UserRecord]
  BY BetPlacedType DEF TypeOK
<1>3. ASSUME NEW u \in Users
      PROVE  /\ us[u].hand = user[u].hand /\ us[u].isSplit = user[u].isSplit
             /\ us[u].curHand = user[u].curHand
             /\ u \in bettors => /\ us[u] = BetPlaced(user[u], amount)
                                 /\ us[u].gameState = "BET_DONE"
                                 /\ us[u].money = user[u].money - amount
                                 /\ chip'[u] = chip[u] - amount
                                 /\ stake'[u] = stake[u] + amount
             /\ u \notin bettors => /\ us[u] = user[u] /\ chip'[u] = chip[u]
                                    /\ stake'[u] = stake[u]
             /\ stake[u] \in Int /\ stake'[u] \in Int /\ user[u] \in UserRecord
  <2>1. user[u] \in UserRecord /\ stake[u] \in Int
    BY DEF TypeOK
  <2>2. us[u] = IF u \in bettors THEN BetPlaced(user[u], amount) ELSE user[u]
    OBVIOUS
  <2>3. /\ chip'[u] = IF u \in bettors THEN chip[u] - amount ELSE chip[u]
        /\ stake'[u] = IF u \in bettors THEN stake[u] + amount ELSE stake[u]
    BY <1>1 DEF Debited
  <2> HIDE DEF us
  <2>4. QED
    BY <2>1, <2>2, <2>3 DEF BetPlaced, UserRecord
<1> HIDE DEF us
<1>4. ASSUME NEW u \in Seated(userList) PROVE PlayerOK(us[u], stake'[u])
  <2>1. u \in Users /\ PlayerOK(user[u], stake[u])
    BY <1>1 DEF Timely, TurnsOK
  <2>2. CASE u \in bettors
    <3>1. PlayerOK(BetPlaced(user[u], amount), stake[u] + amount)
      BY <1>3, <2>1, <2>2, BetPlayer
    <3>2. us[u] = BetPlaced(user[u], amount) /\ stake'[u] = stake[u] + amount
      BY <1>3, <2>1, <2>2
    <3>3. QED
      BY <3>1, <3>2
  <2>3. CASE u \notin bettors
    <3>1. us[u] = user[u] /\ stake'[u] = stake[u]
      BY <1>3, <2>1, <2>3
    <3>2. QED
      BY <2>1, <3>1
  <2>4. QED
    BY <2>2, <2>3
<1>5. ASSUME NEW u \in Seated(userList)
      PROVE  /\ u \notin bettors => us[u] = user[u]
             /\ u \in bettors => us[u].gameState = "BET_DONE"
             /\ us[u].money - chip'[u] = user[u].money - chip[u]
  <2>1. u \in Users /\ user[u].money \in Int /\ chip[u] \in Int
    BY <1>1 DEF TypeOK, UserRecord
  <2>2. QED
    BY <1>3, <2>1
<1>6. TurnsOK(userList, us, stake', roomState, dealt)
  BY <1>4, <1>5 DEF Timely, TurnsOK, InRound
<1>7. ActorsOK(userList, us, buttons)
  BY <1>5 DEF Timely, ActorsOK, ActorOK
<1>8. CASE user' = us /\ UNCHANGED <<roomState, dealt>>
  <2>1. DriftStep
    BY <1>1, <1>5, <1>8 DEF DriftStep
  <2>2. QED
    BY <1>1, <1>6, <1>7, <1>8, <2>1, QuietStep
<1>9. ASSUME AllBetDone(userList, us), GameStarted,
             \A u \in Seated(userList) : us[u].hand[0].num + 2 <= HandSlots,
             NEW lucky \in SUBSET {u \in Seated(userList) : us[u].hand[0].num = 0},
             user' = [u \in Users |-> IF u \in Seated(userList)
                                      THEN Dealt(us[u], u \in lucky) ELSE us[u]]
      PROVE  StepOK
  <2>1. ASSUME NEW u \in Seated(userList)
        PROVE  /\ PlayerOK(user'[u], stake'[u]) /\ user'[u].gameState = "ACTION_WAITING"
               /\ user'[u].money = us[u].money
    <3>1. u \in Users
      BY <1>1
    <3>2. /\ us[u] \in UserRecord /\ stake'[u] \in Int /\ PlayerOK(us[u], stake'[u])
          /\ us[u].gameState = "BET_DONE" /\ (u \in lucky) \in BOOLEAN
          /\ u \in lucky => us[u].hand[0].num = 0
          /\ us[u].hand[0].num + 2 <= HandSlots
      BY <1>2, <1>3, <1>4, <1>9, <3>1 DEF AllBetDone
    <3>3. RecordOK(us[u])
      BY <1>3, <3>1 DEF General, RecordsFit, RecordOK
    <3>4. /\ PlayerOK(Dealt(us[u], u \in lucky), stake'[u])
          /\ Dealt(us[u], u \in lucky).gameState = "ACTION_WAITING"
          /\ Dealt(us[u], u \in lucky).money = us[u].money
      BY <3>2, <3>3, DealtPlayer, DealtRecord
    <3>5. user'[u] = Dealt(us[u], u \in lucky)
      BY <1>9, <3>1
    <3>6. QED
      BY <3>4, <3>5
  <2>2. roomState' = "HANDOUT" /\ dealt' = TRUE
    BY <1>9 DEF GameStarted
  <2>3. TurnsOK(userList, user', stake', roomState', dealt')
    BY <2>1, <2>2 DEF TurnsOK
  <2>4. ActorsOK(userList, user', buttons')
    BY <2>1 DEF ActorsOK, ActorOK
  <2>5. DriftStep
    BY <1>1, <1>5, <2>1 DEF DriftStep
  <2>6. QED
    BY <1>1, <2>2, <2>3, <2>4, <2>5, QuietStep
<1>10. BetsApplied(bettors, amount) =>
         \/ AllBetDone(userList, us) /\ NotifyStartGame(us)
         \/ user' = us /\ UNCHANGED <<roomState, dealt>>
  BY DEF BetsApplied, us
<1>11. NotifyStartGame(us) =>
         \/ /\ GameStarted
            /\ \A u \in Seated(userList) : us[u].hand[0].num + 2 <= HandSlots
            /\ \E lucky \in SUBSET {u \in Seated(userList) : us[u].hand[0].num = 0} :
                 user' = [u \in Users |-> IF u \in Seated(userList)
                                          THEN Dealt(us[u], u \in lucky) ELSE us[u]]
         \/ user' = us /\ UNCHANGED <<roomState, dealt>>
  BY DEF NotifyStartGame
<1>12. QED
  BY <1>8, <1>9, <1>10, <1>11

\* Undefined behaviour before the handler has changed anything
LEMMA CrashStep ==
  ASSUME Timely, NEW reason, reason # "none", Crash(reason)
  PROVE  StepOK
<1>1. UNCHANGED <<roomState, userList, dealt, user, chip, buttons, stake>> /\ fault' # "none"
  BY DEF Crash
<1>2. QED
  BY <1>1, QuietStep DEF Timely, DriftStep

\* A choice handled on its sender's turn comes from the one player who acts.
LEMMA ChooserActs ==
  ASSUME LateChoices = FALSE, TypeOK, Timely, fault = "none", NEW u \in Users,
         NEW choice, ChoiceArrives(u, choice)
  PROVE  /\ u \in Seated(userList) /\ user[u] \in UserRecord /\ Playable(user[u])
         /\ PlayableSeats(userList, user) # {} /\ u = NextUser(userList, user)
         /\ user[u].gameState = "ACTIONING" /\ choice \in buttons
         /\ PlayerOK(user[u], stake[u]) /\ ActorOK(user[u], buttons)
         /\ \A w \in Seated(userList) : user[w].gameState = "ACTIONING" => w = u
         /\ roomState # "HANDOUT" /\ dealt
<1>1. Offered(u, choice) /\ u \in Seated(userList) /\ user[u] \in UserRecord
  BY DEF ChoiceArrives, TypeOK
<1>2. /\ PlayableSeats(userList, user) # {} /\ u = NextUser(userList, user)
      /\ user[u].gameState = "ACTIONING" /\ choice \in buttons
  BY <1>1 DEF Offered
<1>3. Playable(user[u])
  BY <1>2, NextUserPlays
<1>4. QED
  BY <1>1, <1>2, <1>3 DEF Timely, TurnsOK, ActorsOK, InRound

\* A choice that was refused announces the turn once more.
LEMMA RefusedStep ==
  ASSUME LateChoices = FALSE, TypeOK, Timely, fault = "none", NEW u \in Users,
         NEW choice, ChoiceArrives(u, choice), ActorReady(user[u]), ChoiceRefused
  PROVE  StepOK
<1>1. /\ u = NextUser(userList, user)
      /\ \A w \in Seated(userList) : user[w].gameState = "ACTIONING" => w = u
  BY ChooserActs
<1>2. Ready(userList, user)
  BY <1>1 DEF Ready
<1>3. /\ SeatingType(userList) /\ user \in [Users -> UserRecord] /\ chip \in [Users -> Int]
      /\ stake \in [Users -> Int]
  BY DEF TypeOK, SeatingType
<1>4. TurnsOK(userList, user, stake, roomState, dealt)
  BY DEF Timely
<1>5. NotifyChangeTurn(userList, user, chip) /\ userList' = userList /\ stake' = stake
  BY DEF ChoiceRefused
<1>6. QED
  BY <1>2, <1>3, <1>4, <1>5, TurnStep DEF Balanced

\* A choice that succeeded: the player goes on with the same hand, with its
\* second one, or the turn goes to a player who has not played yet.
LEMMA AppliedStep ==
  ASSUME LateChoices = FALSE, TypeOK, Timely, fault = "none", NEW u \in Users,
         NEW arrived, ChoiceArrives(u, arrived),
         NEW p \in UserRecord, NEW sk \in [Users -> Int], NEW db \in [Users -> Int],
         PlayerOK(p, sk[u]), p.gameState \in {"ACTIONING", "ACTION_DONE"},
         p.curHand # user[u].curHand => p.curHand = 1 /\ p.hand[1].first,
         \A w \in Users : w # u => sk[w] = stake[w] /\ db[w] = chip[w],
         p.money + sk[u] = user[u].money + stake[u],
         p.money - db[u] = user[u].money - chip[u] \/ OnBlanks(user[u]),
         NEW choice, ChoiceApplied(u, choice, p, db, sk)
  PROVE  StepOK
<1> DEFINE q  == AfterChoiceNtf(p)
           us == [user EXCEPT ![u] = q]
<1>1. /\ u \in Seated(userList) /\ Playable(user[u])
      /\ PlayableSeats(userList, user) # {} /\ u = NextUser(userList, user)
      /\ user[u].gameState = "ACTIONING" /\ roomState # "HANDOUT" /\ dealt
      /\ \A w \in Seated(userList) : user[w].gameState = "ACTIONING" => w = u
  BY ChooserActs
<1>2. /\ SeatingType(userList) /\ Seated(userList) \subseteq Users
      /\ userList' = userList /\ stake' = sk
  BY SeatedType DEF ChoiceApplied, TypeOK, SeatingType
<1>3. q \in UserRecord /\ us \in [Users -> UserRecord] /\ us[u] = q
      /\ \A w \in Users : w # u => us[w] = user[w]
  BY SwitchType DEF TypeOK
<1>4. /\ PlayerOK(q, sk[u]) /\ q.gameState \in {"ACTIONING", "ACTION_DONE"}
      /\ q.gameState = "ACTIONING" => Playable(q)
  BY NotifiedPlayer
<1>5. /\ q.hand = p.hand /\ q.money = p.money /\ q.curHand \in {0, 1}
      /\ \/ q = p /\ CurrentHand(p).state = "CURRENT"
         \/ q.curHand = 1 /\ p.curHand = 0 /\ p.hand[1].first
         \/ q.curHand = p.curHand /\ q.gameState = "ACTION_DONE"
  <2>1. q.curHand \in {0, 1}
    BY <1>3 DEF UserRecord, Hands
  <2>2. QED
    BY <2>1, NotifiedRecord
<1>6. \/ ChoiceApplied(u, choice, p, db, sk) /\ PlayableSeats(userList, us) # {}
         /\ NextUser(userList, us) = u /\ us[u].curHand = user[u].curHand
         /\ user' = TurnGiven(userList, us) /\ chip' = db
         /\ buttons' = ButtonsAfter(choice, p)
         /\ UNCHANGED <<roomState, dealt, fault>>
      \/ /\ ~ (/\ PlayableSeats(userList, us) # {}
               /\ NextUser(userList, us) = u
               /\ us[u].curHand = user[u].curHand)
         /\ NotifyChangeTurn(userList, us, db)
  BY DEF ChoiceApplied
<1> HIDE DEF q, us
<1>7. TurnsOK(userList, us, sk, roomState, dealt)
  <2>1. \A w \in Seated(userList) : PlayerOK(us[w], sk[w])
    BY <1>2, <1>3, <1>4 DEF Timely, TurnsOK
  <2>2. \A w \in Seated(userList) : us[w].gameState = "ACTIONING" => w = u
    BY <1>1, <1>2, <1>3
  <2>3. QED
    BY <1>1, <2>1, <2>2 DEF TurnsOK
<1>8. q.gameState = "ACTIONING" => NextUser(userList, us) = u
  <2>1. ASSUME q.gameState = "ACTIONING" PROVE Playable(us[NextUser(userList, user)])
    BY <1>1, <1>3, <1>4, <2>1
  <2>2. \A s \in Seats : userList[s] # NoUser /\ userList[s] # NextUser(userList, user)
                           => us[userList[s]] = user[userList[s]]
    BY <1>1, <1>2, <1>3 DEF SeatingType
  <2>3. QED
    BY <1>1, <2>1, <2>2, NextUserStays
<1>9. \A w \in Seated(userList) :
        us[w].gameState = "ACTIONING" => w = NextUser(userList, us)
  BY <1>1, <1>2, <1>3, <1>8
<1>10. CASE /\ PlayableSeats(userList, us) # {} /\ NextUser(userList, us) = u
            /\ us[u].curHand = user[u].curHand
            /\ user' = TurnGiven(userList, us) /\ chip' = db
            /\ buttons' = ButtonsAfter(choice, p)
            /\ UNCHANGED <<roomState, dealt, fault>>
  <2>1. /\ TurnsOK(userList, user', sk, roomState', dealt')
        /\ \A w \in Seated(userList) : user'[w].money = us[w].money
        /\ \A w \in Seated(userList) : user'[w].gameState = "ACTIONING" => w = u
        /\ user'[u].hand = us[u].hand /\ user'[u].curHand = us[u].curHand
    <3>1. roomState' # "HANDOUT" /\ dealt' = dealt
      BY <1>1, <1>10
    <3>2. /\ TurnsOK(userList, user', sk, roomState', dealt')
          /\ \A w \in Seated(userList) : user'[w].money = us[w].money
          /\ \A w \in Seated(userList) :
               user'[w].gameState = "ACTIONING" => w = NextUser(userList, us)
          /\ user'[NextUser(userList, us)].hand = us[NextUser(userList, us)].hand
          /\ user'[NextUser(userList, us)].curHand = us[NextUser(userList, us)].curHand
          /\ user'[NextUser(userList, us)].bet = us[NextUser(userList, us)].bet
      BY <1>2, <1>3, <1>7, <1>9, <1>10, <3>1, TurnGivenTurns
    <3>3. QED
      BY <1>10, <3>2
  <2>2. Playable(q)
    BY <1>3, <1>10, NextUserPlays
  <2>3. q.curHand = p.curHand
    <3>1. q.gameState # "ACTION_DONE"
      BY <2>2 DEF Playable
    <3>2. ASSUME q.curHand = 1, p.curHand = 0 PROVE FALSE
      BY <1>3, <1>10, <3>2
    <3>3. QED
      BY <1>5, <3>1, <3>2
  <2>4. /\ user'[u].hand = p.hand /\ user'[u].curHand = p.curHand
        /\ CurrentHand(user'[u]) = CurrentHand(p)
    BY <1>3, <1>5, <2>1, <2>3 DEF CurrentHand
  <2>5. ActorOK(user'[u], ButtonsAfter(choice, p))
    <3>1. "SPLIT" \notin ButtonsAfter(choice, p)
      BY DEF ButtonsAfter
    <3>2. "DOUBLE_DOWN" \in ButtonsAfter(choice, p) =>
            CurrentHand(p).num <= 2 \/ ~ CurrentHand(p).first
      BY DEF ButtonsAfter
    <3>3. QED
      BY <2>4, <3>1, <3>2 DEF ActorOK, ActorReady
  <2>6. ActorsOK(userList, user', buttons')
    BY <1>10, <2>1, <2>5 DEF ActorsOK, ActorOK
  <2>7. DriftStep
    <3>1. ASSUME NEW w \in Seated(userList)
          PROVE  user'[w].money - chip'[w] = user[w].money - chip[w] \/ OnBlanks(user[w])
      <4>1. CASE w = u
        BY <1>3, <1>5, <1>10, <2>1, <4>1
      <4>2. CASE w # u
        BY <1>2, <1>3, <1>10, <2>1, <4>2
      <4>3. QED
        BY <4>1, <4>2
    <3>2. QED
      BY <1>2, <3>1 DEF DriftStep
  <2>8. QED
    BY <1>2, <1>10, <2>1, <2>6, <2>7, QuietStep
<1>11. CASE /\ ~ (/\ PlayableSeats(userList, us) # {}
                  /\ NextUser(userList, us) = u
                  /\ us[u].curHand = user[u].curHand)
            /\ NotifyChangeTurn(userList, us, db)
  <2>1. Ready(userList, us)
    <3>1. ASSUME PlayableSeats(userList, us) # {}
          PROVE  ActorReady(us[NextUser(userList, us)])
      <4>1. PICK w \in Seated(userList) : w = NextUser(userList, us) /\ Playable(us[w])
        BY <3>1, NextUserPlays
      <4>2. CASE w = u
        <5>1. us[u].curHand # user[u].curHand
          BY <1>11, <3>1, <4>1, <4>2
        <5>2. q.hand[1].first
          BY <1>3, <1>5, <5>1
        <5>3. QED
          BY <1>3, <4>1, <4>2, <5>2 DEF ActorReady
      <4>3. CASE w # u
        <5>1. w \in Users /\ us[w] = user[w]
          BY <1>2, <1>3, <4>3
        <5>2. user[w].gameState = "ACTION_WAITING" /\ PlayerOK(user[w], stake[w])
          BY <1>1, <4>1, <4>3, <5>1 DEF Playable, Timely, TurnsOK
        <5>3. user[w].curHand \in {0, 1}
          BY <5>1 DEF TypeOK, UserRecord, Hands
        <5>4. ActorReady(user[w])
          <6>1. /\ ~ user[w].hand[1].first
                /\ user[w].hand[0].first => user[w].hand[0].num = 2
            BY <5>2 DEF PlayerOK, Untouched
          <6>2. QED
            BY <5>3, <6>1 DEF ActorReady, CurrentHand
        <5>5. QED
          BY <4>1, <5>1, <5>4
      <4>4. QED
        BY <4>2, <4>3
    <3>2. QED
      BY <1>9, <3>1 DEF Ready
  <2>2. Balanced(userList, us, db, sk)
    <3>1. ASSUME NEW w \in Seated(userList)
          PROVE  /\ us[w].money + sk[w] = user[w].money + stake[w]
                 /\ us[w].money - db[w] = user[w].money - chip[w] \/ OnBlanks(user[w])
      <4>1. CASE w = u
        BY <1>3, <1>5, <4>1
      <4>2. CASE w # u
        BY <1>2, <1>3, <4>2
      <4>3. QED
        BY <4>1, <4>2
    <3>2. QED
      BY <3>1 DEF Balanced
  <2>3. QED
    BY <1>2, <1>3, <1>7, <1>11, <2>1, <2>2, TurnStep
<1>12. QED
  BY <1>6, <1>10, <1>11

\* A card drawn for the hand the player plays
LEMMA CardStep ==
  ASSUME LateChoices = FALSE, TypeOK, Timely, fault = "none", NEW u \in Users,
         NEW arrived, ChoiceArrives(u, arrived),
         NEW p \in UserRecord, NEW sk \in [Users -> Int], NEW db \in [Users -> Int],
         PlayerOK(p, sk[u]), p.gameState = "ACTIONING", p.curHand = user[u].curHand,
         \A w \in Users : w # u => sk[w] = stake[w] /\ db[w] = chip[w],
         p.money + sk[u] = user[u].money + stake[u],
         p.money - db[u] = user[u].money - chip[u],
         NEW states \in SUBSET HandStates, NEW choice,
         CardDrawn(u, choice, p, states, db, sk)
  PROVE  StepOK
<1> DEFINE cur == p.curHand
<1>1. CASE Crash("empty_deck") \/ Crash("hand_overflow")
  BY <1>1, CrashStep
<1>2. ASSUME p.hand[cur].num < HandSlots, NEW s \in states,
             ChoiceApplied(u, choice,
                           [p EXCEPT !.hand[cur] = [WithCard(@) EXCEPT !.state = s]],
                           db, sk)
      PROVE  StepOK
  <2> DEFINE h == [WithCard(p.hand[cur]) EXCEPT !.state = s]
             q == [p EXCEPT !.hand[cur] = h]
  <2>1. cur \in Hands /\ p.hand[cur] \in Hand /\ s \in HandStates
    BY DEF UserRecord
  <2>2. h \in Hand /\ h.doubledown = p.hand[cur].doubledown
    <3>1. WithCard(p.hand[cur]) \in Hand
      BY <1>2, <2>1, WithCardType
    <3>2. WithCard(p.hand[cur]).doubledown = p.hand[cur].doubledown
      BY <2>1 DEF WithCard, Hand
    <3>3. QED
      BY <2>1, <3>1, <3>2 DEF Hand
  <2>3. ChoiceApplied(u, choice, q, db, sk)
    BY <1>2
  <2> HIDE DEF h
  <2>4. /\ q \in UserRecord /\ q.hand[cur] = h /\ q.curHand = p.curHand
        /\ q.bet = p.bet /\ q.money = p.money /\ q.gameState = p.gameState
        /\ \A i \in Hands : i # cur => q.hand[i] = p.hand[i]
    <3>1. q \in UserRecord
      BY <2>1, <2>2, HandReplacedType
    <3>2. QED
      BY <2>1, <3>1 DEF UserRecord
  <2> HIDE DEF q
  <2>5. PlayerOK(q, sk[u])
    BY <2>2, <2>4, PlayedPlayer
  <2>6. QED
    BY <2>3, <2>4, <2>5, AppliedStep
<1>3. QED
  BY <1>1, <1>2 DEF CardDrawn

\* The four choices
LEMMA ChoiceStep ==
  ASSUME LateChoices = FALSE, TypeOK, General, Timely, fault = "none", NEW u \in Users,
         Stand(u) \/ Hit(u) \/ DoubleDown(u) \/ Split(u)
  PROVE  StepOK
<1> DEFINE p == user[u]
           debited == Debited({u}, p.bet)
           more == [stake EXCEPT ![u] = stake[u] + p.bet]
<1>1. /\ p \in UserRecord /\ CurrentHand(p) \in Hand /\ p.bet \in Nat /\ p.money \in Int
      /\ chip \in [Users -> Int] /\ chip[u] \in Int
      /\ stake \in [Users -> Int] /\ stake[u] \in Int /\ p.curHand \in Hands
  BY DEF TypeOK, UserRecord, CurrentHand
<1>2. /\ debited \in [Users -> Int] /\ debited[u] = chip[u] - p.bet
      /\ \A w \in Users : w # u => debited[w] = chip[w]
      /\ more \in [Users -> Int] /\ more[u] = stake[u] + p.bet
      /\ \A w \in Users : w # u => more[w] = stake[w]
  BY <1>1 DEF Debited
<1>3. ASSUME NEW choice, ChoiceArrives(u, choice)
      PROVE  /\ p.gameState = "ACTIONING" /\ PlayerOK(p, stake[u])
             /\ choice \in buttons /\ ActorOK(p, buttons)
             /\ u \in Seated(userList)
  BY <1>3, ChooserActs
<1> HIDE DEF debited, more, p
<1>4. ASSUME ChoiceArrives(u, "STAND"),
             ChoiceApplied(u, "STAND",
                SwitchHandIfSplitExist([p EXCEPT !.hand[p.curHand].state = "STAND"]),
                chip, stake)
      PROVE  StepOK
  <2> DEFINE r == [p EXCEPT !.hand[p.curHand].state = "STAND"]
             q == SwitchHandIfSplitExist(r)
  <2>1. r \in UserRecord /\ q \in UserRecord
    BY <1>1, StoodType, SwitchType
  <2>2. /\ r.curHand = p.curHand /\ r.bet = p.bet /\ r.money = p.money
        /\ r.gameState = p.gameState
        /\ r.hand[p.curHand].doubledown = p.hand[p.curHand].doubledown
        /\ r.hand[p.curHand].state = "STAND"
        /\ \A i \in Hands : i # p.curHand => r.hand[i] = p.hand[i]
    BY <1>1 DEF UserRecord, Hand
  <2>3. ChoiceApplied(u, "STAND", q, chip, stake)
    BY <1>4
  <2> HIDE DEF r
  <2>4. PlayerOK(r, stake[u]) /\ r.gameState = "ACTIONING" /\ CurrentHand(r).state # "CURRENT"
    <3>1. p.gameState = "ACTIONING" /\ PlayerOK(p, stake[u])
      BY <1>3, <1>4
    <3>2. PlayerOK(r, stake[u])
      BY <1>1, <2>1, <2>2, <3>1, PlayedPlayer
    <3>3. QED
      BY <2>2, <3>1, <3>2 DEF CurrentHand
  <2>5. PlayerOK(q, stake[u]) /\ q.gameState \in {"ACTIONING", "ACTION_DONE"}
    BY <1>1, <2>1, <2>4, SwitchedPlayer
  <2>6. q.money = p.money /\ (q.curHand # p.curHand => q.curHand = 1 /\ q.hand[1].first)
    BY <2>1, <2>2, SwitchRecord
  <2> HIDE DEF q
  <2>7. QED
    BY <1>1, <1>4, <2>1, <2>3, <2>5, <2>6, AppliedStep DEF p
<1>5. ASSUME ChoiceArrives(u, "HIT"),
             CardDrawn(u, "HIT", p, AfterHit(CurrentHand(p)), chip, stake)
      PROVE  StepOK
  <2>1. AfterHit(CurrentHand(p)) \in SUBSET HandStates
    BY <1>1 DEF AfterHit, Hand, HandStates
  <2>2. p.gameState = "ACTIONING" /\ PlayerOK(p, stake[u])
    BY <1>3, <1>5
  <2>3. QED
    BY <1>1, <1>5, <2>1, <2>2, CardStep DEF p
<1>6. ASSUME ChoiceArrives(u, "DOUBLE_DOWN"),
             CardDrawn(u, "DOUBLE_DOWN", DoubledDown(p), AfterDoubleDown(CurrentHand(p)),
                       debited, more)
      PROVE  StepOK
  <2> DEFINE q == DoubledDown(p)
  <2>1. AfterDoubleDown(CurrentHand(p)) \in SUBSET HandStates /\ q \in UserRecord
    BY <1>1, DoubledDownType DEF AfterDoubleDown, HandStates
  <2>2. p.gameState = "ACTIONING" /\ PlayerOK(p, stake[u])
    BY <1>3, <1>6
  <2>3. /\ PlayerOK(q, more[u]) /\ q.gameState = "ACTIONING" /\ q.curHand = p.curHand
        /\ q.money = p.money - p.bet
    <3>1. PlayerOK(q, stake[u] + p.bet) /\ q.gameState = "ACTIONING" /\ q.curHand = p.curHand
          /\ q.money = p.money - p.bet
      BY <1>1, <2>2, DoubledPlayer
    <3>2. QED
      BY <1>2, <3>1
  <2>4. CardDrawn(u, "DOUBLE_DOWN", q, AfterDoubleDown(CurrentHand(p)), debited, more)
    BY <1>6
  <2> HIDE DEF q
  <2>5. /\ q.money + more[u] = p.money + stake[u]
        /\ q.money - debited[u] = p.money - chip[u]
    BY <1>1, <1>2, <2>3
  <2>6. QED
    BY <1>2, <1>6, <2>1, <2>3, <2>4, <2>5, CardStep DEF p
<1>7. ASSUME ChoiceArrives(u, "DOUBLE_DOWN"), ChoiceRefused PROVE StepOK
  <2>1. ActorReady(p)
    BY <1>3, <1>7 DEF ActorOK
  <2>2. QED
    BY <1>7, <2>1, RefusedStep DEF p
<1>8. ASSUME ChoiceArrives(u, "SPLIT"), ChoiceRefused PROVE StepOK
  <2>1. CurrentHand(p).first => CanSplit(p)
    BY <1>3, <1>8 DEF ActorOK
  <2>2. ActorReady(p)
    BY <2>1 DEF ActorReady, CanSplit
  <2>3. QED
    BY <1>8, <2>2, RefusedStep DEF p
<1>9. ASSUME ChoiceArrives(u, "SPLIT"), ~ p.isSplit, CanSplit(p),
             ChoiceApplied(u, "SPLIT", SplitUser(p), debited, more)
      PROVE  StepOK
  <2> DEFINE q == SplitUser(p)
  <2>1. q \in UserRecord
    BY <1>1, SplitType
  <2>2. p.gameState = "ACTIONING" /\ PlayerOK(p, stake[u]) /\ u \in Seated(userList)
    BY <1>3, <1>9
  <2>3. p.curHand = 0
    <3>1. RecordOK(p) /\ NoBlankPair(p)
      BY <2>2 DEF General, RecordsFit, BlanksTold, InRound, p
    <3>2. QED
      BY <1>1, <1>9, <3>1, SplitFindsCards
  <2>4. /\ PlayerOK(q, stake[u] + p.bet) /\ q.gameState = "ACTIONING" /\ q.curHand = p.curHand
        /\ q.money = p.money - p.bet
    BY <1>1, <2>2, <2>3, SplitPlayer
  <2>5. ChoiceApplied(u, "SPLIT", q, debited, more)
    BY <1>9
  <2> HIDE DEF q
  <2>6. /\ q.money + more[u] = p.money + stake[u]
        /\ q.money - debited[u] = p.money - chip[u]
        /\ PlayerOK(q, more[u])
    BY <1>1, <1>2, <2>4
  <2>7. QED
    BY <1>2, <1>9, <2>1, <2>4, <2>5, <2>6, AppliedStep DEF p
<1>10. ASSUME ChoiceArrives(u, "SPLIT"), ~ CanSplit(p),
              ChoiceApplied(u, "SPLIT", p, debited, stake)
       PROVE  StepOK
  <2>1. p.gameState = "ACTIONING" /\ PlayerOK(p, stake[u])
    BY <1>3, <1>10
  <2>2. OnBlanks(p)
    BY <1>3, <1>10 DEF ActorOK, OnBlanks
  <2>3. QED
    BY <1>1, <1>2, <1>10, <2>1, <2>2, AppliedStep DEF p
<1>11. CASE Stand(u)
  BY <1>4, <1>11 DEF Stand, p
<1>12. CASE Hit(u)
  BY <1>5, <1>12 DEF Hit, p
<1>13. CASE DoubleDown(u)
  BY <1>6, <1>7, <1>13 DEF DoubleDown, debited, more, p
<1>14. CASE Split(u)
  BY <1>8, <1>9, <1>10, <1>14 DEF Split, debited, more, p
<1>15. QED
  BY <1>11, <1>12, <1>13, <1>14

\* RunPostTimeAction: whoever is forced out of a turn leaves it to one who has
\* not played.
LEMMA TimerStep ==
  ASSUME TypeOK, RoomInv, General, Timely, fault = "none", TimerAction
  PROVE  StepOK
<1>1. /\ SeatingType(userList) /\ Seated(userList) \subseteq Users
      /\ chip \in [Users -> Int] /\ user \in [Users -> UserRecord]
      /\ stake \in [Users -> Int]
      /\ TurnsOK(userList, user, stake, roomState, dealt)
  BY SeatedType DEF TypeOK, SeatingType, Timely
<1>2. CASE BettingTimeout
  <2> DEFINE late == {u \in Seated(userList) : user[u].gameState = "BETTING"
                                               /\ user[u].money >= MinBet}
  <2>1. /\ late \in SUBSET Seated(userList) /\ BetsApplied(late, MinBet)
        /\ \A u \in late : user[u].gameState = "BETTING"
    BY <1>2 DEF BettingTimeout
  <2> HIDE DEF late
  <2>2. QED
    BY <2>1, BetAssumption, BetsStep
<1>3. ASSUME NEW us \in [Users -> UserRecord], NotifyChangeTurn(userList, us, chip),
             UNCHANGED <<userList, stake>>,
             TurnsOK(userList, us, stake, roomState, dealt),
             \A u \in Seated(userList) : us[u].gameState # "ACTIONING",
             \A u \in Seated(userList) : us[u].money = user[u].money
      PROVE  StepOK
  <2>1. \A u \in Seated(userList) : us[u].curHand \in {0, 1}
    BY <1>1, <1>3 DEF UserRecord, Hands
  <2>2. Ready(userList, us)
    <3>1. \A u \in Seated(userList) : PlayerOK(us[u], stake[u])
      BY <1>3 DEF TurnsOK
    <3>2. QED
      BY <1>3, <2>1, <3>1, ReadyWhenNobodyActs
  <2>3. Balanced(userList, us, chip, stake)
    BY <1>3 DEF Balanced
  <2>4. QED
    BY <1>1, <1>3, <2>2, <2>3, TurnStep
<1>4. CASE HandoutTimeout
  <2>1. \A u \in Seated(userList) : user[u].gameState # "ACTIONING"
    BY <1>1, <1>4 DEF HandoutTimeout, TurnsOK
  <2>2. QED
    BY <1>1, <1>3, <1>4, <2>1 DEF HandoutTimeout
<1>5. CASE TurnTimeout
  <2> DEFINE u  == userList[First(ActingSeats)]
             r  == ForceNextTurn(user[u])
             q  == AfterChoiceNtf(r)
             us == [user EXCEPT ![u] = q]
  <2>1. ActingSeats # {}
    BY <1>5 DEF RoomInv, SomebodyActs, TurnTimeout
  <2>2. NotifyChangeTurn(userList, us, chip) /\ UNCHANGED <<userList, stake>>
    BY <1>5, <2>1 DEF TurnTimeout
  <2>3. u \in Seated(userList) /\ user[u].gameState = "ACTIONING" /\ u \in Users
    <3>1. First(ActingSeats) \in ActingSeats
      BY <2>1, FirstIsMember DEF ActingSeats
    <3>2. QED
      BY <1>1, <3>1 DEF ActingSeats, Seated
  <2>4. user[u] \in UserRecord /\ r \in UserRecord
    <3>1. user[u] \in UserRecord
      BY <1>1, <2>3
    <3>2. QED
      BY <3>1, StoodType
  <2> DEFINE p == user[u]
  <2>5. /\ r.curHand = p.curHand /\ r.bet = p.bet /\ r.money = p.money
        /\ r.gameState = "ACTION_DONE"
        /\ r.hand[p.curHand].doubledown = p.hand[p.curHand].doubledown
        /\ r.hand[p.curHand].state = "STAND"
        /\ \A i \in Hands : i # p.curHand => r.hand[i] = p.hand[i]
    <3> HIDE DEF p, u
    <3>1. p \in UserRecord
      BY <2>4 DEF p
    <3>2. /\ ForceNextTurn(p).curHand = p.curHand /\ ForceNextTurn(p).bet = p.bet
          /\ ForceNextTurn(p).money = p.money
          /\ ForceNextTurn(p).gameState = "ACTION_DONE"
          /\ ForceNextTurn(p).hand[p.curHand].doubledown = p.hand[p.curHand].doubledown
          /\ ForceNextTurn(p).hand[p.curHand].state = "STAND"
          /\ \A i \in Hands : i # p.curHand => ForceNextTurn(p).hand[i] = p.hand[i]
      BY <3>1 DEF ForceNextTurn, UserRecord, Hand
    <3>3. QED
      BY <3>2 DEF p
  <2>6. p \in UserRecord /\ p.gameState = "ACTIONING" /\ PlayerOK(p, stake[u]) /\ stake[u] \in Int
    BY <1>1, <2>3, <2>4 DEF TurnsOK
  <2> HIDE DEF r, p, u
  <2>7. PlayerOK(r, stake[u])
    BY <2>4, <2>5, <2>6, PlayedPlayer
  <2>8. /\ q \in UserRecord /\ PlayerOK(q, stake[u]) /\ q.money = p.money
        /\ q.gameState = "ACTION_DONE"
    <3>1. q \in UserRecord /\ PlayerOK(q, stake[u])
      BY <2>4, <2>5, <2>6, <2>7, SwitchType, NotifiedPlayer
    <3>2. q.money = p.money /\ q.gameState = "ACTION_DONE"
      BY <2>4, <2>5, NotifiedRecord
    <3>3. QED
      BY <3>1, <3>2
  <2> HIDE DEF q
  <2>9. us \in [Users -> UserRecord] /\ us[u] = q /\ \A w \in Users : w # u => us[w] = user[w]
    BY <1>1, <2>3, <2>8
  <2> HIDE DEF us
  <2>10. \A w \in Seated(userList) : us[w].gameState # "ACTIONING"
    BY <1>1, <2>3, <2>8, <2>9 DEF TurnsOK
  <2>11. TurnsOK(userList, us, stake, roomState, dealt)
    <3>1. \A w \in Seated(userList) : PlayerOK(us[w], stake[w])
      BY <1>1, <2>8, <2>9 DEF TurnsOK
    <3>2. \A w \in Seated(userList) : InRound(us[w]) => dealt
      BY <1>1, <2>3, <2>8, <2>9 DEF TurnsOK, InRound
    <3>3. QED
      BY <2>10, <3>1, <3>2 DEF TurnsOK
  <2>12. \A w \in Seated(userList) : us[w].money = user[w].money
    BY <1>1, <2>8, <2>9 DEF p
  <2>13. QED
    BY <1>3, <2>2, <2>9, <2>10, <2>11, <2>12
<1>6. CASE RestartTimeout
  <2>1. /\ SetRoomStateToWaiting(userList, user, userCount) /\ roomState = "CALCULATE"
        /\ stake' = [u \in Users |-> 0] /\ chip' = chip
    BY <1>6 DEF RestartTimeout
  <2>2. dealt = FALSE
    BY <2>1 DEF RoomInv, DeckMatchesState, TypeOK
  <2>3. \A u \in Seated(userList) : /\ Untouched(user[u].hand[0]) /\ Untouched(user[u].hand[1])
                                    /\ 0 <= stake'[u]
    <3>1. \A u \in Users : stake'[u] = 0
      BY <2>1
    <3>2. \A u \in Seated(userList) : Untouched(user[u].hand[0]) /\ Untouched(user[u].hand[1])
      BY <2>2, NobodyInRound
    <3>3. QED
      BY <1>1, <3>1, <3>2
  <2>4. stake' \in [Users -> Int]
    BY <2>1
  <2>5. /\ TurnsOK(userList', user', stake', roomState', dealt')
        /\ ActorsOK(userList', user', buttons')
        /\ roomState' # "CALCULATE"
        /\ \A u \in Seated(userList') : user'[u].money = user[u].money
    BY <1>1, <2>1, <2>3, <2>4, WaitingTurns
  <2>6. DriftStep
    BY <2>1, <2>5 DEF DriftStep
  <2>7. QED
    BY <2>5, <2>6, QuietStep
<1>7. QED
  BY <1>2, <1>4, <1>5, <1>6 DEF TimerAction

\* A fresh room has no players.
LEMMA InitTimely == Init => Timely
<1> SUFFICES ASSUME Init PROVE Timely
  OBVIOUS
<1>1. Seated(userList) = {}
  BY DEF Init, Seated
<1>2. QED
  BY <1>1 DEF Timely, TurnsOK, ActorsOK

\* Every step of a room whose choices are handled on their senders' turns
LEMMA EveryStep ==
  ASSUME LateChoices = FALSE
  PROVE  TypeOK /\ RoomInv /\ General /\ Timely /\ [Next]_vars => StepOK
<1> SUFFICES ASSUME TypeOK, RoomInv, General, Timely, [Next]_vars PROVE StepOK
  OBVIOUS
<1>1. ASSUME NEW u \in Users, fault = "none", UserAction(u) PROVE StepOK
  <2>1. CASE EnterUser(u)
    BY <1>1, <2>1, EnterStep
  <2>2. CASE CloseSession(u)
    BY <1>1, <2>2, CloseStep
  <2>3. CASE ChoiceAfterKick(u)
    BY <2>3, CrashStep DEF ChoiceAfterKick
  <2>4. CASE Stand(u) \/ Hit(u) \/ DoubleDown(u) \/ Split(u)
    BY <1>1, <2>4, ChoiceStep
  <2>5. ASSUME NEW money \in Bets, GameBet(u, money) PROVE StepOK
    <3> DEFINE amount == IF money < MinBet THEN MinBet ELSE money
    <3>1. amount \in Nat
      BY ChipsAssumption, BetAssumption
    <3>2. /\ BetsApplied({u}, amount) /\ {u} \in SUBSET Seated(userList)
          /\ \A w \in {u} : user[w].gameState = "BETTING"
      BY <2>5 DEF GameBet
    <3>3. QED
      BY <1>1, <3>1, <3>2, BetsStep
  <2>6. ASSUME NEW choice \in Choices, SendChoice(u, choice) PROVE StepOK
    BY <2>6 DEF SendChoice
  <2>7. QED
    BY <1>1, <2>1, <2>2, <2>3, <2>4, <2>5, <2>6 DEF UserAction
<1>2. CASE fault = "none" /\ TimerAction
  BY <1>2, TimerStep
<1>3. CASE UNCHANGED vars
  <2>1. UNCHANGED <<roomState, userList, dealt, user, chip, buttons, fault, stake>>
    BY <1>3 DEF vars
  <2>2. QED
    BY <2>1, QuietStep DEF Timely, DriftStep
<1>4. QED
  BY <1>1, <1>2, <1>3 DEF Next, Running, Halted

\* The invariant behind the theorems below
LEMMA TimelyInvariant ==
  ASSUME LateChoices = FALSE
  PROVE  Spec => [](TypeOK /\ RoomInv /\ General /\ Timely)
<1>1. Init => TypeOK /\ RoomInv /\ General /\ Timely
  BY InitType, InitInv, InitGeneral, InitTimely
<1>2. TypeOK /\ RoomInv /\ General /\ Timely /\ [Next]_vars
        => (TypeOK /\ RoomInv /\ General /\ Timely)'
  BY NextType, NextInv, NextGeneral, EveryStep DEF StepOK
<1>3. QED
  BY <1>1, <1>2, PTL DEF Spec

-----------------------------------------------------------------------------
\* As long as choices are handled on their senders' turns, a step changes what
\* the room and the database hold for a seated player by the same amount, unless
\* that player acts on a hand without a first card.
THEOREM DriftsOnlyOnBlanks ==
  ASSUME LateChoices = FALSE
  PROVE  Spec => DriftOnlyOnBlanks
<1>1. TypeOK /\ RoomInv /\ General /\ Timely /\ [Next]_vars =>
        [\A u \in Seated(userList) \cap Seated(userList') :
           \/ user'[u].money - chip'[u] = user[u].money - chip[u]
           \/ OnBlanks(user[u])]_vars
  BY EveryStep DEF StepOK, DriftStep
<1>2. QED
  BY <1>1, TimelyInvariant, PTL DEF Spec, DriftOnlyOnBlanks

\* And no game pays anybody more than three times what that player paid for it:
\* nobody is paid who did not bet, did not double or did not split.
THEOREM PaysOnlyStakes ==
  ASSUME LateChoices = FALSE
  PROVE  Spec => PayoutNeedsStake
<1>1. TypeOK /\ RoomInv /\ General /\ Timely /\ [Next]_vars =>
        [roomState' = "CALCULATE" /\ roomState # "CALCULATE" =>
           \A u \in Seated(userList') : Earned(u) <= 3 * stake'[u]]_vars
  BY EveryStep DEF StepOK, PayStep
<1>2. QED
  BY <1>1, TimelyInvariant, PTL DEF Spec, PayoutNeedsStake

-----------------------------------------------------------------------------
(* The deck                                                                *)

\* With a deck on the table passing the turn draws no card from an empty one.
LEMMA TurnWithDeck ==
  ASSUME NEW ul, NEW us, NEW db, NotifyChangeTurn(ul, us, db) \/ EndOfGame(ul, us, db), dealt
  PROVE  fault' = fault \/ fault' = "dealer_overflow"
BY DEF NotifyChangeTurn, EndOfGame, Settled, Broken

\* A choice handled on its sender's turn finds the deck.
LEMMA ChooserHasDeck ==
  ASSUME LateChoices = FALSE, TypeOK, General, NEW u \in Users, NEW choice,
         ChoiceArrives(u, choice)
  PROVE  dealt
<1>1. Offered(u, choice) /\ u \in Seated(userList)
  BY DEF ChoiceArrives
<1>2. user[u].gameState \in ToPlay
  BY <1>1 DEF Offered, ToPlay
<1>3. QED
  BY <1>1, <1>2 DEF General, PlayersHaveDeck

\* No step of such a room draws from an empty deck.
LEMMA DeckStep ==
  ASSUME LateChoices = FALSE, TypeOK, RoomInv, General, DeckNotEmptyWhenDrawn, [Next]_vars
  PROVE  DeckNotEmptyWhenDrawn'
<1>1. ASSUME NEW u \in Users, EnterUser(u) PROVE fault' = fault \/ fault' = "null_room"
  BY <1>1 DEF EnterUser, SetRoomStateToWaiting
<1>2. ASSUME NEW u \in Users, CloseSession(u) PROVE fault' = fault \/ fault' = "dealer_overflow"
  <2>1. CASE u \in Seated(userList) /\ LeaveRoom(u)
    <3>1. OnTurn(u) => dealt
      BY <2>1 DEF OnTurn, General, PlayersHaveDeck, ToPlay
    <3>2. QED
      BY <2>1, <3>1, TurnWithDeck DEF LeaveRoom
  <2>2. QED
    BY <1>2, <2>1 DEF CloseSession
<1>3. ASSUME NEW u \in Users, ChoiceAfterKick(u) PROVE fault' = "null_room"
  BY <1>3 DEF ChoiceAfterKick, Crash
<1>4. ASSUME NEW u \in Users, NEW choice, NEW p, NEW db, NEW sk, dealt,
             ChoiceApplied(u, choice, p, db, sk)
      PROVE  fault' = fault \/ fault' = "dealer_overflow"
  BY <1>4, TurnWithDeck DEF ChoiceApplied
<1>5. ASSUME dealt, ChoiceRefused PROVE fault' = fault \/ fault' = "dealer_overflow"
  BY <1>5, TurnWithDeck DEF ChoiceRefused
<1>6. ASSUME NEW u \in Users, NEW choice, NEW p, NEW states, NEW db, NEW sk, dealt,
             CardDrawn(u, choice, p, states, db, sk)
      PROVE  fault' = fault \/ fault' \in {"dealer_overflow", "hand_overflow"}
  BY <1>4, <1>6 DEF CardDrawn, Crash
<1>7. ASSUME NEW u \in Users, Stand(u) \/ Hit(u) \/ DoubleDown(u) \/ Split(u)
      PROVE  fault' = fault \/ fault' \in {"dealer_overflow", "hand_overflow"}
  <2>1. CASE Stand(u)
    BY <1>4, <2>1, ChooserHasDeck DEF Stand
  <2>2. CASE Hit(u)
    BY <1>6, <2>2, ChooserHasDeck DEF Hit
  <2>3. CASE DoubleDown(u)
    BY <1>5, <1>6, <2>3, ChooserHasDeck DEF DoubleDown
  <2>4. CASE Split(u)
    BY <1>4, <1>5, <2>4, ChooserHasDeck DEF Split
  <2>5. QED
    BY <1>7, <2>1, <2>2, <2>3, <2>4
<1>8. ASSUME NEW bettors, NEW amount, BetsApplied(bettors, amount)
      PROVE  fault' = fault \/ fault' = "hand_overflow"
  BY <1>8 DEF BetsApplied, NotifyStartGame
<1>9. ASSUME TimerAction PROVE fault' = fault \/ fault' \in {"dealer_overflow", "hand_overflow"}
  <2>1. CASE BettingTimeout
    BY <1>8, <2>1 DEF BettingTimeout
  <2>2. CASE HandoutTimeout
    BY <2>2, TurnWithDeck DEF HandoutTimeout, RoomInv, DeckMatchesState
  <2>3. CASE TurnTimeout
    BY <2>3, TurnWithDeck DEF TurnTimeout, RoomInv, DeckMatchesState
  <2>4. CASE RestartTimeout
    BY <2>4 DEF RestartTimeout
  <2>5. QED
    BY <1>9, <2>1, <2>2, <2>3, <2>4 DEF TimerAction
<1>10. ASSUME NEW u \in Users, UserAction(u) PROVE DeckNotEmptyWhenDrawn'
  <2>1. ASSUME NEW money \in Bets, GameBet(u, money) PROVE fault' = fault \/ fault' = "hand_overflow"
    BY <1>8, <2>1 DEF GameBet
  <2>2. ASSUME NEW choice \in Choices, SendChoice(u, choice) PROVE fault' = fault
    BY <2>2 DEF SendChoice
  <2>3. QED
    BY <1>1, <1>2, <1>3, <1>7, <1>10, <2>1, <2>2 DEF UserAction, DeckNotEmptyWhenDrawn
<1>11. CASE TimerAction
  BY <1>9, <1>11 DEF DeckNotEmptyWhenDrawn
<1>12. CASE UNCHANGED vars
  BY <1>12 DEF vars, DeckNotEmptyWhenDrawn
<1>13. QED
  BY <1>10, <1>11, <1>12 DEF Next, Running, Halted

\* As long as choices are handled on their senders' turns no handler draws a card
\* from a deck that has been cleared.
THEOREM DeckNeverDrawnEmpty ==
  ASSUME LateChoices = FALSE
  PROVE  Spec => []DeckNotEmptyWhenDrawn
<1>1. Init => DeckNotEmptyWhenDrawn
  BY DEF Init, DeckNotEmptyWhenDrawn
<1>2. TypeOK /\ RoomInv /\ General /\ DeckNotEmptyWhenDrawn /\ [Next]_vars
        => DeckNotEmptyWhenDrawn'
  BY DeckStep
<1>3. QED
  BY <1>1, <1>2, GeneralInvariant, PTL DEF Spec

-----------------------------------------------------------------------------
\* A room with its timers does what a room may do, so that everything proved of
\* Spec holds of TimedSpec, the specification the run room_live checks.
THEOREM TimedRoomIsARoom == TimedSpec => Spec
<1>1. TimedInit => Init
  BY DEF TimedInit
<1>2. ASSUME [TimedNext]_timedVars PROVE [Next]_vars
  <2>1. ASSUME NEW u \in Users, TimedUser(u) PROVE Running
    <3>1. UserAction(u)
      BY <2>1 DEF TimedUser, TimedEnter, TimedClose, TimedBet, TimedChoice, TimedClient,
                  UserAction
    <3>2. QED
      BY <2>1, <3>1 DEF TimedUser, Running
  <2>2. CASE TimedTimer
    BY <2>2 DEF TimedTimer, TimerAction, Running, Next
  <2>3. CASE WaitOver \/ TimedHalted \/ UNCHANGED timedVars
    BY <2>3 DEF WaitOver, TimedHalted, Halted, timedVars
  <2>4. QED
    BY <1>2, <2>1, <2>2, <2>3 DEF TimedNext, Next
<1>3. [TimedNext]_timedVars => [Next]_vars
  BY <1>2
<1>4. QED
  BY <1>1, <1>3, PTL DEF TimedSpec, Spec
=============================================================================
