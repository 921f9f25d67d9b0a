------------------------------- MODULE GameRoom -------------------------------
(***************************************************************************)
(* One blackjack room of the channel server (GameServer/Room.cpp), with    *)
(* the players seated in it (User.cpp), the dealer's deck (Dealer.cpp),    *)
(* the timers of RoomManager::RunPostTimeAction and the packet handlers    *)
(* that reach the room.                                                    *)
(*                                                                         *)
(* The logic thread runs every handler to completion, so each handler is   *)
(* one action, all the calls it makes included.  What the cards of a hand  *)
(* amount to is abstracted as module HandOfCards says.                     *)
(***************************************************************************)
EXTENDS HandOfCards, FiniteSets

CONSTANTS
  Users,        \* User objects of the pool that play in this room
  NoUser,       \* nullptr in m_userList
  MaxSeats,     \* MAX_USERCOUNT_PER_ROOM
  MinBet,       \* ServerConfig::minBet
  MaxBet,       \* ServerConfig::maxBet
  Chips,        \* what a user's row of the database may hold at the start
  Bets,         \* amounts the clients ask to bet
  DebtBound,    \* bound: a refused split is followed while chip >= -DebtBound
  LateChoices   \* TRUE: a choice may reach the room long after it was sent

ASSUME UsersAssumption  == IsFiniteSet(Users) /\ NoUser \notin Users
ASSUME SeatsAssumption  == MaxSeats \in Nat \ {0}
ASSUME BetAssumption    == MinBet \in Nat /\ MaxBet \in Nat /\ MinBet <= MaxBet
ASSUME ChipsAssumption  == Chips \subseteq Nat /\ Bets \subseteq Nat
ASSUME BoundAssumption  == DebtBound \in Nat
ASSUME LateAssumption   == LateChoices \in BOOLEAN

VARIABLES
  roomState,    \* m_currentRoomState
  userList,     \* m_userList
  userCount,    \* m_currentUserCount
  dealt,        \* the dealer holds a deck and cards (Dealer::Init ran, Clear did not)
  user,         \* the User objects
  chip,         \* user.chip in the database, once every queued job has run
  connected,    \* users whose session is open
  buttons,      \* choices the client of the player on turn has enabled (GameScene)
  sent,         \* choice a user's client has sent and the room has not handled
  fault,        \* the undefined behaviour the server ran into, or "none"
  stake         \* auxiliary: what a seated user paid in memory since the last settlement

vars == <<roomState, userList, userCount, dealt, user, chip, connected, buttons,
          sent, fault, stake>>

RoomStates == {"NONE", "WAITING", "HANDOUT", "INGAME", "CALCULATE"}
GameStates == {"NONE", "WAITING", "BETTING", "BET_DONE",
               "ACTION_WAITING", "ACTIONING", "ACTION_DONE"}
Choices == {"STAND", "HIT", "DOUBLE_DOWN", "SPLIT"}
Faults == {"none", "null_room", "empty_deck", "hand_overflow", "dealer_overflow"}

Seats == 0 .. (MaxSeats - 1)
Hands == 0 .. 1                                             \* MAX_HAND = 2

UserRecord == [gameState : GameStates, money : Int, bet : Nat,
               curHand : Hands, isSplit : BOOLEAN, hand : [Hands -> Hand]]

NewUser == [gameState |-> "NONE", money |-> 0, bet |-> 0, curHand |-> 0,
            isSplit |-> FALSE, hand |-> [h \in Hands |-> EmptyHand]]

Seated(ul) == {ul[s] : s \in Seats} \ {NoUser}
First(S) == CHOOSE s \in S : \A t \in S : s <= t

Init ==
  /\ roomState = "NONE"
  /\ userList = [s \in Seats |-> NoUser]
  /\ userCount = 0
  /\ dealt = FALSE
  /\ user = [u \in Users |-> NewUser]
  /\ chip \in [Users -> Chips]
  /\ connected = {}
  /\ buttons = {}
  /\ sent = [u \in Users |-> "none"]
  /\ fault = "none"
  /\ stake = [u \in Users |-> 0]

-----------------------------------------------------------------------------
(* Operations of a User                                                    *)

\* User::InitHand: the cards and flags of both hands, not m_curCardNum
InitHand(p) ==
  [h \in Hands |-> [state |-> "CURRENT", num |-> p.hand[h].num,
                    first |-> FALSE, doubledown |-> FALSE]]

\* User::Init followed by User::EnterRoom
LoggedIn(p, money) ==
  [p EXCEPT !.money = money, !.hand = InitHand(p), !.gameState = "WAITING"]

\* Mutant: the card counts survive the game
ResetKeepsCounts(p) ==
  [p EXCEPT !.hand = InitHand(p), !.curHand = 0, !.isSplit = FALSE,
            !.gameState = "WAITING"]

ResetForNextGame(p) ==
  [p EXCEPT !.hand = [h \in Hands |-> EmptyHand], !.curHand = 0,
            !.isSplit = FALSE, !.gameState = "WAITING"]

CurrentHand(p) == p.hand[p.curHand]

SwitchHandIfSplitExist(p) ==
  IF p.isSplit /\ p.curHand = 0 /\ p.hand[1].first
  THEN [p EXCEPT !.curHand = 1]
  ELSE [p EXCEPT !.gameState = "ACTION_DONE"]

\* the part of Room::NotifyGameChoice that changes the user
AfterChoiceNtf(p) ==
  IF CurrentHand(p).state # "CURRENT" THEN SwitchHandIfSplitExist(p) ELSE p

CanDoubleDown(p) == p.bet <= p.money /\ CurrentHand(p).num = 2
CanSplit(p) == p.bet <= p.money /\ CurrentHand(p).num = 2

DoubledDown(p) ==
  [p EXCEPT !.money = @ - p.bet, !.hand[p.curHand].doubledown = TRUE]

\* User::Split: hand 0 keeps its first card, the second one opens hand 1
SplitUser(p) ==
  [p EXCEPT !.isSplit = TRUE, !.money = @ - p.bet,
            !.hand[p.curHand].num = 1,
            !.hand[1].num = 1, !.hand[1].first = TRUE]

-----------------------------------------------------------------------------
(* Settling a game: Room::EndOfGame                                        *)

\* CalculateEarnMoney: only the hands up to the current one count
EarnMoney(d, p) ==
  {p.bet * (first + second) :
     first  \in Factors(d, p.hand[0]),
     second \in IF p.curHand = 1 THEN Factors(d, p.hand[1]) ELSE {0}}

\* Mutant: the deck is not cleared
RoomResetKeepsDeck == roomState' = "CALCULATE" /\ UNCHANGED dealt

\* Room::ResetForNextGame, the room's part
RoomReset == roomState' = "CALCULATE" /\ dealt' = FALSE

\* The players in seats ul are paid, the database is told, the room resets.
Settled(ul, us, db, earn) ==
  /\ user' = [u \in Users |->
                IF u \in Seated(ul)
                THEN [ResetForNextGame(us[u]) EXCEPT !.money = @ + earn[u]]
                ELSE us[u]]
  /\ chip' = [u \in Users |-> IF u \in Seated(ul) THEN db[u] + earn[u] ELSE db[u]]
  /\ buttons' = {}
  /\ RoomReset
  /\ UNCHANGED fault

\* What a handler that runs into undefined behaviour has done until then
Broken(reason, us, db) ==
  /\ fault' = reason
  /\ user' = us
  /\ chip' = db
  /\ UNCHANGED <<roomState, dealt, buttons>>

\* The dealer, who draws below 17, may need more cards than its hand has slots.
EndOfGame(ul, us, db) ==
  \/ \E d \in DealerStates :
       \E earn \in [Seated(ul) -> UNION {EarnMoney(d, us[u]) : u \in Seated(ul)}] :
         /\ \A u \in Seated(ul) : earn[u] \in EarnMoney(d, us[u])
         /\ Settled(ul, us, db, earn)
  \/ Broken("dealer_overflow", us, db)

-----------------------------------------------------------------------------
(* Whose turn it is: GetNextPlayerSeatAndHand and NotifyChangeTurn          *)

Playable(p) == /\ p.gameState \in {"ACTION_WAITING", "ACTIONING"}
               /\ CurrentHand(p).state = "CURRENT"

PlayableSeats(ul, us) == {s \in Seats : ul[s] # NoUser /\ Playable(us[ul[s]])}

NextUser(ul, us) == ul[First(PlayableSeats(ul, us))]

\* The seat found is marked ACTIONING even when nobody is notified.
TurnGiven(ul, us) == [us EXCEPT ![NextUser(ul, us)].gameState = "ACTIONING"]

\* The buttons GAME_CHANGE_TURN_NTF enables.  A split needs a pair, which two
\* cards of unknown value may be, and so are the two blanks the client shows of
\* a hand whose first slot is empty; that hand cannot be doubled down.
ButtonsOnTurn(p) ==
  LET cards == CurrentHand(p).first /\ CurrentHand(p).num >= 2
      pair  == cards \/ ~ CurrentHand(p).first
  IN {"STAND", "HIT"}
       \cup (IF p.bet <= p.money /\ cards THEN {"DOUBLE_DOWN"} ELSE {})
       \cup (IF p.bet <= p.money /\ pair /\ ~ p.hand[1].first THEN {"SPLIT"} ELSE {})

\* The turn is announced, or the game ends.  A dealer whose deck is empty draws
\* the front of an empty deque.
NotifyChangeTurn(ul, us, db) ==
  \/ /\ PlayableSeats(ul, us) # {}
     /\ user' = TurnGiven(ul, us)
     /\ chip' = db
     /\ roomState' = IF roomState = "HANDOUT" THEN "INGAME" ELSE roomState
     /\ buttons' = ButtonsOnTurn(us[NextUser(ul, us)])
     /\ UNCHANGED <<dealt, fault>>
  \/ /\ PlayableSeats(ul, us) = {}
     /\ dealt
     /\ EndOfGame(ul, us, db)
  \/ /\ PlayableSeats(ul, us) = {}
     /\ ~ dealt
     /\ Broken("empty_deck", us, db)

-----------------------------------------------------------------------------
(* Entering and leaving                                                    *)

OutOfMoneyRange(p) == p.money < MinBet \/ p.money > MaxBet

Kicked(ul, us) == {u \in Seated(ul) : OutOfMoneyRange(us[u])}

\* Mutant: a room everybody was kicked from goes on waiting
StateStaysWaiting(left) == "WAITING"

StateWithUsers(left) == IF left = 0 THEN "NONE" ELSE "WAITING"

\* Room::SetRoomStateToWaiting over seats ul of n users: players whose money
\* is out of range are kicked (LeaveRoom), every other one has to bet.
SetRoomStateToWaiting(ul, us, n) ==
  LET out  == Kicked(ul, us)
      left == n - Cardinality(out)
  IN /\ userList' = [s \in Seats |-> IF ul[s] \in out THEN NoUser ELSE ul[s]]
     /\ userCount' = left
     /\ user' = [u \in Users |-> IF u \in Seated(ul) \ out
                                 THEN [us[u] EXCEPT !.gameState = "BETTING"]
                                 ELSE us[u]]
     /\ roomState' = StateWithUsers(left)
     /\ dealt' = (dealt /\ left # 0)

\* DBProcess::GetUserByAuthProcess on a successful read, RoomManager::EnterUser
\* and Room::EnterUser.  A session index that is used again finds the User
\* object of its former owner, so the record of u is whatever was left in it.
\* When the room kicks the user who enters, GetRoomBySessionIndex finds no room
\* and NotifyEnterUserInfo runs on a null pointer.
EnterUser(u) ==
  LET seat == First({s \in Seats : userList[s] = NoUser})
      ul   == [userList EXCEPT ![seat] = u]
      us   == [user EXCEPT ![u] = LoggedIn(@, chip[u])]
  IN /\ u \notin connected
     /\ userCount < MaxSeats
     /\ connected' = connected \cup {u}
     /\ stake' = [stake EXCEPT ![u] = 0]
     /\ UNCHANGED <<chip, buttons, sent>>
     /\ \/ /\ roomState \in {"NONE", "WAITING"}
           /\ SetRoomStateToWaiting(ul, us, userCount + 1)
           /\ fault' = IF u \in Kicked(ul, us) THEN "null_room" ELSE fault
        \/ /\ roomState \notin {"NONE", "WAITING"}
           /\ userList' = ul
           /\ userCount' = userCount + 1
           /\ user' = us
           /\ UNCHANGED <<roomState, dealt, fault>>

\* Mutant: the seat is not given back
SeatKept(u) == userList

SeatGivenBack(u) == [s \in Seats |-> IF userList[s] = u THEN NoUser ELSE userList[s]]

\* Mutant: the turn of a user who leaves is not passed on
NeverOnTurn(u) == FALSE

OnTurn(u) == user[u].gameState = "ACTIONING"

\* Room::LeaveRoom
LeaveRoom(u) ==
  LET ul == SeatGivenBack(u)
      done == [user EXCEPT ![u].gameState = "ACTION_DONE"]
  IN /\ userList' = ul
     /\ userCount' = userCount - 1
     /\ stake' = [stake EXCEPT ![u] = 0]
     /\ \/ /\ userCount = 1
           /\ roomState' = "NONE"
           /\ dealt' = FALSE
           /\ buttons' = {}
           /\ UNCHANGED <<user, chip, fault>>
        \/ /\ userCount # 1
           /\ OnTurn(u)
           /\ NotifyChangeTurn(ul, done, chip)
        \/ /\ userCount # 1
           /\ ~ OnTurn(u)
           /\ UNCHANGED <<roomState, dealt, user, chip, buttons, fault>>

\* PacketProcess::NtfSysCloseSesson: the User object is not cleared
CloseSession(u) ==
  /\ u \in connected
  /\ connected' = connected \ {u}
  /\ sent' = [sent EXCEPT ![u] = "none"]
  /\ \/ /\ u \in Seated(userList)
        /\ LeaveRoom(u)
     \/ /\ u \notin Seated(userList)
        /\ UNCHANGED <<roomState, userList, userCount, dealt, user, chip, buttons,
                       fault, stake>>

-----------------------------------------------------------------------------
(* Betting                                                                 *)

BetPlaced(p, money) ==
  [p EXCEPT !.money = @ - money, !.bet = money, !.gameState = "BET_DONE"]

AllBetDone(ul, us) == \A u \in Seated(ul) : us[u].gameState = "BET_DONE"

\* Dealer::Init deals hand 0 of every player.
Dealt(p, blackjack) ==
  [p EXCEPT !.gameState = "ACTION_WAITING", !.hand[0] = DealtHand(@, blackjack)]

\* Mutant: the deck is not filled
StartedWithoutDeck == roomState' = "HANDOUT" /\ UNCHANGED dealt

GameStarted == roomState' = "HANDOUT" /\ dealt' = TRUE

\* Room::NotifyStartGame
NotifyStartGame(us) ==
  IF \A u \in Seated(userList) : us[u].hand[0].num + 2 <= HandSlots
  THEN \E lucky \in SUBSET {u \in Seated(userList) : us[u].hand[0].num = 0} :
         /\ user' = [u \in Users |-> IF u \in Seated(userList)
                                     THEN Dealt(us[u], u \in lucky) ELSE us[u]]
         /\ GameStarted
         /\ UNCHANGED fault
  ELSE /\ fault' = "hand_overflow"
       /\ user' = us
       /\ UNCHANGED <<roomState, dealt>>

\* Mutant: the database is not told
NotDebited(payers, amount) == chip

\* DBmanager::SubmitUserEarnMoney of what the payers owe
Debited(payers, amount) ==
  [u \in Users |-> IF u \in payers THEN chip[u] - amount ELSE chip[u]]

\* What follows once the users of bettors have paid amount
BetsApplied(bettors, amount) ==
  LET us == [u \in Users |-> IF u \in bettors THEN BetPlaced(user[u], amount)
                                              ELSE user[u]]
  IN /\ chip' = Debited(bettors, amount)
     /\ stake' = [u \in Users |-> IF u \in bettors THEN stake[u] + amount ELSE stake[u]]
     /\ UNCHANGED <<userList, userCount, connected, buttons>>
     /\ \/ AllBetDone(userList, us) /\ NotifyStartGame(us)
        \/ /\ ~ AllBetDone(userList, us)
           /\ user' = us
           /\ UNCHANGED <<roomState, dealt, fault>>

\* PacketProcess::GameBet, Room::ApplyBet.  A bet out of turn or above the
\* user's money is refused and changes nothing.  One client's packets arrive in
\* the order it sent them.
GameBet(u, money) ==
  LET amount == IF money < MinBet THEN MinBet ELSE money
  IN /\ u \in Seated(userList)
     /\ sent[u] = "none"
     /\ user[u].gameState = "BETTING"
     /\ amount <= user[u].money
     /\ BetsApplied({u}, amount)
     /\ UNCHANGED sent

-----------------------------------------------------------------------------
(* Choices: PacketProcess::GameChoice, Room::ApplyChoice                   *)

\* The client of the player whose turn was announced last has buttons enabled.
Offered(u, choice) ==
  /\ PlayableSeats(userList, user) # {}
  /\ u = NextUser(userList, user)
  /\ user[u].gameState = "ACTIONING"
  /\ choice \in buttons

\* A click disables the buttons; one choice of a client is under way at a time.
SendChoice(u, choice) ==
  /\ LateChoices
  /\ sent[u] = "none"
  /\ Offered(u, choice)
  /\ sent' = [sent EXCEPT ![u] = choice]
  /\ buttons' = {}
  /\ UNCHANGED <<roomState, userList, userCount, dealt, user, chip, connected,
                 fault, stake>>

\* The handler looks neither at the turn nor at the state of the room.
ChoiceArrives(u, choice) ==
  /\ u \in Seated(userList)
  /\ IF LateChoices THEN sent[u] = choice ELSE Offered(u, choice)
  /\ sent' = [sent EXCEPT ![u] = "none"]

\* The buttons GAME_CHOICE_NTF leaves enabled for the player who chose
ButtonsAfter(choice, p) ==
  {"STAND", "HIT"}
    \cup (IF choice = "HIT" /\ (CurrentHand(p).num <= 2 \/ ~ CurrentHand(p).first)
          THEN {"DOUBLE_DOWN"} ELSE {})

\* After a choice that succeeded: NotifyGameChoice, then the turn is passed on
\* and announced only when the seat or the hand to play is another one.
ChoiceApplied(u, choice, p, db, sk) ==
  LET us == [user EXCEPT ![u] = AfterChoiceNtf(p)]
      sameTurn == /\ PlayableSeats(userList, us) # {}
                  /\ NextUser(userList, us) = u
                  /\ us[u].curHand = user[u].curHand
  IN /\ stake' = sk
     /\ UNCHANGED <<userList, userCount, connected>>
     /\ \/ /\ sameTurn
           /\ user' = TurnGiven(userList, us)
           /\ chip' = db
           /\ buttons' = ButtonsAfter(choice, p)
           /\ UNCHANGED <<roomState, dealt, fault>>
        \/ ~ sameTurn /\ NotifyChangeTurn(userList, us, db)

\* After a choice that was refused the turn is announced again.
ChoiceRefused ==
  /\ NotifyChangeTurn(userList, user, chip)
  /\ UNCHANGED <<userList, userCount, connected, stake>>

\* Undefined behaviour before the handler has changed the room
Crash(reason) ==
  /\ fault' = reason
  /\ UNCHANGED <<roomState, userList, userCount, dealt, user, chip, connected,
                 buttons, stake>>

Stand(u) ==
  /\ ChoiceArrives(u, "STAND")
  /\ ChoiceApplied(u, "STAND", SwitchHandIfSplitExist(
                        [user[u] EXCEPT !.hand[user[u].curHand].state = "STAND"]),
                   chip, stake)

\* The card drawn for p's current hand leaves it in one of states
CardDrawn(u, choice, p, states, db, sk) ==
  LET cur == p.curHand IN
  \/ ~ dealt /\ Crash("empty_deck")
  \/ dealt /\ p.hand[cur].num >= HandSlots /\ Crash("hand_overflow")
  \/ /\ dealt /\ p.hand[cur].num < HandSlots
     /\ \E s \in states :
          ChoiceApplied(u, choice,
                        [p EXCEPT !.hand[cur] = [WithCard(@) EXCEPT !.state = s]],
                        db, sk)

Hit(u) ==
  /\ ChoiceArrives(u, "HIT")
  /\ CardDrawn(u, "HIT", user[u], AfterHit(CurrentHand(user[u])), chip, stake)

DoubleDown(u) ==
  LET p == user[u] IN
  /\ ChoiceArrives(u, "DOUBLE_DOWN")
  /\ \/ /\ CanDoubleDown(p)
        /\ CardDrawn(u, "DOUBLE_DOWN", DoubledDown(p), AfterDoubleDown(CurrentHand(p)),
                     Debited({u}, p.bet), [stake EXCEPT ![u] = @ + p.bet])
     \/ ~ CanDoubleDown(p) /\ ChoiceRefused

\* User::Split may return without splitting; the debit is sent all the same.
Split(u) ==
  LET p == user[u]
      debited == Debited({u}, p.bet)
  IN /\ ChoiceArrives(u, "SPLIT")
     /\ \/ p.isSplit /\ ChoiceRefused
        \/ /\ ~ p.isSplit /\ CanSplit(p)
           /\ ChoiceApplied(u, "SPLIT", SplitUser(p), debited,
                         [stake EXCEPT ![u] = @ + p.bet])
        \/ /\ ~ p.isSplit /\ ~ CanSplit(p)
           /\ debited[u] >= - DebtBound
           /\ ChoiceApplied(u, "SPLIT", p, debited, stake)

\* A choice of a user the room has kicked meanwhile finds no room.
ChoiceAfterKick(u) ==
  /\ sent[u] # "none"
  /\ u \in connected \ Seated(userList)
  /\ Crash("null_room")
  /\ UNCHANGED sent

-----------------------------------------------------------------------------
(* Timers: RoomManager::RunPostTimeAction                                  *)

\* ForceBetting: every user still betting bets the minimum, seat by seat.
BettingTimeout ==
  LET late == {u \in Seated(userList) : user[u].gameState = "BETTING"
                                        /\ user[u].money >= MinBet}
  IN /\ roomState = "WAITING"
     /\ late # {}
     /\ BetsApplied(late, MinBet)

HandoutTimeout ==
  /\ roomState = "HANDOUT"
  /\ NotifyChangeTurn(userList, user, chip)
  /\ UNCHANGED <<userList, userCount, connected, stake>>

ActingSeats == {s \in Seats : userList[s] # NoUser
                              /\ user[userList[s]].gameState = "ACTIONING"}

\* Mutant: the hand is marked but the user stays on turn
ForcedHandOnly(p) == [p EXCEPT !.gameState = "ACTIONING"]

ForceNextTurn(p) ==
  [p EXCEPT !.gameState = "ACTION_DONE", !.hand[p.curHand].state = "STAND"]

\* GetCurrentBettingUser, ForceNextTurn, NotifyGameChoice and NotifyChangeTurn;
\* nobody acting ends the game.
TurnTimeout ==
  LET u == userList[First(ActingSeats)]
  IN /\ roomState = "INGAME"
     /\ UNCHANGED <<userList, userCount, connected, stake>>
     /\ \/ /\ ActingSeats # {}
           /\ NotifyChangeTurn(userList, [user EXCEPT ![u] = AfterChoiceNtf(ForceNextTurn(user[u]))], chip)
        \/ /\ ActingSeats = {}
           /\ EndOfGame(userList, user, chip)

RestartTimeout ==
  /\ roomState = "CALCULATE"
  /\ SetRoomStateToWaiting(userList, user, userCount)
  /\ stake' = [u \in Users |-> 0]
  /\ UNCHANGED <<chip, connected, buttons, fault>>

-----------------------------------------------------------------------------
UserAction(u) ==
  \/ EnterUser(u) \/ CloseSession(u) \/ ChoiceAfterKick(u)
  \/ Stand(u) \/ Hit(u) \/ DoubleDown(u) \/ Split(u)
  \/ \E money \in Bets : GameBet(u, money)
  \/ \E choice \in Choices : SendChoice(u, choice)

TimerAction ==
  /\ BettingTimeout \/ HandoutTimeout \/ TurnTimeout \/ RestartTimeout
  /\ UNCHANGED sent

\* Undefined behaviour ends what is said of the server.
Running == /\ fault = "none"
           /\ \/ \E u \in Users : UserAction(u)
              \/ TimerAction

Halted == fault # "none" /\ UNCHANGED vars

Next == Running \/ Halted

Spec == Init /\ [][Next]_vars

-----------------------------------------------------------------------------
(* Properties                                                              *)

InRound(p) == p.gameState \in {"ACTION_WAITING", "ACTIONING", "ACTION_DONE"}

\* Every variable has its type; money and chip may fall below zero.
TypeOK ==
  /\ roomState \in RoomStates
  /\ userList \in [Seats -> Users \cup {NoUser}]
  /\ userCount \in Int
  /\ dealt \in BOOLEAN
  /\ user \in [Users -> UserRecord]
  /\ chip \in [Users -> Int]
  /\ connected \subseteq Users
  /\ buttons \subseteq Choices
  /\ sent \in [Users -> Choices \cup {"none"}]
  /\ fault \in Faults
  /\ stake \in [Users -> Int]

\* m_currentUserCount, kept by hand in EnterUser, LeaveRoom and every kick, is
\* the number of occupied seats, and nobody holds two of them.
SeatsCounted ==
  /\ userCount = Cardinality({s \in Seats : userList[s] # NoUser})
  /\ \A s, t \in Seats : userList[s] = userList[t] /\ userList[s] # NoUser => s = t
  /\ Seated(userList) \subseteq connected

\* RunPostTimeAction skips empty rooms and logs a room in state NONE that is not
\* empty: the state is NONE exactly while nobody is seated.
IdleIffEmpty == (roomState = "NONE") <=> (userCount = 0)

\* Cards are on the table exactly while a game is on.
DeckMatchesState == dealt <=> roomState \in {"HANDOUT", "INGAME"}

\* User::Split asserts that the user is on its first hand and that there is a
\* card to move (User.cpp:130, 137): a split that arrives, however late, and is
\* not refused finds both.
SplitAssertions ==
  \A u \in Seated(userList) :
    sent[u] = "SPLIT" /\ ~ user[u].isSplit /\ CanSplit(user[u])
      => user[u].curHand = 0 /\ user[u].hand[0].first

\* "If nobody is acting while the game is on, it is a bug" (RoomManager.cpp:123)
SomebodyActs ==
  roomState = "INGAME" /\ fault = "none" => \E s \in ActingSeats : Playable(user[userList[s]])

\* The database never holds more for a seated user than the room does.
DatabaseNotAhead ==
  fault = "none" => \A u \in Seated(userList) : chip[u] <= user[u].money

\* As long as a choice is handled on its sender's turn, what the room says a
\* player has and what its row says drift apart only while the player acts on a
\* hand without a first card.  User::InitHand keeps the card counts: a player who
\* left a game and comes back is dealt cards into later slots, may split the two
\* blanks its client shows, and is debited for the split User::Split refuses.
OnBlanks(p) == p.gameState = "ACTIONING" /\ ~ CurrentHand(p).first
DriftOnlyOnBlanks ==
  [][\A u \in Seated(userList) \cap Seated(userList') :
       \/ user'[u].money - chip'[u] = user[u].money - chip[u]
       \/ OnBlanks(user[u])]_vars

\* No game pays somebody who paid nothing for it, or more than three times
\* what was paid.
Earned(u) == (user'[u].money - user[u].money) + (stake'[u] - stake[u])
PayoutNeedsStake ==
  [][roomState' = "CALCULATE" /\ roomState # "CALCULATE" =>
       \A u \in Seated(userList') : Earned(u) <= 3 * stake'[u]]_vars

\* As long as a choice is handled on its sender's turn no handler draws from a
\* deck that Dealer::Clear has emptied.
DeckNotEmptyWhenDrawn == fault # "empty_deck"
=============================================================================
