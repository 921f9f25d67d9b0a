------------------------------- MODULE RoomView -------------------------------
(***************************************************************************)
(* A game room and the table one of its players sees (GameScene.cpp,       *)
(* Player.cpp, Hand.cpp of the client).  Every handler of the room         *)
(* (GameRoom) is joined with the notifications it pushes to the observer;  *)
(* they arrive in the order they were pushed, any time later, and each is  *)
(* handled by the scene that is shown when it arrives.  The other players' *)
(* clients are reduced to the requests they send.                          *)
(***************************************************************************)
EXTENDS GameRoom, Sequences

CONSTANTS
  Observer,     \* the user whose client is looked at
  MaxWire,      \* bound: the room acts while fewer packets are under way
  MaxEntries,   \* bound: how often a user enters the room
  MaxGames      \* bound: how many games are started

ASSUME ObserverAssumption == Observer \in Users
ASSUME WireAssumption == {MaxWire, MaxEntries, MaxGames} \subseteq Nat \ {0}

VARIABLES
  wire,     \* packets pushed to the observer and not handled yet
  asked,    \* users whose ROOM_ENTER_USER_LIST_REQ is not answered
  bid,      \* the observer's bets under way, at most one
  entries,  \* auxiliary: how often a user has entered
  games,    \* auxiliary: how many games were started
  screen    \* what the observer's client shows, see Screen

viewVars == <<vars, wire, asked, bid, entries, games, screen>>

\* scene: no connection yet, the login scene waiting for ROOM_ENTER_RES, the game
\* scene before and after the user list, a connection that was closed, and a
\* game that the client left, or crashed in, without its user's doing.
Scenes == {"off", "login", "scene", "game", "gone", "lost"}

\* "cards": a card came before the list and comes again with it; "money": the
\* settlement of a former occupant was still waiting, or no card of those played
\* is shown; "slider": the counter came after the bet, or before the list.
Causes == {"cards", "money", "slider"}

\* a Player node: activated, its labels, the cards of its Hands, the one on top
PlayerNode == [on : BOOLEAN, money : Int, bet : Int,
               cards : [Hands -> 0 .. HandSlots], top : Hands]

\* slot: _userSlotNum; slider: the slider and the bet button are visible and the
\* choices are not; late: setMoneyBet actions waiting for the dealer's cards, by
\* seat; misled: auxiliary, what of a seat may be shown wrong and why.
Screen == [scene : Scenes, view : [Seats -> PlayerNode], slot : Seats, slider : BOOLEAN,
           late : {<<>>}, misled : [Seats -> SUBSET Causes]]

EmptyNode == [on |-> FALSE, money |-> 0, bet |-> 0, cards |-> [h \in Hands |-> 0], top |-> 0]

\* The constructor leaves the members zero.
Blank(s) == [scene |-> s, view |-> [t \in Seats |-> EmptyNode], slot |-> 0,
             slider |-> FALSE, late |-> <<>>, misled |-> [t \in Seats |-> {}]]

ViewInit ==
  /\ Init
  /\ wire = <<>>
  /\ asked = {}
  /\ bid = {}
  /\ entries = 0
  /\ games = 0
  /\ screen = Blank("off")

-----------------------------------------------------------------------------
(* What the room's handlers push                                           *)

SeatOf(ul, u) == CHOOSE s \in Seats : ul[s] = u

\* The notifications loop over m_userList.  Nothing is sent by a handler that
\* did not survive.
Push(ul, packets) ==
  wire' = IF Observer \in Seated(ul) /\ fault' = "none"
          THEN wire \o packets ELSE wire

\* the cards of a hand up to the first empty slot
Shown(hand) == IF hand.first THEN hand.num ELSE 0

\* The packets a room sends to its players, the answer to the request included
PACKET_ID == {"ENTER_RES", "LIST", "ENTER", "LEAVE", "COUNTER", "BET", "START", "TURN",
              "CHOICE", "RESULT"}

UserInfos == [money : Int, bet : Int, top : Hands, cards : [Hands -> 0 .. HandSlots]]

\* What is pushed in the course of a game, whoever comes or goes
GameNtf ==
  [id : {"COUNTER"}, to : GameStates]
    \cup [id : {"BET"}, slot : Seats, bet : Nat]
    \cup [id : {"START"}, cards : [Seats -> 0 .. 2]]
    \cup [id : {"TURN"}, slot : Seats, hand : Hands]
    \cup [id : {"CHOICE"}, slot : Seats, choice : Choices, hand : Hands, bet : Int, money : Int]
    \cup [id : {"RESULT"}, money : [Seats -> Int], played : SUBSET Seats]

\* The packets sent to the observer.  A user list has the seats that are taken.
IsPacket(p) ==
  \/ p \in [id : {"ENTER_RES"}]
  \/ p.id = "LIST" /\ \E S \in SUBSET Seats : /\ p.slot \in S
                                            /\ p.users \in [S -> UserInfos]
  \/ p \in [id : {"ENTER"}, slot : Seats, user : UserInfos]
  \/ p \in [id : {"LEAVE"}, slot : Seats]
  \/ p \in GameNtf

\* User::GetUserInfo
UserInfo(p) == [money |-> p.money, bet |-> p.bet, top |-> p.curHand,
                cards |-> [h \in Hands |-> Shown(p.hand[h])]]

\* NotifyLeaveUserInfo: the leaver is still in the list
LeaveNtf(s) == [id |-> "LEAVE", slot |-> s]

\* the seats in S, in the order of m_userList
InOrder(S) == [n \in 1 .. Cardinality(S) |->
                 CHOOSE s \in S : Cardinality({t \in S : t <= s}) = n]

\* SetRoomStateToWaiting kicks in the order of the seats; the observer hears of
\* those before it and of itself.
LeaveNtfs(ul, us) ==
  LET out == {s \in Seats : ul[s] \in Kicked(ul, us)}
      heard == {s \in out : Observer \in Kicked(ul, us) => s <= SeatOf(ul, Observer)}
  IN [n \in DOMAIN InOrder(heard) |-> LeaveNtf(InOrder(heard)[n])]

\* NotifyStartBettingTimer; "to" is the addressee's state, for Causes only
CounterNtf(us) == [id |-> "COUNTER", to |-> us[Observer].gameState]

BetNtf(s, amount) == [id |-> "BET", slot |-> s, bet |-> amount]

\* NotifyStartGame sends the first two slots of hand 0, dealt or not.
StartNtfs ==
  IF roomState' = "HANDOUT"
  THEN <<[id |-> "START",
          cards |-> [s \in Seats |->
            IF userList[s] = NoUser THEN 0
            ELSE CASE user[userList[s]].hand[0].num = 0 -> 2
                   [] user[userList[s]].hand[0].num = 1 -> 1
                   [] OTHER -> 0]]>>
  ELSE <<>>

\* NotifyChangeTurn, or EndOfGame; "played" is for Causes only
TurnNtf ==
  IF roomState' = "CALCULATE"
  THEN [id |-> "RESULT",
        money |-> [s \in Seats |-> IF userList'[s] = NoUser THEN 0
                                   ELSE user'[userList'[s]].money],
        played |-> {s \in Seats : userList'[s] # NoUser
                                  /\ user[userList'[s]].hand[0].num > 0}]
  ELSE [id |-> "TURN",
        slot |-> SeatOf(userList', NextUser(userList', user')),
        hand |-> user'[NextUser(userList', user')].curHand]

\* NotifyGameChoice, of a user who has paid extra for the choice
ChoiceNtf(u, choice, extra) ==
  [id |-> "CHOICE", slot |-> SeatOf(userList, u), choice |-> choice,
   hand |-> user[u].curHand, bet |-> user[u].bet, money |-> user[u].money - extra]

-----------------------------------------------------------------------------
(* The room's handlers                                                     *)

\* GetUserByAuthProcess: those kicked, then the answer, then the other users
EnterPackets(u, ul, us) ==
  (IF roomState \in {"NONE", "WAITING"} THEN LeaveNtfs(ul, us) ELSE <<>>)
    \o (IF u = Observer THEN <<[id |-> "ENTER_RES"]>>
        ELSE <<[id |-> "ENTER", slot |-> SeatOf(ul, u), user |-> UserInfo(user'[u])]>>)

ViewEnter(u) ==
  LET ul == [userList EXCEPT ![First({s \in Seats : userList[s] = NoUser})] = u]
      us == [user EXCEPT ![u] = LoggedIn(@, chip[u])]
  IN /\ entries < MaxEntries
     /\ entries' = entries + 1
     /\ EnterUser(u)
     /\ IF u = Observer
        THEN /\ screen' = Blank("login")
             /\ wire' = IF fault' = "none" THEN EnterPackets(u, ul, us) ELSE <<>>
             /\ UNCHANGED asked
        ELSE /\ Push(ul, EnterPackets(u, ul, us))
             /\ asked' = asked \cup {u}
             /\ UNCHANGED screen
     /\ UNCHANGED bid

\* Mutant: a request that was put back into the queue outlives its session
RequestKept(u) == asked

\* What a client sent is handled before the close of its session.
RequestGone(u) == asked \ {u}

\* The observer's own connection takes what is under way with it.
ViewClose(u) ==
  /\ CloseSession(u)
  /\ asked' = RequestGone(u)
  /\ IF u = Observer
     THEN wire' = <<>> /\ bid' = {} /\ screen' = Blank("gone")
     ELSE /\ UNCHANGED <<bid, screen>>
          /\ IF u \in Seated(userList)
             THEN Push(userList, <<LeaveNtf(SeatOf(userList, u))>>
                         \o (IF userCount # 1 /\ OnTurn(u) THEN <<TurnNtf>> ELSE <<>>))
             ELSE UNCHANGED wire

BetNtfs(bettors, amount) ==
  LET order == InOrder({s \in Seats : userList[s] \in bettors})
  IN [n \in DOMAIN order |-> BetNtf(order[n], amount)] \o StartNtfs

Amount(money) == IF money < MinBet THEN MinBet ELSE money

ViewBet(u, money) ==
  /\ GameBet(u, money)
  /\ Push(userList, BetNtfs({u}, Amount(money)))
  /\ UNCHANGED <<asked, screen>>

OtherBet(u) ==
  /\ u # Observer
  /\ \E money \in Bets : ViewBet(u, money)
  /\ UNCHANGED bid

\* GetRoomBySessionIndex finds the room of the user.
InThisRoom(u) == userCount # 0 /\ u \in Seated(userList)

\* PacketProcess::GameBet and Room::ApplyBet refuse
BetRefused(u, money) == \/ ~ InThisRoom(u)
                        \/ user[u].gameState # "BETTING"
                        \/ Amount(money) > user[u].money

\* The observer's bet arrives; one that is refused is not answered.
ObserverBet ==
  \E money \in bid :
    /\ bid' = {}
    /\ \/ ViewBet(Observer, money)
       \/ /\ BetRefused(Observer, money)
          /\ UNCHANGED <<vars, wire, asked, screen>>

\* ForceBetting
ViewBettingTimeout ==
  /\ BettingTimeout
  /\ Push(userList, BetNtfs({u \in Seated(userList) : user[u].gameState = "BETTING"
                                                       /\ user[u].money >= MinBet}, MinBet))
  /\ UNCHANGED <<sent, asked, bid, screen>>

\* The turn is announced when the seat or the hand to play is another one.
TurnNtfs(u) ==
  IF roomState' = "INGAME" /\ NextUser(userList, user') = u /\ user'[u].curHand = user[u].curHand
  THEN <<>> ELSE <<TurnNtf>>

ChoicePackets(u, choice, extra) == <<ChoiceNtf(u, choice, extra)>> \o TurnNtfs(u)

\* Nothing is under way that would disable the choices the observer sees.
MenuUpToDate ==
  /\ screen.scene = "game"
  /\ ~ screen.slider
  /\ bid = {}
  /\ \A n \in DOMAIN wire : wire[n].id \notin {"TURN", "CHOICE", "RESULT"}

ViewChoice(u) ==
  LET p == user[u] IN
  /\ u = Observer => MenuUpToDate
  /\ \/ Stand(u) /\ Push(userList, ChoicePackets(u, "STAND", 0))
     \/ Hit(u) /\ Push(userList, ChoicePackets(u, "HIT", 0))
     \/ /\ DoubleDown(u)
        /\ Push(userList, IF CanDoubleDown(p) THEN ChoicePackets(u, "DOUBLE_DOWN", p.bet)
                          ELSE <<TurnNtf>>)
     \/ /\ Split(u)
        /\ Push(userList, IF p.isSplit THEN <<TurnNtf>>
                          ELSE ChoicePackets(u, "SPLIT", IF CanSplit(p) THEN p.bet ELSE 0))
  /\ UNCHANGED <<asked, bid, screen>>

ViewHandoutTimeout ==
  /\ HandoutTimeout
  /\ Push(userList, <<TurnNtf>>)
  /\ UNCHANGED <<sent, asked, bid, screen>>

\* ForceNextTurn, told as a STAND
ViewTurnTimeout ==
  /\ TurnTimeout
  /\ Push(userList, IF ActingSeats = {} THEN <<TurnNtf>>
                    ELSE <<ChoiceNtf(userList[First(ActingSeats)], "STAND", 0), TurnNtf>>)
  /\ UNCHANGED <<sent, asked, bid, screen>>

\* m_waitForRestart is two seconds longer than a client shows the dealer's
\* cards: the observer has seen the result when the room restarts.
ResultSeen == screen.late = <<>> /\ \A n \in DOMAIN wire : wire[n].id # "RESULT"

\* SetRoomStateToWaiting, NotifyStartBettingTimer
ViewRestartTimeout ==
  /\ ResultSeen
  /\ RestartTimeout
  /\ Push(userList, LeaveNtfs(userList, user)
                      \o (IF Observer \in Seated(userList') THEN <<CounterNtf(user')>> ELSE <<>>))
  /\ UNCHANGED <<sent, asked, bid, screen>>

\* PacketProcess::RoomUserList.  A user who was kicked meanwhile has no room.
UserListReq(u) ==
  /\ u \in asked
  /\ asked' = asked \ {u}
  /\ UNCHANGED <<bid, screen>>
  /\ \/ /\ u \in Seated(userList)
        /\ UNCHANGED vars
        /\ Push(userList,
                (IF u # Observer THEN <<>>
                 ELSE <<[id |-> "LIST", slot |-> SeatOf(userList, u),
                         users |-> [s \in {t \in Seats : userList[t] # NoUser} |->
                                      UserInfo(user[userList[s]])]]>>)
                \o (IF roomState = "WAITING" /\ Observer \in Seated(userList)
                    THEN <<CounterNtf(user)>> ELSE <<>>))
     \/ /\ u \notin Seated(userList)
        /\ Crash("null_room")
        /\ UNCHANGED <<sent, wire>>

-----------------------------------------------------------------------------
(* The observer's client                                                   *)

\* Another scene replaces the one shown, or the client crashes.
Lost == screen' = Blank("lost") /\ wire' = <<>>

\* Hand has room for HandSlots cards and does not look: a card written outside
\* of it ends the client.
Fits(v) == \A s \in Seats, h \in Hands : v[s].cards[h] \in 0 .. HandSlots

\* The handler of the packet that came first leaves the screen so.
Display(new) ==
  \/ Fits(new.view) /\ screen' = new /\ wire' = Tail(wire)
  \/ ~ Fits(new.view) /\ Lost

\* GameScene::init asks for the user list.
OpenGameScene ==
  /\ Display([screen EXCEPT !.scene = "scene"])
  /\ asked' = asked \cup {Observer}

\* LoginScene::recvPacketProcess: the answer opens the game scene; anything
\* else is an error.
LoginSceneRecv(p) ==
  /\ screen.scene = "login"
  /\ \/ p.id = "ENTER_RES" /\ OpenGameScene
     \/ p.id \in PACKET_ID \ {"ENTER_RES"} /\ Lost /\ UNCHANGED asked

\* Player::setPlayerDataWithUserInfo: the cards are added to those shown.
SeatedAs(node, info) ==
  [on |-> TRUE, money |-> info.money, bet |-> info.bet, top |-> info.top,
   cards |-> [h \in Hands |-> node.cards[h] + info.cards[h]]]

\* The money is right unless a settlement is still to come.
MoneyTold(s, causes) ==
  IF s \in DOMAIN screen.late THEN causes \cup {"money"} ELSE causes \ {"money"}

\* A seat that is free in the list is left as it is.
UserListRes(p) ==
  LET listed == DOMAIN p.users IN
  Display([screen EXCEPT
    !.scene = "game",
    !.slot = p.slot,
    !.view = [s \in Seats |-> IF s \in listed THEN SeatedAs(@[s], p.users[s]) ELSE @[s]],
    !.misled = [s \in Seats |-> IF s \in listed THEN MoneyTold(s, @[s]) ELSE @[s]]])

EnterUserNtf(p) ==
  Display([screen EXCEPT !.view[p.slot] = SeatedAs(@, p.user),
                         !.misled[p.slot] = MoneyTold(p.slot, @)])

\* Mutant: the node stays activated
StillActivated(node) == [node EXCEPT !.cards = [h \in Hands |-> 0], !.top = 0]

\* Player::clear: the money stays
Cleared(node) == [node EXCEPT !.on = FALSE, !.cards = [h \in Hands |-> 0], !.top = 0]

\* Mutant: the slot is not compared
AnySlot(s) == TRUE

OwnSlot(s) == s = screen.slot

\* The player of the observer's slot has left: GameScene::logOut.
LeaveUserNtf(p) ==
  \/ OwnSlot(p.slot) /\ Lost
  \/ /\ ~ OwnSlot(p.slot)
     /\ Display([screen EXCEPT !.view[p.slot] = Cleared(@), !.misled[p.slot] = {}])

\* Mutant: the bet is shown and not taken from the money
BetOnTop(node, amount) == [node EXCEPT !.bet = amount]

BetFromMoney(node, amount) == [node EXCEPT !.bet = amount, !.money = @ - amount]

\* Mutant: the slider is hidden by the click only
SliderStays(s) == screen.slider

SliderAfterBet(s) == screen.slider /\ ~ OwnSlot(s)

GameBetNtf(p) ==
  Display([screen EXCEPT
    !.view[p.slot] = BetFromMoney(@, p.bet),
    !.slider = SliderAfterBet(p.slot),
    !.misled[p.slot] = IF OwnSlot(p.slot) THEN @ \ {"slider"} ELSE @])

\* Mutant: the hands of the last game stay on the table
HandsKept(node) == node

HandsCleared(node) == [node EXCEPT !.cards = [h \in Hands |-> 0]]

\* The cards go; the slider comes, also when the observer has bet.
BetCounter(p) ==
  LET astray == p.to # "BETTING" \/ screen.scene = "scene" IN
  Display([screen EXCEPT
    !.view = [s \in Seats |-> HandsCleared(@[s])],
    !.slider = TRUE,
    !.misled = [s \in Seats |-> (@[s] \ {"cards", "slider"})
                                  \cup (IF astray THEN {"slider"} ELSE {})]])

\* Hand::pushCard of the n cards dealt
WithDealt(node, n) == [node EXCEPT !.cards[0] = @ + n, !.top = 0]

\* A hand dealt before the list comes again with it.
GameStart(p) ==
  LET dealtTo == {s \in Seats : screen.view[s].on /\ p.cards[s] > 0} IN
  Display([screen EXCEPT
    !.view = [s \in Seats |-> IF @[s].on THEN WithDealt(@[s], p.cards[s]) ELSE @[s]],
    !.misled = [s \in Seats |-> IF s \in dealtTo /\ screen.scene = "scene"
                                THEN @[s] \cup {"cards"} ELSE @[s]]])

ChangeTurn(p) == Display([screen EXCEPT !.view[p.slot].top = p.hand])

\* A split moves card 1 of hand 0 to hand 1 and takes the last card of hand 0,
\* whether or not the room has split the hands.
CardsAfter(p, cards) ==
  CASE p.choice \in {"HIT", "DOUBLE_DOWN"} -> [cards EXCEPT ![p.hand] = @ + 1]
    [] p.choice = "SPLIT" -> [h \in Hands |-> IF h = 0 THEN cards[0] - 1
                                              ELSE IF cards[0] > 1 THEN cards[1] + 1
                                              ELSE cards[1]]
    [] OTHER -> cards

WithChoice(node, p) ==
  [node EXCEPT !.bet = p.bet, !.money = p.money, !.cards = CardsAfter(p, @)]

GameChoiceNtf(p) ==
  Display([screen EXCEPT
    !.view[p.slot] = WithChoice(@, p),
    !.misled[p.slot] = MoneyTold(p.slot, @)
                         \cup (IF screen.scene = "scene" /\ p.choice # "STAND"
                               THEN {"cards"} ELSE {})])

WithCards == {s \in Seats : screen.view[s].cards[0] > 0}

\* Each player who shows a card is told the money when the dealer has finished.
DealerResult(p) ==
  Display([screen EXCEPT
    !.late = [s \in WithCards \cup DOMAIN @ |-> IF s \in WithCards THEN p.money[s] ELSE @[s]],
    !.misled = [s \in Seats |-> IF s \in WithCards THEN @[s] \ {"money"}
                                ELSE IF s \in p.played THEN @[s] \cup {"money"} ELSE @[s]]])

GameSceneRecv(p) ==
  /\ screen.scene \in {"scene", "game"}
  /\ \/ p.id = "LIST" /\ UserListRes(p)
     \/ p.id = "ENTER" /\ EnterUserNtf(p)
     \/ p.id = "LEAVE" /\ LeaveUserNtf(p)
     \/ p.id = "BET" /\ GameBetNtf(p)
     \/ p.id = "COUNTER" /\ BetCounter(p)
     \/ p.id = "START" /\ GameStart(p)
     \/ p.id = "TURN" /\ ChangeTurn(p)
     \/ p.id = "CHOICE" /\ GameChoiceNtf(p)
     \/ p.id = "RESULT" /\ DealerResult(p)
  /\ UNCHANGED asked

Recv ==
  /\ wire # <<>>
  /\ LoginSceneRecv(Head(wire)) \/ GameSceneRecv(Head(wire))
  /\ UNCHANGED <<vars, bid>>

\* setMoneyBet(0, money) runs when the dealer's cards are on the table.
DelayOver ==
  /\ screen.late # <<>>
  /\ screen' = [screen EXCEPT
       !.late = <<>>,
       !.view = [s \in Seats |-> IF s \in DOMAIN screen.late
                                 THEN [@[s] EXCEPT !.bet = 0, !.money = screen.late[s]]
                                 ELSE @[s]]]
  /\ UNCHANGED <<vars, wire, asked, bid>>

\* GameScene::betButtonClicked; one bet is under way at a time.
BetButton ==
  /\ screen.scene = "game"
  /\ screen.slider
  /\ bid = {}
  /\ bid' \in {{money} : money \in Bets}
  /\ screen' = [screen EXCEPT !.slider = FALSE,
                              !.misled = [s \in Seats |-> @[s] \ {"slider"}]]
  /\ UNCHANGED <<vars, wire, asked>>

-----------------------------------------------------------------------------
RoomStep ==
  /\ Len(wire) < MaxWire
  /\ \/ \E u \in Users : OtherBet(u) \/ ViewChoice(u) \/ UserListReq(u)
     \/ ObserverBet
     \/ ViewBettingTimeout \/ ViewHandoutTimeout \/ ViewTurnTimeout \/ ViewRestartTimeout
  /\ games' = IF roomState' = "HANDOUT" /\ roomState # "HANDOUT" THEN games + 1 ELSE games
  /\ games' <= MaxGames
  /\ UNCHANGED entries

Connects(u) == Len(wire) < MaxWire /\ ViewEnter(u) /\ UNCHANGED games

Disconnects(u) ==
  /\ u = Observer \/ Len(wire) < MaxWire
  /\ ViewClose(u)
  /\ UNCHANGED <<entries, games>>

ClientStep == (Recv \/ DelayOver \/ BetButton) /\ UNCHANGED <<entries, games>>

\* Undefined behaviour of the server ends what is said of it, a client that has
\* left the table what is seen.
ViewNext ==
  /\ fault = "none"
  /\ screen.scene \notin {"gone", "lost"}
  /\ \/ \E u \in Users : Connects(u) \/ Disconnects(u)
     \/ RoomStep \/ ClientStep

ViewSpec == ViewInit /\ [][ViewNext]_viewVars

-----------------------------------------------------------------------------
(* Properties                                                              *)

\* Every variable has its type.
ViewTypeOK ==
  /\ TypeOK
  /\ [screen EXCEPT !.late = <<>>] \in Screen
  /\ \E S \in SUBSET Seats : screen.late \in [S -> Int]
  /\ \A n \in DOMAIN wire : IsPacket(wire[n])
  /\ asked \subseteq connected
  /\ bid \subseteq Bets

\* Everything the room has said is on the screen.
Quiet == screen.scene = "game" /\ wire = <<>> /\ fault = "none"

Node(s) == screen.view[s]
Player(s) == user[userList[s]]
Taken == {s \in Seats : userList[s] # NoUser}

\* The table shows the players who sit at it, the observer in its own seat,
\* whoever came and went while the list was under way (GameScene.cpp:213-249).
SeatsShown ==
  Quiet => /\ \A s \in Seats : Node(s).on <=> s \in Taken
           /\ Observer \in Seated(userList) => userList[screen.slot] = Observer

\* Until the round is settled the cards on the table are those of the room, and
\* the hand on top is the one that is played: also those of a game that was on
\* when the observer came, after a split, and when a round follows another.
CardsShown ==
  Quiet /\ roomState # "CALCULATE" =>
    \A s \in Taken :
      /\ \A h \in Hands :
           LET hand == Player(s).hand[h] IN
           (hand.first \/ hand.num = 0) /\ "cards" \notin screen.misled[s]
             => Node(s).cards[h] = hand.num
      /\ Player(s).gameState = "ACTIONING" => Node(s).top = Player(s).curHand

\* So is the money, and the bet of the round, once the result has been shown:
\* the client computes what is left after a bet from what it shows itself, and
\* the settlement comes seconds late (GameScene.cpp:275, 570).
MoneyShown ==
  Quiet /\ screen.late = <<>> /\ roomState # "CALCULATE" =>
    \A s \in Taken :
      /\ "money" \notin screen.misled[s] => Node(s).money = Player(s).money
      /\ InRound(Player(s)) => Node(s).bet = Player(s).bet

\* A player whose turn it is has the choices on the screen, not the slider,
\* unless the counter came when the room was no longer waiting for its bet.
TurnCanBePlayed ==
  Quiet /\ Observer \in Seated(userList) /\ user[Observer].gameState = "ACTIONING"
    /\ "slider" \notin screen.misled[screen.slot]
    => ~ screen.slider

\* A player who sits in the room is not sent back to the login scene, and the
\* client does not write outside of a hand, except while it waits for the
\* answer or the list: a player leaves then, or a card is played; or when a card
\* of that time is shown twice.
NotThrownOut ==
  [][screen.scene # "lost" /\ screen'.scene = "lost" /\ Observer \in Seated(userList) =>
       \/ screen.scene = "login" /\ Head(wire).id = "LEAVE"
       \/ screen.scene = "scene" /\ Head(wire).id \in {"CHOICE", "LIST"}
       \/ screen.scene = "scene" /\ Head(wire) = LeaveNtf(0)
       \/ \E s \in Seats : "cards" \in screen.misled[s]]_viewVars
=============================================================================
