------------------------------- MODULE TimedRoom -------------------------------
(***************************************************************************)
(* A game room together with the deadline its timers wait for.             *)
(*                                                                         *)
(* Room::m_lastActionTime is kept as one bit: whether the wait that goes   *)
(* with the room's state is over.  Every assignment of m_lastActionTime    *)
(* starts a new wait; RunPostTimeAction acts only when the wait is over.   *)
(* The clock and the logic thread are fair; the players are not.           *)
(***************************************************************************)
EXTENDS GameRoom

VARIABLE due    \* nowTime - m_lastActionTime exceeds the wait of the state

timedVars == <<vars, due>>

TimedInit == Init /\ due = FALSE

\* NotifyStartGame starts a new wait, a bet that leaves others betting does not
WaitAfterStart == due' = (due /\ roomState' = roomState)

\* Room::EnterUser: SetRoomStateToWaiting runs unless a game is on
TimedEnter(u) ==
  EnterUser(u) /\ due' = (due /\ roomState \notin {"NONE", "WAITING"})

\* Room::LeaveRoom: NotifyChangeTurn runs when the leaver was on turn
TimedClose(u) ==
  /\ CloseSession(u)
  /\ due' = (due /\ ~ (u \in Seated(userList) /\ userCount # 1 /\ OnTurn(u)))

TimedBet(u) == (\E money \in Bets : GameBet(u, money)) /\ WaitAfterStart

\* NotifyGameChoice after a choice that was applied, NotifyChangeTurn after one
\* that was refused: both start the wait of the turn again.
TimedChoice(u) ==
  /\ Stand(u) \/ Hit(u) \/ DoubleDown(u) \/ Split(u)
  /\ due' = FALSE

TimedClient(u) ==
  /\ ChoiceAfterKick(u) \/ \E choice \in Choices : SendChoice(u, choice)
  /\ UNCHANGED due

\* RunPostTimeAction finds the wait of the room's state over.
TimedTimer ==
  /\ fault = "none"
  /\ due
  /\ UNCHANGED sent
  /\ \/ BettingTimeout /\ WaitAfterStart
     \/ (HandoutTimeout \/ TurnTimeout \/ RestartTimeout) /\ due' = FALSE

\* Time passes.  RunPostTimeAction skips a room without users.
WaitOver ==
  /\ fault = "none"
  /\ userCount # 0
  /\ ~ due
  /\ due' = TRUE
  /\ UNCHANGED vars

TimedUser(u) ==
  /\ fault = "none"
  /\ TimedEnter(u) \/ TimedClose(u) \/ TimedBet(u) \/ TimedChoice(u) \/ TimedClient(u)

TimedHalted == Halted /\ UNCHANGED due

TimedNext == (\E u \in Users : TimedUser(u)) \/ TimedTimer \/ WaitOver \/ TimedHalted

\* The logic thread runs RunPostTimeAction for every room in each turn of its
\* loop, so a wait that stays over is acted on; nothing is assumed of players.
TimedSpec == /\ TimedInit /\ [][TimedNext]_timedVars
             /\ WF_timedVars(WaitOver)
             /\ WF_timedVars(TimedTimer)

-----------------------------------------------------------------------------
(* Properties                                                              *)

GameOn == roomState \in {"HANDOUT", "INGAME"}

\* Somebody has not bet in time.
BetOverdue ==
  /\ roomState = "WAITING" /\ due
  /\ \E u \in Seated(userList) : user[u].gameState = "BETTING"

\* "If it was in this state for more than fifteen seconds, start the game", "this
\* is the case in which the time to decide has passed and the state is the same"
\* (RoomManager.cpp:79, 112): no player, whatever it does, keeps the others from
\* the game for longer than the waits, or from its end.  (When the last user who
\* has to bet leaves, nobody is overdue, and nothing starts the game.)
RoundFinishes ==
  fault = "none" /\ (GameOn \/ BetOverdue) ~> fault # "none" \/ ~ (GameOn \/ BetOverdue)
=============================================================================
