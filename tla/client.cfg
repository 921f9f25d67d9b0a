SPECIFICATION ViewSpec
CONSTANTS
  u1 = u1
  u2 = u2
  u3 = u3
  Users = {u1, u2, u3}
  NoUser = NoUser
  Observer = u1
  MaxWire = 1
  MaxGames = 1
  MaxEntries = 3
  MaxSeats = 2
  HandSlots = 3
  MinBet = 1
  MaxBet = 2
  Chips = {2}
  Bets = {1, 3}
  DebtBound = 0
  LateChoices = FALSE
SYMMETRY Symmetry
INVARIANTS ViewTypeOK SeatsShown CardsShown MoneyShown TurnCanBePlayed
 
CHECK_DEADLOCK FALSE
