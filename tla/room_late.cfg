SPECIFICATION Spec
CONSTANTS
  u1 = u1
  u2 = u2
  Users = {u1, u2}
  NoUser = NoUser
  MaxSeats = 2
  HandSlots = 3
  MinBet = 1
  MaxBet = 2
  Chips = {2}
  Bets = {1}
  DebtBound = 1
  LateChoices = TRUE
SYMMETRY Symmetry
VIEW ViewNoStake
INVARIANTS TypeOK SeatsCounted IdleIffEmpty DeckMatchesState SplitAssertions SomebodyActs DatabaseNotAhead
