SPECIFICATION Spec
CONSTANTS
  Clients = {c1, c2}
  Names = {ann}
  NoName = NoName
  Passwords = {p}
  StartMoney = 2
  ShortMax = 2
  MaxTokens = 2
  MaxEvents = 0
  MinBet = 1
  MaxBet = 3
  MaxSessions = 2
  Changes <- MinusOne
  MaxPayments = 1
  MaxRequests = 1
INVARIANTS ShownTokenWasSaved TwiceOnlyAfterLoss NeverRicherThanDatabase
VIEW View
SYMMETRY LoginSymmetry
CHECK_DEADLOCK FALSE
