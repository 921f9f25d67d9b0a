SPECIFICATION Spec
CONSTANTS
  Clients = {c1}
  Names = {ann}
  NoName = NoName
  Passwords = {p}
  StartMoney = 1
  ShortMax = 2
  MaxTokens = 1
  MaxEvents = 2
  MinBet = 1
  MaxBet = 3
  MaxSessions = 1
  Changes <- MinusOne
  MaxPayments = 1
  MaxRequests = 1
INVARIANT OneRechargeInTenMinutes
CHECK_DEADLOCK FALSE
