SPECIFICATION Spec
CONSTANTS
  Clients = {c1}
  Names = {ann}
  NoName = NoName
  Passwords = {p, q}
  StartMoney = 2
  ShortMax = 2
  MaxTokens = 2
  MaxEvents = 1
  MinBet = 2
  MaxBet = 3
  MaxSessions = 1
  Changes <- MinusOne
  MaxPayments = 1
  MaxRequests = 2
INVARIANTS DialogueNotStuck 
 
CHECK_DEADLOCK FALSE
