SPECIFICATION Spec
CONSTANTS
  Clients = {c1, c2, c3, c4}
  NoClient = NoClient
  NumSessions = 2
  NumUsers = 3
  NumRooms = 1
  NumSeats = 2
SYMMETRY Symmetry
INVARIANTS LookupsSucceed CountFindsSeat GhostsWentAstray SilentOnlyWhenFull
CHECK_DEADLOCK FALSE
