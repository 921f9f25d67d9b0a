SPECIFICATION Spec
CONSTANTS
  HandSlots = 7
  Numbers = {1, 2, 13}
  Shapes = 4
INVARIANTS PaidByTheRules ResultsAreAbstracted ValueShown
PROPERTIES HandsAreAbstracted
CHECK_DEADLOCK FALSE
