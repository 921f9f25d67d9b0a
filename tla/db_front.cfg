SPECIFICATION Spec
CONSTANTS
  NumResults = 4
  Slots = 6
INVARIANTS OnlyOverlapLoses
CHECK_DEADLOCK FALSE
