SPECIFICATION Spec
CONSTANTS
  HeaderSize = 2
  Bodies = {1}
  ServerBuffer = 5
  ClientBuffer = 4
  MaxConnections = 2
  MaxRequests = 2
  MaxPushed = 3
INVARIANTS HandedInOrder  CallbackInOrder
PROPERTIES PacketsArrive
CHECK_DEADLOCK FALSE
