SPECIFICATION Spec
CONSTANTS
  Block = {b1, b2}
  Sock = {1, 2, 3}
  WinSetSize = 1
  PosixSetSize = 3
  MaxConn = 3
  MaxTasks = 1
INVARIANTS
  FdSetFresh
  Ownership
  EventsAddUp
  NoTaskDuringClear
  AllReleased
PROPERTIES
  ClientsConsumed
  CloseReturns
CHECK_DEADLOCK FALSE
