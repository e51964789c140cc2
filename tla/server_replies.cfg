SPECIFICATION Spec
CONSTANTS
  Block = {b1, b2}
  Sock = {1, 2}
  WinSetSize = 2
  PosixSetSize = 3
  MaxConn = 2
  MaxTasks = 1
PROPERTIES
  RepliesReachTheirClient
CHECK_DEADLOCK FALSE
