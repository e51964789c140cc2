SPECIFICATION Spec
CONSTANTS
  CellServers = 2
  SetSize = 1
  MaxConn = 3
INVARIANTS
  Ownership
  CountAddsUp
PROPERTIES
  JoinsIfOthersTalk
CHECK_DEADLOCK FALSE
