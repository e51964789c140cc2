SPECIFICATION ClientSpec
CONSTANTS
  TCount = 2
  CCount = 5
INVARIANTS
  BarrierHolds
PROPERTIES
  BarrierOpens
  ExitEndsProgram
CHECK_DEADLOCK FALSE
