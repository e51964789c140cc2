SPECIFICATION ClientSpec
CONSTANTS
  Size = 5
  Length = {2, 3}
  PartialSend = TRUE
  MaxBytes = 8
  HeartLimit = 2
INVARIANTS
  NoOverrun
  NoGarbage
  LossNeedsOverlap
PROPERTIES
  HeartbeatExact
  EveryClientGoes
CHECK_DEADLOCK FALSE
