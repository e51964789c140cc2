SPECIFICATION Spec
CONSTANTS
  Caller = {c1, c2, c3}
  Worker = {w1, w2, w3}
  MaxPermits = 3
INVARIANTS
  CloserHasWaker
  OneWorker
PROPERTIES
  CloseJoins
  CloseReturns
CHECK_DEADLOCK FALSE
