SPECIFICATION Spec
CONSTANTS
  Caller = {c1}
  Worker = {w1, w2}
  MaxPermits = 2
PROPERTIES
  ExitCompletes
CHECK_DEADLOCK FALSE
