SPECIFICATION Spec
CONSTANTS
  Thread = {t1}
  PoolLen = 2
  HeapLen = 1
  ObjectLen = 1
INVARIANTS
  AssertOneRef
CHECK_DEADLOCK FALSE
