SPECIFICATION Spec
CONSTANTS
  Thread = {t1, t2, t3, t4}
  MaxWait = 3
INVARIANTS
  BlockedCount
  NoLostWakeup
PROPERTIES
  SemSpec
