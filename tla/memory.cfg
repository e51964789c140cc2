SPECIFICATION Spec
CONSTANTS
  Thread = {t1, t2}
  PoolLen = 2
  HeapLen = 1
  ObjectLen = 1
INVARIANTS
  ListedOnce
  FreeListExact
  OnlyOverflowLeaks
  SlotsSound
  ObjectsOwned
PROPERTIES
  PoolIsAllocator
CHECK_DEADLOCK FALSE
