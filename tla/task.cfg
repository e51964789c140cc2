SPECIFICATION LogSpec
CONSTANTS
  MaxTask = 4
  User = {u1}
  MaxOpen = 2
INVARIANTS
  MessageToItsFile
  OnlyReplacedFilesMissed
PROPERTIES
  TaskRuns
  QueueSpec
  ThreadSpec
CHECK_DEADLOCK FALSE
