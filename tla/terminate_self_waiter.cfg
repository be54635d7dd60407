SPECIFICATION Spec
CONSTANTS
  MaxTID = 4
  MaxMID = 1
  TickMax = 7
  Priority <- HighLow
  SleepTimes = {2}
  AcquireTimeouts = {0}
  Reentrant = TRUE
  Victims = {4}
  MutexUsers = {1, 3, 4}
  IOUsers = {}
  MaxIO = 0
  MaxQueue = 4
PROPERTY TerminatedIsDead
CHECK_DEADLOCK FALSE
