SPECIFICATION Spec
CONSTANTS
  MaxTID = 4
  MaxMID = 1
  TickMax = 7
  Priority <- HighLow
  SleepTimes = {2}
  AcquireTimeouts = {1}
  Reentrant = FALSE
  Victims = {}
  MutexUsers = {1, 3, 4}
  IOUsers = {}
  MaxIO = 0
  MaxQueue = 4
INVARIANT SleepsLongEnough
CHECK_DEADLOCK FALSE
