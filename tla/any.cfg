SPECIFICATION Spec
CONSTANTS
  MaxTID = 4
  MaxMID = 1
  TickMax = 3
  Priority <- HighLow
  SleepTimes = {1}
  AcquireTimeouts = {1}
  Reentrant = TRUE
  Victims = {3}
  MutexUsers = {1, 3, 4}
  IOUsers = {3}
  MaxIO = 1
  MaxQueue = 2
CONSTRAINT ShortQueues
INVARIANTS TypeOK IdleIsQueued HighestRuns HoldersAgree NoWaiterForgotten
CHECK_DEADLOCK FALSE
