SPECIFICATION ConsoleSpec
CONSTANTS
  MaxTID = 5
  MaxMID = 1
  TickMax = 3
  Priority <- HighLow
  SleepTimes = {1}
  AcquireTimeouts = {}
  Reentrant = FALSE
  Victims = {}
  MutexUsers = {1, 3, 4, 5}
  IOUsers = {}
  MaxIO = 0
  Blocks = 1
  Rounds = {0, 2}
  ConsoleUsers = {1, 3, 4, 5}
  Results = {"ok", "error"}
INVARIANTS ConsoleTypeOK BlocksAccounted WakeupsSuffice MemoryQueueAgrees OnlyErrorsDelay
