SPECIFICATION Spec
CONSTANTS
  MaxTID = 5
  MaxMID = 2
  TickMax = 7
  Priority <- HighLow
  SleepTimes = {2, 7}
  AcquireTimeouts = {0, 7}
  Reentrant = FALSE
  Victims = {1, 3, 5}
  MutexUsers = {1, 3, 4, 5}
  IOUsers = {4}
  MaxIO = 1
  MaxQueue = 3
INVARIANTS InOneQueue SleepsLongEnough InfiniteAcquireSucceeds OwnAnswer NoFault
PROPERTIES OnlyActivateRevives OwnerKeeps
