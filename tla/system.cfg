SPECIFICATION FairSpec
CONSTANTS
  MaxTID = 4
  MaxMID = 1
  TickMax = 2
  Priority <- AllHigh
  SleepTimes = {1}
  AcquireTimeouts = {}
  Reentrant = FALSE
  Victims = {}
  MutexUsers = {}
  IOUsers = {3}
  MaxIO = 1
  Blocks = 1
  Rounds = {1}
  ConsoleUsers = {3, 4}
  Results = {"ok"}
  Threads <- AllThreads
  Descriptors = {"stdin"}
  PipeMax = 1
INVARIANTS SystemTypeOK NoRequestForgotten NoReplyForgotten OneAnswerEach
CHECK_DEADLOCK FALSE
PROPERTIES SleepsEnd AnswersCome HighGetsTurn MachineEnds
