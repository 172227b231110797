SPECIFICATION ExecFairSpec
CONSTANTS
  NULL = NULL
  MainThread = main
  Threads = {main, t1, t2, t3}
  Semaphores = {main, t1, t2, t3}
  Devices = {}
  Locks = {}
  Conditions = {}
  InitialValue <- MCInitial
  MaxValue = 1
  MaxThreads = 3
  MissingFiles = TRUE
INVARIANTS
  OwnEntry
  JoinExact
  NoCrash
PROPERTY
  JoinReturnsAfterExit
CHECK_DEADLOCK FALSE
